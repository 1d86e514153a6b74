------------------------------ MODULE RenodeAgent ------------------------------
(***************************************************************************)
(* The agent behind the C interface that Renode loads (renode_mpact.cc):   *)
(* it hands out ids for simulator instances and turns Renode's step        *)
(* requests into calls of CoralNPUTop::Step, whose argument is an int.     *)
(*                                                                         *)
(* Renode makes one call at a time.  A call of step is a sequence of       *)
(* steps, one per chunk of at most INT_MAX instructions.  Of an instance   *)
(* there is what the agent asks it for, the last halt reason.  Calls on an *)
(* unknown id, halt (which finds no free running core to halt), and calls  *)
(* that read or that write other registers and memory change nothing here. *)
(***************************************************************************)
EXTENDS Integers, FiniteSets

CONSTANTS
    IntMax,      (* std::numeric_limits<int>::max()                        *)
    Wrap,        (* 2^32, the modulus of the uint32_t total_executed       *)
    MaxNum,      (* bound: the largest num_to_step Renode asks for         *)
    MaxIds,      (* bound: the number of instances constructed             *)
    MaxCalls     (* bound: the number of calls of step                     *)

ASSUME AgentConstants ==
    /\ {MaxNum, MaxIds, MaxCalls} \subseteq Nat
    /\ IntMax \in Nat \ {0} /\ Wrap \in Nat \ {0}
    /\ IntMax < Wrap

Ids     == 0 .. MaxIds - 1
NoId    == -1
Reason  == {"none", "userRequest", "softwareBreakpoint", "haltAbort",
            "semihostHaltRequest"}
Status  == {"ok", "stoppedAtBreakpoint", "aborted"}

VARIABLES
    count,       (* count_                                                 *)
    live,        (* the keys of core_dbg_instances_                        *)
    names,       (* the keys of name_length_map_                           *)
    reason,      (* halt_reason_ of each instance                          *)
    caller,      (* the instance a call of step is in, or NoId             *)
    left, total, (* num_to_step and total_executed of that call            *)
    result,      (* what the last call of step returned                    *)
    ran,         (* history: the instance of the last call of step         *)
    num, actual, (* history: its num_to_step, and how many instructions    *)
                 (* the instance has executed in it                        *)
    fresh,       (* history: the instances reset since they last executed  *)
                 (* an instruction                                         *)
    calls        (* how much of MaxCalls is used                           *)

session == <<count, live, names>>
request == <<caller, left, total, calls>>
history == <<ran, num, actual, fresh>>
agentvars == <<session, reason, request, result, history>>

AgentInit ==
    /\ count = 0 /\ live = {} /\ names = {}
    /\ reason = [i \in Ids |-> "none"]
    /\ caller = NoId /\ left = 0 /\ total = 0
    /\ result = [executed |-> 0, status |-> "ok"]
    /\ ran = NoId /\ num = 0 /\ actual = 0 /\ calls = 0
    /\ fresh = {}

--------------------------------------------------------------------------------
(* Instances.                                                              *)

(* Faulty variant: the number of live instances is the next id.            *)
NextIdBySize == Cardinality(live)

NextId == count

NameLengths(id) == names \cup {id}

(* construct and construct_with_memory.                                    *)
Construct ==
    /\ caller = NoId /\ count < MaxIds
    /\ live' = live \cup {NextId}
    /\ names' = NameLengths(NextId)
    /\ reason' = [reason EXCEPT ![NextId] = "none"]
    /\ count' = count + 1
    /\ UNCHANGED <<request, result, history>>

(* The entry of name_length_map_ stays.                                    *)
Destroy(id) ==
    /\ caller = NoId /\ id \in live
    /\ live' = live \ {id}
    /\ UNCHANGED <<count, names, reason, request, result, history>>

(* "For now, do nothing."                                                  *)
Reset(id) ==
    /\ caller = NoId /\ id \in live
    /\ fresh' = fresh \cup {id} /\ ran' = NoId
    /\ UNCHANGED <<session, reason, request, result, num, actual>>

(* write_register of the pc, and load_executable: CoralNPUTop forgets that *)
(* it stopped at a breakpoint, and nothing else.                           *)
WritePc(id) ==
    /\ caller = NoId /\ id \in live
    /\ reason' = [reason EXCEPT ![id] =
                      IF @ = "softwareBreakpoint" THEN "none" ELSE @]
    /\ ran' = NoId
    /\ UNCHANGED <<session, request, result, num, actual, fresh>>

--------------------------------------------------------------------------------
(* step.                                                                   *)

Return(n, s) == result' = [executed |-> n, status |-> s]

(* An exited program is not stepped any further.                           *)
Runnable(id) == reason[id] # "semihostHaltRequest"

Step(id, n) ==
    /\ caller = NoId /\ id \in live
    /\ calls < MaxCalls /\ calls' = calls + 1
    /\ ran' = id /\ num' = n /\ actual' = 0
    /\ \/ /\ n = 0
          /\ Return(0, "ok")
          /\ UNCHANGED <<caller, left, total>>
       \/ /\ n > 0 /\ ~Runnable(id)
          /\ Return(0, "aborted")
          /\ UNCHANGED <<caller, left, total>>
       \/ /\ n > 0 /\ Runnable(id)
          /\ caller' = id /\ left' = n /\ total' = 0
          /\ UNCHANGED result
    /\ UNCHANGED <<session, reason, fresh>>

StepCount == IF left > IntMax THEN IntMax ELSE left

(* CoralNPUTop::Step(k): j instructions, fewer than k only if one of them  *)
(* halts the core.                                                         *)
CoreStep(id, k, j, r) ==
    /\ j < k => r # "none"
    /\ reason' = [reason EXCEPT ![id] = r]
    /\ actual' = actual + j /\ fresh' = fresh \ {id}

(* Faulty variant: only the last chunk is counted.                         *)
AccumulateLast(j) == j

(* total_executed is a uint32_t.                                           *)
Accumulate(j) == (total + j) % Wrap

(* Faulty variant: a pause is reported as a breakpoint.                    *)
StatusConfused(r) ==
    CASE r \in {"softwareBreakpoint", "userRequest"} -> "stoppedAtBreakpoint"
      [] r \in {"semihostHaltRequest", "haltAbort"}  -> "aborted"
      [] OTHER                                       -> "ok"

StatusOf(r) ==
    CASE r = "softwareBreakpoint"                   -> "stoppedAtBreakpoint"
      [] r \in {"semihostHaltRequest", "haltAbort"} -> "aborted"
      [] OTHER                                      -> "ok"

(* One pass of the loop: step a chunk, then look at the halt reason and at *)
(* what is left.                                                           *)
StepChunk ==
    /\ caller # NoId
    /\ \E j \in 1 .. StepCount, r \in Reason :
          /\ CoreStep(caller, StepCount, j, r)
          /\ total' = Accumulate(j)
          /\ \/ /\ r # "none" \/ left = j
                /\ Return(total', StatusOf(r))
                /\ caller' = NoId /\ left' = 0
             \/ /\ r = "none" /\ left # j
                /\ left' = left - j
                /\ UNCHANGED <<caller, result>>
    /\ UNCHANGED <<session, calls, ran, num>>

AgentNext ==
    \/ Construct \/ StepChunk
    \/ \E id \in Ids : \/ Destroy(id) \/ Reset(id) \/ WritePc(id)
                       \/ \E n \in 0 .. MaxNum : Step(id, n)

AgentSpec == AgentInit /\ [][AgentNext]_agentvars

--------------------------------------------------------------------------------
(* Properties.                                                             *)

(* The type invariant of the agent.                                        *)
AgentTypeOK ==
    /\ count \in 0 .. MaxIds /\ live \subseteq Ids /\ names \subseteq Ids
    /\ reason \in [Ids -> Reason]
    /\ caller \in live \cup {NoId} /\ ran \in Ids \cup {NoId}
    /\ left \in 0 .. MaxNum /\ total \in 0 .. Wrap - 1
    /\ result \in [executed : 0 .. Wrap - 1, status : Status]
    /\ num \in 0 .. MaxNum /\ actual \in 0 .. MaxNum
    /\ calls \in 0 .. MaxCalls /\ fresh \subseteq Ids

(* An id names one instance for ever: Renode may go on using the id of a   *)
(* destroyed machine and is told that there is none, never given another   *)
(* machine (Construct, Destroy).                                           *)
IdsNotReused == [][\A id \in live' \ live : id \notin names]_agentvars

(* name_length_map_.at(id) in GetRegisterInfo finds an entry for every     *)
(* live instance, or it would throw.                                       *)
NamesKnown == live \subseteq names

(* The instructions of the call in progress are accounted for: executed    *)
(* and still to execute add up to what was asked for, over any number of   *)
(* chunks, and the call never executes more.                               *)
StepAccounts == caller # NoId => actual + left = num /\ left > 0

(* "Return the number of instructions stepped": what a call of step        *)
(* returns is what the instance executed in it, over all its chunks.       *)
StepExact == caller = NoId => result.executed = actual

(* Renode is told of a breakpoint, and of an abort, exactly when the       *)
(* instance stopped for it, and of success short of num_to_step only when  *)
(* the program paused.                                                     *)
StatusTruthful ==
    (caller = NoId /\ ran # NoId /\ num > 0) =>
        /\ result.status = "stoppedAtBreakpoint"
              <=> reason[ran] = "softwareBreakpoint"
        /\ result.status = "aborted"
              <=> reason[ran] \in {"semihostHaltRequest", "haltAbort"}
        /\ (result.status = "ok" /\ actual < num) => reason[ran] = "userRequest"

(* The agent's books are in order: every live id has a name length, and    *)
(* the calls of step, over any number of chunks and however they end,      *)
(* execute what was asked for and say why they stopped.                    *)
AgentConsistent == AgentTypeOK /\ NamesKnown /\ StepAccounts /\ StatusTruthful

--------------------------------------------------------------------------------
(* What the header promises of reset.                                      *)

(* "Reset the instance": an instance that has been reset executes again    *)
(* when it is stepped, as a new one does, however its program ended before *)
(* (renode_mpact.h, reset).                                                *)
ResetRestarts ==
    (caller = NoId /\ ran \in fresh /\ num > 0) => actual > 0

================================================================================
