---------------------------- MODULE RenodeProofs ----------------------------
(***************************************************************************)
(* Proofs about the two parts that Renode talks to: the agent, for every   *)
(* width of int and of the sum, and any number of instances, calls and     *)
(* chunks; and the memory, which implements the flat one in blocks, for    *)
(* every block size, memory size, set of requests and number of accesses.  *)
(***************************************************************************)
EXTENDS RenodeAgent, RenodeMemory, TLAPS

-----------------------------------------------------------------------------
(* The agent.                                                              *)

(* What the properties of the agent need to be inductive: every id that    *)
(* has been given out is below the counter, also that of the last call of  *)
(* step; and a call in progress is the last call.                          *)
IdsBelow   == names \subseteq 0 .. count - 1 /\ ran \in names \cup {NoId}
CallIsLast == caller # NoId => caller = ran

AgentInv == AgentConsistent /\ IdsBelow /\ CallIsLast

(* The invariant holds before the first call.                              *)
LEMMA AgentInvInit == AgentInit => AgentInv
<1> SUFFICES ASSUME AgentInit PROVE AgentInv
  OBVIOUS
<1>1. AgentTypeOK
  BY AgentConstants DEF AgentInit, AgentTypeOK, Ids, NoId, Reason, Status
<1>2. QED
  BY <1>1 DEF AgentInit, AgentInv, AgentConsistent, NamesKnown, StepAccounts,
     StatusTruthful, IdsBelow, CallIsLast, NoId

(* A chunk is at least one instruction and at most what is left.           *)
LEMMA ChunkSize ==
    ASSUME left \in Nat, NEW j \in 1 .. StepCount
    PROVE  j \in Nat /\ 0 < j /\ j <= left
  BY AgentConstants DEF StepCount

(* What one pass of the loop of step does, with the chunk and the reason   *)
(* it ended for.                                                           *)
LEMMA ChunkEffect ==
    ASSUME AgentInv, StepChunk
    PROVE  \E j \in 1 .. StepCount, r \in Reason :
             /\ caller # NoId /\ UNCHANGED <<session, calls, ran, num>>
             /\ reason' = [reason EXCEPT ![caller] = r]
             /\ actual' = actual + j /\ total' = Accumulate(j)
             /\ fresh' = fresh \ {caller}
             /\ \/ /\ r # "none" \/ left = j
                   /\ result' = [executed |-> total', status |-> StatusOf(r)]
                   /\ caller' = NoId /\ left' = 0
                \/ /\ r = "none" /\ left # j
                   /\ left' = left - j /\ caller' = caller /\ result' = result
  BY DEF StepChunk, CoreStep, Return

(* Every call, and every pass of the loop of step, preserves it.           *)
LEMMA AgentInvStep == AgentInv /\ [AgentNext]_agentvars => AgentInv'
<1> SUFFICES ASSUME AgentInv, [AgentNext]_agentvars PROVE AgentInv'
  OBVIOUS
<1> USE DEF AgentInv, AgentConsistent
<1>1. CASE Construct
  <2>1. /\ caller = NoId /\ count \in Ids /\ count' = count + 1
        /\ live' = live \cup {count} /\ names' = names \cup {count}
        /\ reason' = [reason EXCEPT ![count] = "none"]
        /\ UNCHANGED <<caller, left, total, calls, result, ran, num, actual, fresh>>
    BY <1>1, AgentConstants
       DEF Construct, NextId, NameLengths, Ids, AgentTypeOK, request, history
  <2>2. AgentTypeOK'
    BY <2>1, AgentConstants DEF AgentTypeOK, Ids, Reason
  <2>3. ran # count
    BY <2>1 DEF IdsBelow, NoId, Ids
  <2>4. StatusTruthful'
    BY <2>1, <2>3 DEF StatusTruthful, AgentTypeOK
  <2>5. IdsBelow'
    BY <2>1 DEF IdsBelow, AgentTypeOK
  <2>6. QED
    BY <2>1, <2>2, <2>4, <2>5 DEF NamesKnown, StepAccounts, CallIsLast
<1>2. ASSUME NEW id \in Ids, Destroy(id) PROVE AgentInv'
  <2>1. AgentTypeOK'
    BY <1>2 DEF Destroy, AgentTypeOK, request, history
  <2>2. QED
    BY <1>2, <2>1 DEF Destroy, request, history, NamesKnown, StepAccounts,
       StatusTruthful, IdsBelow, CallIsLast
<1>3. ASSUME NEW id \in Ids, WritePc(id) PROVE AgentInv'
  <2>1. AgentTypeOK'
    BY <1>3 DEF WritePc, AgentTypeOK, request, session, Reason
  <2>2. QED
    BY <1>3, <2>1 DEF WritePc, request, session, NamesKnown, StepAccounts,
       StatusTruthful, IdsBelow, CallIsLast
<1>4. ASSUME NEW id \in Ids, NEW n \in 0 .. MaxNum, Step(id, n) PROVE AgentInv'
  <2>1. /\ caller = NoId /\ id \in live /\ calls < MaxCalls /\ calls' = calls + 1
        /\ ran' = id /\ num' = n /\ actual' = 0
        /\ UNCHANGED <<count, live, names, reason, fresh>>
    BY <1>4 DEF Step, session
  <2>2. n \in Nat /\ MaxNum \in Nat /\ Wrap \in Nat /\ Wrap > 0 /\ id # NoId
    BY AgentConstants DEF NoId, Ids
  <2>3. IdsBelow' /\ NamesKnown'
    BY <2>1 DEF IdsBelow, NamesKnown
  <2>4. CASE n = 0
    <3>1. /\ result' = [executed |-> 0, status |-> "ok"]
          /\ UNCHANGED <<caller, left, total>>
      BY <1>4, <2>4 DEF Step, Return
    <3>2. AgentTypeOK'
      BY <2>1, <2>2, <3>1, AgentConstants DEF AgentTypeOK, Status
    <3>3. QED
      BY <2>1, <2>3, <2>4, <3>1, <3>2 DEF StepAccounts, StatusTruthful, CallIsLast
  <2>5. CASE n > 0 /\ ~Runnable(id)
    <3>1. /\ result' = [executed |-> 0, status |-> "aborted"]
          /\ UNCHANGED <<caller, left, total>>
      BY <1>4, <2>5, <2>2 DEF Step, Return
    <3>2. AgentTypeOK'
      BY <2>1, <2>2, <3>1, AgentConstants DEF AgentTypeOK, Status
    <3>3. QED
      BY <2>1, <2>3, <2>5, <3>1, <3>2
         DEF StepAccounts, StatusTruthful, CallIsLast, Runnable
  <2>6. CASE n > 0 /\ Runnable(id)
    <3>1. caller' = id /\ left' = n /\ total' = 0 /\ UNCHANGED result
      BY <1>4, <2>6, <2>2 DEF Step
    <3>2. AgentTypeOK'
      BY <2>1, <2>2, <3>1, AgentConstants DEF AgentTypeOK
    <3>3. QED
      BY <2>1, <2>2, <2>3, <2>6, <3>1, <3>2
         DEF StepAccounts, StatusTruthful, CallIsLast, Runnable
  <2>7. QED
    BY <2>2, <2>4, <2>5, <2>6
<1>5. CASE StepChunk
  <2>1. PICK j \in 1 .. StepCount, r \in Reason :
             /\ caller # NoId /\ UNCHANGED <<session, calls, ran, num>>
             /\ reason' = [reason EXCEPT ![caller] = r]
             /\ actual' = actual + j /\ total' = Accumulate(j)
             /\ fresh' = fresh \ {caller}
             /\ \/ /\ r # "none" \/ left = j
                   /\ result' = [executed |-> total', status |-> StatusOf(r)]
                   /\ caller' = NoId /\ left' = 0
                \/ /\ r = "none" /\ left # j
                   /\ left' = left - j /\ caller' = caller /\ result' = result
    BY <1>5, ChunkEffect
  <2>2. /\ left \in Nat /\ actual \in Nat /\ num \in Nat /\ total \in Nat
        /\ MaxNum \in Nat /\ num <= MaxNum
    BY AgentConstants DEF AgentTypeOK
  <2>3. j \in Nat /\ 0 < j /\ j <= left
    BY <2>2, ChunkSize
  <2>4. actual + left = num /\ caller \in live /\ caller \in Ids /\ ran = caller
    BY <2>1 DEF StepAccounts, AgentTypeOK, CallIsLast
  <2>5. Accumulate(j) \in 0 .. Wrap - 1
    BY <2>2, <2>3, AgentConstants DEF Accumulate
  <2>6. StatusOf(r) \in Status
    BY DEF StatusOf, Status
  <2>7. /\ actual' \in 0 .. MaxNum /\ left' \in 0 .. MaxNum
        /\ actual' + (left - j) = num'
    BY <2>1, <2>2, <2>3, <2>4
  <2>8. AgentTypeOK'
    <3>1. result' \in [executed : 0 .. Wrap - 1, status : Status]
      BY <2>1, <2>5, <2>6 DEF AgentTypeOK
    <3>2. caller' \in live' \cup {NoId} /\ reason' \in [Ids -> Reason]
      BY <2>1, <2>4 DEF AgentTypeOK, session
    <3>3. QED
      BY <2>1, <2>5, <2>7, <3>1, <3>2 DEF AgentTypeOK, session
  <2>9. NamesKnown' /\ IdsBelow'
    BY <2>1 DEF NamesKnown, IdsBelow, session
  <2>10. reason'[caller] = r
    BY <2>1, <2>4 DEF AgentTypeOK
  <2>11. CASE caller' = caller
    <3>1. r = "none" /\ left' = left - j /\ left # j
      BY <2>1, <2>11
    <3>2. StepAccounts' /\ CallIsLast' /\ StatusTruthful'
      BY <2>1, <2>2, <2>3, <2>4, <2>7, <2>10, <2>11, <3>1
         DEF StepAccounts, CallIsLast, StatusTruthful
    <3>3. QED
      BY <2>8, <2>9, <3>2
  <2>12. CASE caller' # caller
    <3>1. /\ caller' = NoId
          /\ r # "none" \/ left = j
          /\ result' = [executed |-> total', status |-> StatusOf(r)]
      BY <2>1, <2>12
    <3>2. ran' = caller /\ reason'[ran'] = r
      BY <2>1, <2>4, <2>10
    <3>3. r = "none" => actual' = num'
      BY <2>2, <2>3, <2>7, <3>1
    <3>4. /\ StatusOf(r) = "stoppedAtBreakpoint" <=> r = "softwareBreakpoint"
          /\ StatusOf(r) = "aborted" <=> r \in {"semihostHaltRequest", "haltAbort"}
          /\ StatusOf(r) = "ok" => r \in {"none", "userRequest"}
      BY DEF StatusOf, Reason
    <3>5. StatusTruthful'
      <4>1. result'.status = StatusOf(r)
        BY <3>1
      <4>2. actual' < num' => r # "none"
        BY <2>2, <2>7, <3>3
      <4>3. QED
        BY <3>2, <3>4, <4>1, <4>2 DEF StatusTruthful
    <3>6. QED
      BY <2>8, <2>9, <3>1, <3>5 DEF StepAccounts, CallIsLast
  <2>13. QED
    BY <2>11, <2>12
<1>6. ASSUME NEW id \in Ids, Reset(id) PROVE AgentInv'
  <2>1. AgentTypeOK'
    BY <1>6 DEF Reset, AgentTypeOK, request, session
  <2>2. QED
    BY <1>6, <2>1 DEF Reset, request, session, NamesKnown, StepAccounts,
       StatusTruthful, IdsBelow, CallIsLast
<1>7. CASE UNCHANGED agentvars
  BY <1>7 DEF agentvars, session, request, history, AgentTypeOK, NamesKnown,
     StepAccounts, StatusTruthful, IdsBelow, CallIsLast
<1>8. QED
  BY <1>1, <1>2, <1>3, <1>4, <1>5, <1>6, <1>7 DEF AgentNext

(* The strengthened invariant holds in every state.                        *)
LEMMA AgentInvariant == AgentSpec => []AgentInv
  BY AgentInvInit, AgentInvStep, PTL DEF AgentSpec

(* The agent's books are in order after any calls: every live id has a     *)
(* name length, a call of step executes what was asked for over any number *)
(* of chunks, and it says why it stopped.                                  *)
THEOREM AgentIsConsistent == AgentSpec => []AgentConsistent
<1>1. AgentInv => AgentConsistent
  BY DEF AgentInv
<1>2. QED
  BY <1>1, AgentInvariant, PTL

(* An id is never given out twice, whatever is destroyed in between.       *)
THEOREM IdsAreNotReused == AgentSpec => IdsNotReused
<1>1. AgentInv /\ [AgentNext]_agentvars => [\A id \in live' \ live : id \notin names]_agentvars
  <2> SUFFICES ASSUME AgentInv, AgentNext, NEW id \in live' \ live
               PROVE  id \notin names
    BY DEF agentvars
  <2>1. Construct
    BY DEF AgentNext, StepChunk, Destroy, Reset, WritePc, Step, session, agentvars
  <2>2. id = count
    BY <2>1 DEF Construct, NextId
  <2>3. QED
    BY <2>2 DEF AgentInv, AgentConsistent, AgentTypeOK, IdsBelow
<1>2. QED
  BY <1>1, AgentInvariant, PTL DEF AgentSpec, IdsNotReused

(* What the sum of the chunks is worth while it does not wrap.             *)
TotalExact == caller # NoId => total = actual

(* As long as no request reaches 2^32 instructions, what step returns is   *)
(* what the instance executed, over any number of chunks.  Beyond, the     *)
(* uint32_t sum wraps (renode_mpact.cc:296).                               *)
THEOREM StepsAreExact ==
    ASSUME MaxNum < Wrap
    PROVE  AgentSpec => []StepExact
<1>1. AgentInit => TotalExact /\ StepExact
  BY DEF AgentInit, TotalExact, StepExact
<1>2. AgentInv /\ TotalExact /\ StepExact /\ [AgentNext]_agentvars => TotalExact' /\ StepExact'
  <2> SUFFICES ASSUME AgentInv, TotalExact, StepExact, [AgentNext]_agentvars
               PROVE  TotalExact' /\ StepExact'
    OBVIOUS
  <2>1. CASE StepChunk
    <3>1. PICK j \in 1 .. StepCount, r \in Reason :
             /\ caller # NoId /\ UNCHANGED <<session, calls, ran, num>>
             /\ reason' = [reason EXCEPT ![caller] = r]
             /\ actual' = actual + j /\ total' = Accumulate(j)
             /\ fresh' = fresh \ {caller}
             /\ \/ /\ r # "none" \/ left = j
                   /\ result' = [executed |-> total', status |-> StatusOf(r)]
                   /\ caller' = NoId /\ left' = 0
                \/ /\ r = "none" /\ left # j
                   /\ left' = left - j /\ caller' = caller /\ result' = result
      BY <2>1, ChunkEffect
    <3>2. /\ left \in Nat /\ actual \in Nat /\ num \in Nat /\ total \in Nat
          /\ MaxNum \in Nat /\ num <= MaxNum /\ actual + left = num
      BY <3>1, AgentConstants DEF AgentInv, AgentConsistent, AgentTypeOK, StepAccounts
    <3>3. j \in Nat /\ j <= left
      BY <3>2, ChunkSize
    <3>4. total = actual /\ total + j \in 0 .. Wrap - 1
      BY <3>1, <3>2, <3>3, AgentConstants DEF TotalExact
    <3>5. total' = actual'
      BY <3>1, <3>2, <3>3, <3>4, AgentConstants DEF Accumulate
    <3>6. QED
      BY <3>1, <3>5 DEF TotalExact, StepExact
  <2>2. ASSUME NEW id \in Ids, NEW n \in 0 .. MaxNum, Step(id, n)
        PROVE  TotalExact' /\ StepExact'
    <3>1. actual' = 0 /\ caller = NoId
      BY <2>2 DEF Step
    <3>2. CASE n = 0 \/ ~Runnable(id)
      <4>1. result'.executed = 0 /\ caller' = NoId
        BY <2>2, <3>1, <3>2 DEF Step, Return
      <4>2. QED
        BY <3>1, <4>1 DEF TotalExact, StepExact
    <3>3. CASE n > 0 /\ Runnable(id)
      <4>1. total' = 0 /\ caller' = id /\ id # NoId
        BY <2>2, <3>3 DEF Step, Ids, NoId
      <4>2. QED
        BY <3>1, <4>1 DEF TotalExact, StepExact
    <3>4. QED
      BY <3>2, <3>3, AgentConstants
  <2>3. CASE ~StepChunk /\ ~\E id \in Ids, n \in 0 .. MaxNum : Step(id, n)
    <3>1. UNCHANGED <<caller, total, actual, result>>
      BY <2>3 DEF AgentNext, Construct, Destroy, Reset, WritePc, request, history, agentvars
    <3>2. QED
      BY <3>1 DEF TotalExact, StepExact
  <2>4. QED
    BY <2>1, <2>2, <2>3
<1>3. QED
  BY <1>1, <1>2, AgentInvariant, PTL DEF AgentSpec

-----------------------------------------------------------------------------
(* Addresses, blocks and offsets.                                          *)

(* A number is made of one quotient and one remainder.                     *)
LEMMA Quotient ==
    ASSUME NEW q \in Nat, NEW n \in Nat \ {0}, NEW o \in 0 .. n - 1
    PROVE  (q * n + o) \div n = q
  OBVIOUS

(* A quotient is the largest one that fits.                                *)
LEMMA Division ==
    ASSUME NEW a \in Nat, NEW n \in Nat \ {0}
    PROVE  a \div n \in Nat /\ (a \div n) * n <= a /\ a < (a \div n) * n + n
  OBVIOUS

(* A list that has one address for each element, or one for all of them.   *)
LEMMA Addressed ==
    ASSUME NEW S, NEW list \in Seq(S), NEW len \in Nat, NEW i \in 0 .. len - 1,
           Len(list) = 1 \/ Len(list) = len
    PROVE  IF Len(list) > 1 THEN list[i + 1] \in S ELSE list[1] \in S
<1>1. Len(list) \in Nat /\ \A k \in 1 .. Len(list) : list[k] \in S
  OBVIOUS
<1>2. Len(list) > 1 => i + 1 \in 1 .. Len(list)
  BY <1>1
<1>3. 1 \in 1 .. Len(list)
  <2> DEFINE n == Len(list)
  <2>1. n \in Nat /\ (n = 1 \/ n = len)
    BY <1>1
  <2> HIDE DEF n
  <2>2. n >= 1
    BY <2>1
  <2>3. QED
    BY <2>1, <2>2 DEF n
<1>4. QED
  BY <1>1, <1>2, <1>3

(* The elements of a buffer lie in it one after the other.                 *)
LEMMA Rows ==
    ASSUME NEW n \in Nat, NEW size \in Nat, NEW i \in 0 .. n - 1
    PROVE  i * size \in Nat /\ n * size \in Nat /\ i * size + size <= n * size
<1>1. (i + 1) * size <= n * size
  OBVIOUS
<1>2. QED
  BY <1>1

(* The offset of an address is its distance from the start of its block,   *)
(* and lies in the block.                                                  *)
LEMMA Offset ==
    ASSUME NEW a \in Nat
    PROVE  /\ a \div BlockSize \in Nat
           /\ BlockUnitOffset(a) \in 0 .. BlockSize - 1
           /\ a = (a \div BlockSize) * BlockSize + BlockUnitOffset(a)
<1>1. BlockSize \in Nat \ {0}
  BY MemoryAssumption
<1>2. /\ a \div BlockSize \in Nat
      /\ (a \div BlockSize) * BlockSize <= a
      /\ a < (a \div BlockSize) * BlockSize + BlockSize
  BY <1>1, Division, Zenon
<1>3. QED
  BY <1>1, <1>2 DEF BlockUnitOffset

(* An address is found from its block and its offset.                      *)
LEMMA Located ==
    ASSUME NEW e \in Nat, NEW b \in Nat, NEW o \in 0 .. BlockSize - 1,
           e = b * BlockSize + o
    PROVE  e \div BlockSize = b /\ BlockUnitOffset(e) = o
<1>1. BlockSize \in Nat \ {0}
  BY MemoryAssumption
<1>2. e \div BlockSize = b
  BY <1>1, Quotient, Zenon
<1>3. BlockUnitOffset(e) = e - b * BlockSize
  BY <1>2 DEF BlockUnitOffset
<1>4. b * BlockSize \in Nat
  BY <1>1
<1>5. QED
  BY <1>2, <1>3, <1>4

(* The addresses up to the end of a block lie in it, at consecutive        *)
(* offsets.                                                                *)
LEMMA Onward ==
    ASSUME NEW a \in Nat, NEW d \in Nat, BlockUnitOffset(a) + d < BlockSize
    PROVE  /\ (a + d) \div BlockSize = a \div BlockSize
           /\ BlockUnitOffset(a + d) = BlockUnitOffset(a) + d
<1>1. BlockSize \in Nat \ {0}
  BY MemoryAssumption
<1> DEFINE b == a \div BlockSize
           o == BlockUnitOffset(a)
           e == a + d
           p == o + d
<1>2. b \in Nat /\ o \in 0 .. BlockSize - 1 /\ a = b * BlockSize + o
  BY Offset, Zenon
<1>3. p < BlockSize
  OBVIOUS
<1> HIDE DEF b, o
<1>4. p \in 0 .. BlockSize - 1
  BY <1>1, <1>2, <1>3
<1>5. e \in Nat /\ e = b * BlockSize + p
  BY <1>1, <1>2, b * BlockSize \in Nat
<1> HIDE DEF e, p
<1>6. e \div BlockSize = b /\ BlockUnitOffset(e) = p
  BY <1>2, <1>4, <1>5, Located, Zenon
<1>7. QED
  BY <1>6, Zenon DEF b, o, e, p

(* Every address of the memory lies in one of the blocks, also those in    *)
(* the last, partly used one.                                              *)
LEMMA InBlocks ==
    ASSUME NEW a \in 0 .. MemorySize - 1
    PROVE  a \div BlockSize \in 0 .. num_block - 1
<1>1. BlockSize \in Nat \ {0} /\ MemorySize \in Nat
  BY MemoryAssumption
<1> DEFINE q == a \div BlockSize
           m == MemorySize + BlockSize - 1
           n == m \div BlockSize
<1>2. q \in Nat /\ q * BlockSize <= a
  <2>1. a \in Nat
    BY <1>1
  <2>2. QED
    BY <1>1, <2>1, Division, Zenon
<1>3. m \in Nat
  BY <1>1
<1> HIDE DEF m
<1>4. n \in Nat /\ m < n * BlockSize + BlockSize
  BY <1>1, <1>3, Division, Zenon
<1>5. MemorySize - 1 < n * BlockSize
  BY <1>1, <1>4, n * BlockSize \in Nat DEF m
<1> HIDE DEF q, n
<1>6. ASSUME n <= q PROVE FALSE
  <2>1. n * BlockSize <= q * BlockSize
    BY <1>1, <1>2, <1>4, <1>6
  <2>2. QED
    BY <1>1, <1>2, <1>4, <1>5, <2>1, n * BlockSize \in Nat, q * BlockSize \in Nat
<1>7. q \in 0 .. n - 1
  BY <1>2, <1>4, <1>6
<1>8. n = num_block
  BY DEF n, m, num_block, max_address
<1>9. QED
  BY <1>7, <1>8 DEF q

(* A copy is at least one byte and stays in its block.                     *)
LEMMA CopySize ==
    ASSUME NEW a \in Nat, NEW size \in Nat \ {0}
    PROVE  /\ StoreSize(a, size) \in Nat \ {0}
           /\ StoreSize(a, size) <= size
           /\ BlockUnitOffset(a) + StoreSize(a, size) <= BlockSize
<1>1. BlockSize \in Nat \ {0} /\ BlockUnitOffset(a) \in 0 .. BlockSize - 1
  BY MemoryAssumption, Offset
<1>2. QED
  BY <1>1 DEF StoreSize, LesserOf
-----------------------------------------------------------------------------
(* What the mapping needs: the types; that what is left of an element lies *)
(* in the memory and in the data buffer; and that no two results in the    *)
(* delay line have the same id.                                            *)
Value   == Nat \X Nat
Blocks  == [0 .. num_block - 1 -> [0 .. BlockSize - 1 -> Value]]
Buffers == UNION {[0 .. k - 1 -> Value] : k \in Nat}
Calls   == [state : {"busy"}, request : Requests, index : Nat, address : Nat,
            byte_ptr : Nat, size_in_units : Nat, data : Buffers]
Results == [id : Nat, data : Buffers]

MemTypeOK ==
    /\ block_map \in Blocks
    /\ call \in Calls \cup {Idle}
    /\ line \subseteq [result : Results, due : Nat \ {0}]
    /\ issued \in Nat /\ aborted \in BOOLEAN

BufferSize(r) == Len(r.mask) * r.el_size

CallInside ==
    call # Idle =>
        /\ call.data \in [0 .. BufferSize(call.request) - 1 -> Value]
        /\ call.index <= Len(call.request.mask)
        /\ call.size_in_units > 0 =>
              /\ call.address + call.size_in_units <= MemorySize
              /\ call.byte_ptr + call.size_in_units
                     <= BufferSize(call.request)

LineDistinct ==
    /\ \A d, e \in line : d.result = e.result => d = e
    /\ \A e \in line : /\ e.result.id <= issued
                       /\ call # Idle => e.result.id < issued

MemInv == MemTypeOK /\ CallInside /\ LineDistinct

(* A call in progress is not Idle, and its request is one of the requests. *)
LEMMA RequestType ==
    ASSUME NEW r \in Requests
    PROVE  /\ r.kind \in {"load", "store"} /\ r.el_size \in Nat \ {0}
           /\ r.mask \in Seq(BOOLEAN) /\ Len(r.mask) \in Nat
           /\ r.latency \in Nat /\ BufferSize(r) \in Nat
           /\ MemorySize + r.el_size <= AddressSpace
           /\ \A i \in 0 .. Len(r.mask) - 1 :
                 /\ ElementAddress(r, i) \in 0 .. AddressSpace - 1
                 /\ i * r.el_size \in Nat
                 /\ i * r.el_size + r.el_size <= BufferSize(r)
<1>1. /\ r.kind \in {"load", "store"} /\ r.el_size \in Nat \ {0}
      /\ r.mask \in Seq(BOOLEAN) /\ Len(r.mask) \in Nat /\ r.latency \in Nat
      /\ MemorySize + r.el_size <= AddressSpace
      /\ r.addresses \in Seq(0 .. AddressSpace - 1)
      /\ Len(r.addresses) \in {1, Len(r.mask)}
  BY MemoryAssumption
<1>2. BufferSize(r) \in Nat
  BY <1>1 DEF BufferSize
<1>3. AddressSpace \in Nat \ {0}
  BY MemoryAssumption
<1>4. ASSUME NEW i \in 0 .. Len(r.mask) - 1
      PROVE  /\ ElementAddress(r, i) \in 0 .. AddressSpace - 1
             /\ i * r.el_size \in Nat
             /\ i * r.el_size + r.el_size <= BufferSize(r)
  <2>1. i \in Nat /\ i < Len(r.mask)
    BY <1>1
  <2>2. /\ i * r.el_size \in Nat
        /\ i * r.el_size + r.el_size <= Len(r.mask) * r.el_size
    <3>1. Len(r.mask) \in Nat /\ r.el_size \in Nat
      BY <1>1
    <3>2. QED
      BY <3>1, Rows, Zenon
  <2>5. ElementAddress(r, i) \in 0 .. AddressSpace - 1
    <3> DEFINE list  == r.addresses
               Space == 0 .. AddressSpace - 1
    <3>1. list \in Seq(Space) /\ (Len(list) = 1 \/ Len(list) = Len(r.mask))
      BY <1>1
    <3>2. IF Len(list) > 1 THEN list[i + 1] \in Space ELSE list[1] \in Space
      BY <1>1, <3>1, Addressed, Zenon
    <3>3. CASE Len(list) > 1
      BY <3>2, <3>3, Zenon DEF ElementAddress
    <3>4. CASE ~(Len(list) > 1)
      <4>1. list[1] \in Nat
        BY <1>3, <3>2, <3>4
      <4>2. list[1] + i * r.el_size \in Nat
        BY <2>2, <4>1
      <4>3. (list[1] + i * r.el_size) % AddressSpace \in Space
        BY <1>3, <4>2
      <4>4. QED
        BY <3>4, <4>3, Zenon DEF ElementAddress
    <3>5. QED
      BY <3>3, <3>4
  <2>6. QED
    BY <2>2, <2>5 DEF BufferSize
<1>5. QED
  BY <1>1, <1>2, <1>4

(* The two assertions admit exactly the elements that lie in the memory:   *)
(* one whose end wraps around the address space starts beyond it.          *)
LEMMA AdmittedIsInside ==
    ASSUME NEW r \in Requests, NEW i \in 0 .. Len(r.mask) - 1
    PROVE  Admitted(r, i) <=> ElementAddress(r, i) + r.el_size <= MemorySize
<1> DEFINE a == ElementAddress(r, i)
           n == r.el_size
<1>1. /\ a \in 0 .. AddressSpace - 1 /\ n \in Nat \ {0}
      /\ MemorySize + n <= AddressSpace
  BY RequestType
<1>2. MemorySize \in Nat /\ AddressSpace \in Nat /\ MemorySize < AddressSpace
  BY MemoryAssumption
<1> HIDE DEF a, n
<1>3. Admitted(r, i) <=> /\ a >= 0 /\ (a + n) % AddressSpace <= MemorySize
                         /\ a < MemorySize
  BY DEF Admitted, IsValidAddress, max_address, a, n
<1>4. CASE a < MemorySize
  <2>1. a + n \in 0 .. AddressSpace - 1
    BY <1>1, <1>2, <1>4
  <2>2. (a + n) % AddressSpace = a + n
    BY <1>2, <2>1
  <2>3. QED
    BY <1>1, <1>3, <1>4, <2>2 DEF a, n
<1>5. CASE ~(a < MemorySize)
  <2>1. ~(a + n <= MemorySize)
    BY <1>1, <1>2, <1>5
  <2>2. QED
    BY <1>3, <1>5, <2>1 DEF a, n
<1>6. QED
  BY <1>4, <1>5

(* The invariant holds initially.                                          *)
LEMMA MemInvInit == Init => MemInv
<1> SUFFICES ASSUME Init PROVE MemInv
  OBVIOUS
<1>1. BlockSize \in Nat \ {0}
  BY MemoryAssumption
<1>2. block_map \in Blocks
  <2>1. \A b \in 0 .. num_block - 1, o \in 0 .. BlockSize - 1 : Byte(0, b * BlockSize + o) \in Value
    BY <1>1 DEF Byte, Value
  <2>2. QED
    BY <2>1 DEF Init, Blocks
<1>3. QED
  BY <1>2 DEF Init, MemInv, MemTypeOK, CallInside, LineDistinct

(* A call that is in progress, by its parts.                               *)
LEMMA CallParts ==
    ASSUME MemInv, call # Idle
    PROVE  /\ call \in Calls /\ call.request \in Requests /\ call.index \in Nat
           /\ call.address \in Nat /\ call.byte_ptr \in Nat
           /\ call.size_in_units \in Nat
           /\ call.data \in [0 .. BufferSize(call.request) - 1 -> Value]
           /\ call.data \in Buffers
           /\ call.index <= Len(call.request.mask)
  BY DEF MemInv, MemTypeOK, CallInside, Calls

(* A data buffer of the right size is a buffer.                            *)
LEMMA IsBuffer ==
    ASSUME NEW r \in Requests, NEW d \in [0 .. BufferSize(r) - 1 -> Value]
    PROVE  d \in Buffers
<1>1. BufferSize(r) \in Nat
  BY RequestType
<1>2. QED
  BY <1>1 DEF Buffers

(* One turn of the copying loop: the blocks and the buffer keep their      *)
(* shape, and what is left still lies in both.                             *)
LEMMA HelperKeeps ==
    ASSUME MemInv, LoadStoreHelper
    PROVE  MemInv'
<1> DEFINE r == call.request
           b == call.address \div BlockSize
           o == BlockUnitOffset(call.address)
           n == StoreSize(call.address, call.size_in_units)
           p == call.byte_ptr
<1>1. /\ call # Idle /\ call.size_in_units > 0
      /\ UNCHANGED <<line, answers, issued, aborted>>
  BY DEF LoadStoreHelper
<1>2. /\ call \in Calls /\ r \in Requests /\ call.index \in Nat
      /\ call.address \in Nat /\ p \in Nat /\ call.size_in_units \in Nat \ {0}
      /\ call.data \in [0 .. BufferSize(r) - 1 -> Value]
      /\ call.index <= Len(r.mask)
  BY <1>1, CallParts
<1>3. /\ call.address + call.size_in_units <= MemorySize
      /\ p + call.size_in_units <= BufferSize(r)
  BY <1>1 DEF MemInv, CallInside
<1>4. n \in Nat \ {0} /\ n <= call.size_in_units /\ o + n <= BlockSize
  BY <1>2, CopySize, Zenon
<1>5. o \in 0 .. BlockSize - 1
  BY <1>2, Offset, Zenon
<1>6. MemorySize \in Nat /\ BlockSize \in Nat /\ BufferSize(r) \in Nat
  BY <1>2, MemoryAssumption, RequestType
<1>7. b \in 0 .. num_block - 1
  <2>1. call.address \in 0 .. MemorySize - 1
    BY <1>2, <1>3, <1>6
  <2>2. QED
    BY <2>1, InBlocks, Zenon
<1> HIDE DEF r, b, o, n, p
<1>8. block_map' \in Blocks
  <2>1. CASE r.kind = "load"
    BY <2>1 DEF LoadStoreHelper, r, MemInv, MemTypeOK
  <2>2. CASE r.kind # "load"
    <3>1. block_map' = [block_map EXCEPT ![b] = [q \in DOMAIN block_map[b] |->
                          IF q \in o .. o + n - 1 THEN call.data[p + q - o]
                                                 ELSE block_map[b][q]]]
      BY <2>2 DEF LoadStoreHelper, r, b, o, n, p
    <3>2. block_map \in Blocks
      BY DEF MemInv, MemTypeOK
    <3>3. \A q \in o .. o + n - 1 : p + q - o \in 0 .. BufferSize(r) - 1
      BY <1>2, <1>3, <1>4, <1>5, <1>6
    <3>4. \A q \in o .. o + n - 1 : call.data[p + q - o] \in Value
      BY <1>2, <3>3
    <3>5. [q \in DOMAIN block_map[b] |->
             IF q \in o .. o + n - 1 THEN call.data[p + q - o] ELSE block_map[b][q]]
               \in [0 .. BlockSize - 1 -> Value]
      BY <1>7, <3>2, <3>4 DEF Blocks
    <3>6. QED
      BY <1>7, <3>1, <3>2, <3>5 DEF Blocks
  <2>3. QED
    BY <2>1, <2>2
<1>9. /\ call' \in Calls /\ call' # Idle /\ call'.request = r
      /\ call'.data \in [0 .. BufferSize(r) - 1 -> Value]
      /\ call'.index = call.index
      /\ call'.size_in_units = call.size_in_units - n
      /\ call'.byte_ptr = p + n /\ call'.address = call.address + n
  <2> DEFINE d == IF r.kind = "store" THEN call.data
                  ELSE [k \in DOMAIN call.data |->
                          IF k \in p .. p + n - 1 /\ o + k - p < BlockSize
                          THEN block_map[b][o + k - p] ELSE call.data[k]]
  <2>1. call' = [call EXCEPT !.size_in_units = @ - n, !.byte_ptr = @ + n,
                             !.address = @ + n, !.data = d]
    BY DEF LoadStoreHelper, r, b, o, n, p
  <2>2. d \in [0 .. BufferSize(r) - 1 -> Value]
    <3>1. ASSUME NEW k \in p .. p + n - 1, o + k - p < BlockSize
          PROVE  block_map[b][o + k - p] \in Value
      <4>1. o + k - p \in 0 .. BlockSize - 1
        BY <1>2, <1>4, <1>5, <1>6, <3>1
      <4>2. QED
        BY <1>7, <4>1 DEF MemInv, MemTypeOK, Blocks
    <3>2. QED
      BY <1>2, <3>1
  <2>3. d \in Buffers
    BY <1>2, <2>2, IsBuffer
  <2> HIDE DEF d
  <2>4. /\ call.size_in_units - n \in Nat /\ p + n \in Nat /\ call.address + n \in Nat
    BY <1>2, <1>4
  <2>5. call' \in Calls /\ call'.state = "busy"
    BY <1>2, <2>1, <2>3, <2>4 DEF Calls, p
  <2>6. QED
    BY <1>2, <2>1, <2>2, <2>5 DEF Calls, Idle, r, p
<1>10. CallInside'
  <2>1. call'.size_in_units > 0 =>
          /\ call'.address + call'.size_in_units <= MemorySize
          /\ call'.byte_ptr + call'.size_in_units <= BufferSize(r)
    <3>1. /\ (call.address + n) + (call.size_in_units - n) = call.address + call.size_in_units
          /\ (p + n) + (call.size_in_units - n) = p + call.size_in_units
      BY <1>2, <1>4
    <3>2. QED
      BY <1>3, <1>9, <3>1
  <2>2. QED
    BY <1>2, <1>9, <2>1 DEF CallInside
<1>11. QED
  BY <1>1, <1>8, <1>9, <1>10 DEF MemInv, MemTypeOK, LineDistinct

(* Every step preserves the invariant.                                     *)
LEMMA MemInvStep == MemInv /\ [Next]_vars => MemInv'
<1> SUFFICES ASSUME MemInv, [Next]_vars PROVE MemInv'
  OBVIOUS
<1>1. ASSUME NEW r \in Requests, Issue(r) PROVE MemInv'
  <2> DEFINE d == [k \in 0 .. Len(r.mask) * r.el_size - 1 |-> Byte(issued + 1, k)]
  <2>1. d \in [0 .. BufferSize(r) - 1 -> Value] /\ d \in Buffers
    <3>1. d \in [0 .. BufferSize(r) - 1 -> Value]
      <4>1. issued \in Nat /\ BufferSize(r) \in Nat
        BY RequestType DEF MemInv, MemTypeOK
      <4>2. \A k \in 0 .. BufferSize(r) - 1 : Byte(issued + 1, k) \in Value
        BY <4>1 DEF Byte, Value
      <4>3. QED
        BY <4>2 DEF BufferSize
    <3>2. QED
      BY <3>1, IsBuffer
  <2> HIDE DEF d
  <2>2. /\ call' = [state |-> "busy", request |-> r, index |-> 0, address |-> 0,
                    byte_ptr |-> 0, size_in_units |-> 0, data |-> d]
        /\ call = Idle /\ issued' = issued + 1 /\ UNCHANGED <<block_map, line, aborted>>
    BY <1>1 DEF Issue, d
  <2>3. call' \in Calls
    BY <2>1, <2>2 DEF Calls
  <2>4. CallInside'
    BY <2>1, <2>2, RequestType DEF CallInside
  <2>5. LineDistinct'
    <3>1. ASSUME NEW e \in line PROVE e.result.id \in Nat /\ e.result.id <= issued
      BY DEF MemInv, MemTypeOK, LineDistinct, Results
    <3>2. issued \in Nat
      BY DEF MemInv, MemTypeOK
    <3>3. \A e \in line : e.result.id < issued + 1
      BY <3>1, <3>2
    <3>4. QED
      BY <2>2, <3>1, <3>2, <3>3 DEF LineDistinct, MemInv
  <2>6. QED
    BY <2>2, <2>3, <2>4, <2>5 DEF MemInv, MemTypeOK
<1>2. CASE MaskedOff
  <2>1. /\ call # Idle /\ call' = [call EXCEPT !.index = @ + 1]
        /\ call.index < Len(call.request.mask) /\ call.size_in_units = 0
        /\ UNCHANGED <<block_map, line, issued, aborted>>
    BY <1>2 DEF MaskedOff, InLoop, More
  <2>2. /\ call \in Calls /\ call.request \in Requests /\ call.index \in Nat
        /\ call.data \in [0 .. BufferSize(call.request) - 1 -> Value]
    BY <2>1, CallParts
  <2>3. /\ call' \in Calls /\ call'.request = call.request /\ call'.data = call.data
        /\ call'.index = call.index + 1 /\ call'.size_in_units = 0
    BY <2>1, <2>2 DEF Calls
  <2>4. Len(call.request.mask) \in Nat
    BY <2>2, RequestType
  <2>5. CallInside'
    BY <2>1, <2>2, <2>3, <2>4 DEF CallInside
  <2>6. QED
    BY <2>1, <2>3, <2>5 DEF MemInv, MemTypeOK, LineDistinct
<1>3. CASE StartElement
  <2> DEFINE r == call.request
             i == call.index
             a == ElementAddress(r, i)
  <2>1. /\ call # Idle /\ i < Len(r.mask) /\ Admitted(r, i)
        /\ call' = [call EXCEPT !.address = a, !.byte_ptr = i * r.el_size,
                                !.size_in_units = r.el_size, !.index = @ + 1]
        /\ UNCHANGED <<block_map, line, issued, aborted>>
    BY <1>3 DEF StartElement, InLoop, More
  <2>2. /\ call \in Calls /\ r \in Requests /\ i \in Nat
        /\ call.data \in [0 .. BufferSize(r) - 1 -> Value]
    BY <2>1, CallParts
  <2>3. /\ r.el_size \in Nat \ {0} /\ Len(r.mask) \in Nat /\ BufferSize(r) \in Nat
        /\ MemorySize + r.el_size <= AddressSpace
    BY <2>2, RequestType
  <2>4. /\ a \in 0 .. AddressSpace - 1 /\ i * r.el_size \in Nat
        /\ i * r.el_size + r.el_size <= BufferSize(r)
    <3>1. i \in 0 .. Len(r.mask) - 1
      BY <2>1, <2>2, <2>3
    <3>2. QED
      BY <2>2, <3>1, RequestType
  <2>5. a + r.el_size <= MemorySize
    <3>1. i \in 0 .. Len(r.mask) - 1
      BY <2>1, <2>2, <2>3
    <3>2. QED
      BY <2>1, <2>2, <3>1, AdmittedIsInside
  <2>6. a \in Nat
    BY <2>4, MemoryAssumption
  <2> HIDE DEF a
  <2>7. /\ call' \in Calls /\ call'.request = r /\ call'.data = call.data
        /\ call'.index = i + 1 /\ call'.size_in_units = r.el_size
        /\ call'.address = a /\ call'.byte_ptr = i * r.el_size
    <3> DEFINE n == r.el_size
               k == i * r.el_size
    <3>1. /\ n \in Nat /\ k \in Nat
          /\ call' = [call EXCEPT !.address = a, !.byte_ptr = k, !.size_in_units = n,
                                  !.index = @ + 1]
      BY <2>1, <2>3, <2>4
    <3> HIDE DEF n, k
    <3>2. /\ call'.request = r /\ call'.data = call.data
          /\ call'.index = i + 1 /\ call'.size_in_units = n
          /\ call'.address = a /\ call'.byte_ptr = k
      BY <2>2, <3>1 DEF Calls
    <3>3. call' \in Calls
      <4>1. call.index + 1 \in Nat
        BY <2>2
      <4>2. QED
        BY <2>2, <2>6, <3>1, <4>1 DEF Calls
    <3>4. QED
      BY <3>2, <3>3, Zenon DEF n, k
  <2>8. i + 1 <= Len(r.mask)
    BY <2>1, <2>2, <2>3
  <2>9. CallInside'
    BY <2>2, <2>4, <2>5, <2>7, <2>8 DEF CallInside
  <2>10. QED
    BY <2>1, <2>7, <2>9 DEF MemInv, MemTypeOK, LineDistinct
<1>4. CASE AssertFails
  BY <1>4 DEF AssertFails, MemInv, MemTypeOK, CallInside, LineDistinct
<1>5. CASE LoadStoreHelper
  BY <1>5, HelperKeeps
<1>6. CASE Finish
  <2> DEFINE answer == [id |-> issued, data |-> call.data]
             entry  == [result |-> answer, due |-> call.request.latency]
  <2>1. /\ call # Idle /\ call' = Idle /\ UNCHANGED <<block_map, issued, aborted>>
        /\ \/ line' = line
           \/ call.request.latency > 0 /\ line' = line \cup {entry}
    BY <1>6, Zenon DEF Finish, InLoop
  <2>2. answer \in Results /\ call.request.latency \in Nat
    <3>1. call.request \in Requests /\ call.data \in Buffers
      BY <2>1, CallParts
    <3>2. call.request.latency \in Nat
      BY <3>1, RequestType
    <3>3. QED
      BY <3>1, <3>2 DEF Results, MemInv, MemTypeOK
  <2>3. \A e \in line : e.result.id \in Nat /\ e.result.id < issued
    BY <2>1 DEF MemInv, MemTypeOK, LineDistinct, Results
  <2>4. issued \in Nat
    BY DEF MemInv, MemTypeOK
  <2>5. \A e \in line : e.result # answer
    BY <2>3, <2>4
  <2>6. line' \subseteq [result : Results, due : Nat \ {0}]
    BY <2>1, <2>2 DEF MemInv, MemTypeOK
  <2>7. LineDistinct'
    <3>1. CASE line' = line
      BY <2>1, <3>1 DEF MemInv, LineDistinct
    <3>2. CASE line' = line \cup {entry}
      <4>1. entry.result = answer /\ answer.id = issued
        OBVIOUS
      <4> HIDE DEF entry, answer
      <4>2. \A d, e \in line' : d.result = e.result => d = e
        BY <2>5, <3>2, <4>1 DEF MemInv, LineDistinct
      <4>3. \A e \in line' : e.result.id <= issued
        BY <2>3, <2>4, <3>2, <4>1
      <4>4. QED
        BY <2>1, <4>2, <4>3 DEF LineDistinct
    <3>3. QED
      BY <2>1, <3>1, <3>2
  <2>8. QED
    BY <2>1, <2>6, <2>7 DEF MemInv, MemTypeOK, CallInside
<1>7. CASE Advance
  <2>1. /\ call = Idle /\ UNCHANGED <<block_map, call, issued, aborted>>
        /\ line' = {[e EXCEPT !.due = @ - 1] : e \in {d \in line : d.due > 1}}
    BY <1>7 DEF Advance
  <2>2. line \subseteq [result : Results, due : Nat \ {0}]
    BY DEF MemInv, MemTypeOK
  <2>3. \A x \in line' : \E e \in line : /\ x = [e EXCEPT !.due = @ - 1]
                                          /\ e.due > 1
    BY <2>1
  <2>4. line' \subseteq [result : Results, due : Nat \ {0}]
    <3> SUFFICES ASSUME NEW x \in line'
                 PROVE  x \in [result : Results, due : Nat \ {0}]
      OBVIOUS
    <3>1. PICK e \in line : x = [e EXCEPT !.due = @ - 1] /\ e.due > 1
      BY <2>3
    <3>2. e \in [result : Results, due : Nat \ {0}] /\ e.due - 1 \in Nat \ {0}
      BY <2>2, <3>1
    <3>3. QED
      BY <3>1, <3>2
  <2>5. LineDistinct'
    <3>1. ASSUME NEW x \in line', NEW y \in line', x.result = y.result
          PROVE  x = y
      <4>1. PICK e \in line : x = [e EXCEPT !.due = @ - 1]
        BY <2>3
      <4>2. PICK f \in line : y = [f EXCEPT !.due = @ - 1]
        BY <2>3
      <4>3. x.result = e.result /\ y.result = f.result
        BY <2>2, <4>1, <4>2
      <4>4. e = f
        BY <3>1, <4>3 DEF MemInv, LineDistinct
      <4>5. QED
        BY <4>1, <4>2, <4>4
    <3>2. ASSUME NEW x \in line' PROVE x.result.id <= issued
      <4>1. PICK e \in line : x = [e EXCEPT !.due = @ - 1]
        BY <2>3
      <4>2. x.result = e.result
        BY <2>2, <4>1
      <4>3. QED
        BY <4>2 DEF MemInv, LineDistinct
    <3>3. QED
      BY <2>1, <3>1, <3>2 DEF LineDistinct
  <2>6. QED
    BY <2>1, <2>4, <2>5 DEF MemInv, MemTypeOK, CallInside
<1>8. ASSUME NEW a \in 0 .. max_address - 1, RenodeWrites(a) PROVE MemInv'
  <2>1. /\ call = Idle /\ UNCHANGED <<call, line, aborted>> /\ issued' = issued + 1
        /\ block_map' = [block_map EXCEPT ![a \div BlockSize][BlockUnitOffset(a)] =
                            Byte(issued + 1, 0)]
    BY <1>8 DEF RenodeWrites
  <2>2. a \div BlockSize \in 0 .. num_block - 1
    BY InBlocks, Zenon DEF max_address
  <2>3. BlockUnitOffset(a) \in 0 .. BlockSize - 1
    <3>1. a \in Nat
      BY MemoryAssumption DEF max_address
    <3>2. QED
      BY <3>1, Offset, Zenon
  <2>4. issued \in Nat /\ Byte(issued + 1, 0) \in Value
    BY DEF MemInv, MemTypeOK, Byte, Value
  <2>5. block_map' \in Blocks
    <3> DEFINE b == a \div BlockSize
               o == BlockUnitOffset(a)
               v == Byte(issued + 1, 0)
    <3>1. block_map' = [block_map EXCEPT ![b] = [block_map[b] EXCEPT ![o] = v]]
      BY <2>1
    <3> HIDE DEF b, o, v
    <3>2. b \in 0 .. num_block - 1 /\ o \in 0 .. BlockSize - 1 /\ v \in Value
      BY <2>2, <2>3, <2>4 DEF b, o, v
    <3>3. QED
      BY <3>1, <3>2 DEF Blocks, MemInv, MemTypeOK
  <2>6. LineDistinct'
    <3>1. \A e \in line : e.result.id \in Nat /\ e.result.id <= issued
      BY DEF MemInv, MemTypeOK, LineDistinct, Results
    <3>2. \A e \in line : e.result.id <= issued + 1
      BY <2>4, <3>1
    <3>3. QED
      BY <2>1, <3>2 DEF LineDistinct, MemInv
  <2>7. QED
    BY <2>1, <2>4, <2>5, <2>6 DEF MemInv, MemTypeOK, CallInside
<1>9. CASE UNCHANGED vars
  BY <1>9 DEF vars, MemInv, MemTypeOK, CallInside, LineDistinct
<1>10. QED
  BY <1>1, <1>2, <1>3, <1>4, <1>5, <1>6, <1>7, <1>8, <1>9 DEF Next, Working

(* The invariant holds in every state.                                     *)
LEMMA MemInvariant == Spec => []MemInv
  BY MemInvInit, MemInvStep, PTL DEF Spec

-----------------------------------------------------------------------------
(* The refinement, step by step.                                           *)

FlatBytes   == [a \in 0 .. max_address - 1 |-> FlatByte(a)]
StoredBytes == [a \in 0 .. max_address - 1 |->
                  block_map[a \div BlockSize][BlockUnitOffset(a)]]
BetweenElements == call = Idle \/ call.size_in_units = 0
PlainAccess ==
    IF call = Idle THEN Idle
    ELSE [state |-> "busy", request |-> call.request, index |-> call.index,
          data |-> call.data]

Plain == FlatBytes = StoredBytes /\ FlatAccess = PlainAccess

(* Between two elements nothing is being copied: the flat memory is what   *)
(* the blocks hold, and the data buffer is what it is.                     *)
LEMMA Quiet == MemInv /\ BetweenElements => Plain
<1> USE DEF Plain
<1> SUFFICES ASSUME MemInv, BetweenElements
             PROVE  FlatBytes = StoredBytes /\ FlatAccess = PlainAccess
  OBVIOUS
<1>1. \A a \in Int : ~Copying(a)
  <2> SUFFICES ASSUME call # Idle, NEW a \in Int
               PROVE  a \notin call.address .. call.address + call.size_in_units - 1
    BY DEF Copying
  <2>1. call.address \in Nat /\ call.size_in_units = 0
    BY CallParts DEF BetweenElements
  <2>2. QED
    BY <2>1
<1>2. FlatBytes = StoredBytes
  <2>1. \A a \in 0 .. max_address - 1 :
          FlatByte(a) = block_map[a \div BlockSize][BlockUnitOffset(a)]
    BY <1>1 DEF FlatByte
  <2>2. QED
    BY <2>1 DEF FlatBytes, StoredBytes
<1>3. FlatAccess = PlainAccess
  <2>1. CASE call = Idle
    BY <2>1 DEF FlatAccess, PlainAccess
  <2>2. CASE call # Idle
    <3>1. /\ call.address \in Nat /\ call.byte_ptr \in Nat
          /\ call.data \in [0 .. BufferSize(call.request) - 1 -> Value]
      BY <2>2, CallParts
    <3>2. \A k \in DOMAIN call.data : ~Copying(call.address + k - call.byte_ptr)
      <4>0. DOMAIN call.data = 0 .. BufferSize(call.request) - 1
        BY <3>1
      <4>1. \A k \in DOMAIN call.data : call.address + k - call.byte_ptr \in Int
        BY <3>1, <4>0
      <4>2. QED
        BY <1>1, <4>1, Zenon
    <3>3. [k \in DOMAIN call.data |->
             LET a == call.address + k - call.byte_ptr
             IN  IF Copying(a) /\ call.request.kind = "load"
                 THEN FlatByte(a) ELSE call.data[k]] = call.data
      BY <3>1, <3>2
    <3>4. QED
      BY <2>2, <3>3 DEF FlatAccess, PlainAccess
  <2>3. QED
    BY <2>1, <2>2
<1>4. QED
  BY <1>2, <1>3

(* The same after a step.                                                  *)
LEMMA QuietNext == MemInv' /\ BetweenElements' => Plain'
  BY Quiet, PTL

(* The initial blocks are the initial flat memory.                         *)
LEMMA InitRefines == Init => Flat!Init
<1> SUFFICES ASSUME Init PROVE Flat!Init
  OBVIOUS
<1>1. MemInv /\ BetweenElements
  BY MemInvInit DEF BetweenElements, Init
<1>2. FlatBytes = StoredBytes /\ FlatAccess = Idle
  BY <1>1, Quiet DEF Plain, PlainAccess, Init
<1>3. StoredBytes = [a \in 0 .. max_address - 1 |-> Byte(0, a)]
  <2>1. ASSUME NEW a \in 0 .. max_address - 1
        PROVE  block_map[a \div BlockSize][BlockUnitOffset(a)] = Byte(0, a)
    <3>1. a \in Nat /\ a \in 0 .. MemorySize - 1
      BY MemoryAssumption DEF max_address
    <3>2. a \div BlockSize \in 0 .. num_block - 1
      BY <3>1, InBlocks, Zenon
    <3>3. /\ BlockUnitOffset(a) \in 0 .. BlockSize - 1
          /\ a = (a \div BlockSize) * BlockSize + BlockUnitOffset(a)
      BY <3>1, Offset, Zenon
    <3> DEFINE b == a \div BlockSize
               o == BlockUnitOffset(a)
    <3> HIDE DEF b, o
    <3>4. b \in 0 .. num_block - 1 /\ o \in 0 .. BlockSize - 1 /\ a = b * BlockSize + o
      BY <3>2, <3>3 DEF b, o
    <3>5. block_map[b][o] = Byte(0, b * BlockSize + o)
      BY <3>4 DEF Init
    <3>6. QED
      BY <3>4, <3>5 DEF b, o
  <2>2. QED
    BY <2>1 DEF StoredBytes
<1>4. QED
  BY <1>2, <1>3 DEF Init, Flat!Init, Flat!Addresses, Flat!Byte, Byte, Flat!Idle, Idle,
     FlatBytes, max_address

Waiting == {e.result : e \in line}

(* A call that begins is an access that begins.                            *)
LEMMA IssueRefines ==
    ASSUME MemInv, MemInv', NEW r \in Requests, Issue(r)
    PROVE  Flat!Begin(r)
<1>1. /\ call = Idle /\ ~aborted /\ issued' = issued + 1
      /\ UNCHANGED <<block_map, line, answers, aborted>>
      /\ call'.state = "busy" /\ call'.request = r /\ call'.index = 0
      /\ call'.size_in_units = 0
      /\ call'.data = [k \in 0 .. Len(r.mask) * r.el_size - 1 |-> Byte(issued + 1, k)]
  BY DEF Issue, Alive
<1>2. BetweenElements /\ BetweenElements' /\ call' # Idle
  BY <1>1 DEF BetweenElements, Idle
<1>3. Plain /\ Plain'
  BY <1>2, Quiet, QuietNext
<1>4. FlatBytes' = FlatBytes /\ Waiting' = Waiting
  BY <1>1, <1>3 DEF Plain, StoredBytes, Waiting
<1>5. /\ FlatAccess = Idle
      /\ FlatAccess' = [state |-> "busy", request |-> r, index |-> 0,
                        data |-> [k \in 0 .. Len(r.mask) * r.el_size - 1 |->
                                    Byte(issued + 1, k)]]
  BY <1>1, <1>2, <1>3 DEF Plain, PlainAccess
<1>6. QED
  BY <1>1, <1>4, <1>5 DEF Flat!Begin, Flat!Idle, Idle, Flat!Byte, Byte, FlatBytes, Waiting

(* An element whose mask bit is off is skipped, in both.                   *)
LEMMA SkipRefines ==
    ASSUME MemInv, MemInv', MaskedOff
    PROVE  Flat!SkipElement
<1>1. /\ call # Idle /\ ~aborted /\ More /\ ~On /\ call.size_in_units = 0
      /\ call' = [call EXCEPT !.index = @ + 1]
      /\ UNCHANGED <<block_map, line, answers, issued, aborted>>
  BY DEF MaskedOff, InLoop, Alive
<1>2. /\ call \in Calls /\ call' # Idle /\ call'.request = call.request
      /\ call'.index = call.index + 1 /\ call'.data = call.data
      /\ call'.size_in_units = 0
  BY <1>1, CallParts DEF Calls, Idle
<1>3. Plain /\ Plain'
  BY <1>1, <1>2, Quiet, QuietNext DEF BetweenElements
<1>4. FlatBytes' = FlatBytes /\ Waiting' = Waiting
  BY <1>1, <1>3 DEF Plain, StoredBytes, Waiting
<1>5. /\ FlatAccess = [state |-> "busy", request |-> call.request,
                       index |-> call.index, data |-> call.data]
      /\ FlatAccess' = [state |-> "busy", request |-> call.request,
                        index |-> call.index + 1, data |-> call.data]
  BY <1>1, <1>2, <1>3 DEF Plain, PlainAccess
<1>6. Flat!Busy /\ Flat!More /\ ~Flat!On
  BY <1>1, <1>5 DEF Flat!Busy, Flat!More, Flat!On, More, On, Flat!Idle
<1>7. FlatAccess' = [FlatAccess EXCEPT !.index = @ + 1]
  BY <1>5
<1>8. QED
  BY <1>1, <1>4, <1>6, <1>7 DEF Flat!SkipElement, FlatBytes, Waiting

(* A call that returns is an access that ends.                             *)
LEMMA FinishRefines ==
    ASSUME MemInv, MemInv', Finish
    PROVE  Flat!End
<1> DEFINE answer == [id |-> issued, data |-> call.data]
           r      == call.request
<1>1. /\ call # Idle /\ ~aborted /\ ~More /\ call.size_in_units = 0 /\ call' = Idle
      /\ UNCHANGED <<block_map, issued, aborted>>
      /\ \/ r.kind = "store" /\ UNCHANGED <<line, answers>>
         \/ /\ r.kind = "load" /\ UNCHANGED answers
            /\ line' = line \cup {[result |-> answer, due |-> r.latency]}
         \/ r.kind = "load" /\ answers' = answers \cup {answer} /\ UNCHANGED line
  BY DEF Finish, InLoop, Alive
<1>2. Plain /\ Plain'
  BY <1>1, Quiet, QuietNext DEF BetweenElements
<1>3. FlatBytes' = FlatBytes
  BY <1>1, <1>2 DEF Plain, StoredBytes
<1>4. /\ FlatAccess = [state |-> "busy", request |-> r, index |-> call.index,
                       data |-> call.data]
      /\ FlatAccess' = Idle
  BY <1>1, <1>2 DEF Plain, PlainAccess
<1>5. Flat!Busy /\ ~Flat!More /\ Flat!Result = answer
  BY <1>1, <1>4 DEF Flat!Busy, Flat!More, More, Flat!Idle, Flat!Result
<1>6. \/ r.kind = "store" /\ Waiting' = Waiting /\ answers' = answers
      \/ r.kind = "load" /\ Waiting' = Waiting \cup {answer} /\ answers' = answers
      \/ r.kind = "load" /\ answers' = answers \cup {answer} /\ Waiting' = Waiting
  <2> DEFINE entry == [result |-> answer, due |-> r.latency]
  <2>1. entry.result = answer
    OBVIOUS
  <2> HIDE DEF entry, answer
  <2>2. line' = line \cup {entry} => Waiting' = Waiting \cup {answer}
    BY <2>1 DEF Waiting
  <2>3. line' = line => Waiting' = Waiting
    BY DEF Waiting
  <2>4. QED
    BY <1>1, <2>2, <2>3 DEF entry, answer
<1>7. FlatAccess.request.kind = r.kind
  BY <1>4
<1> HIDE DEF answer, r
<1>8. QED
  BY <1>1, <1>3, <1>4, <1>5, <1>6, <1>7
     DEF Flat!End, Flat!Idle, Idle, FlatBytes, Waiting

(* A cycle of the delay line answers the loads that leave it.              *)
LEMMA AdvanceRefines ==
    ASSUME MemInv, MemInv', Advance
    PROVE  Flat!Answer
<1>1. /\ call = Idle /\ ~aborted /\ UNCHANGED <<block_map, call, issued, aborted>>
      /\ answers' = answers \cup {e.result : e \in {d \in line : d.due = 1}}
      /\ line' = {[e EXCEPT !.due = @ - 1] : e \in {d \in line : d.due > 1}}
  BY DEF Advance, Alive
<1>2. Plain /\ Plain'
  BY <1>1, Quiet, QuietNext DEF BetweenElements
<1>3. FlatBytes' = FlatBytes /\ FlatAccess = Idle /\ FlatAccess' = Idle
  BY <1>1, <1>2 DEF Plain, StoredBytes, PlainAccess
<1>4. line \subseteq [result : Results, due : Nat \ {0}]
  BY DEF MemInv, MemTypeOK
<1>5. \A e \in line : [e EXCEPT !.due = @ - 1].result = e.result
  BY <1>4
<1>6. Waiting' = {e.result : e \in {d \in line : d.due > 1}}
  <2> DEFINE Late == {d \in line : d.due > 1}
             Sooner(e) == [e EXCEPT !.due = @ - 1]
  <2>0. line' = {Sooner(e) : e \in Late} /\ \A e \in Late : Sooner(e).result = e.result
    BY <1>1, <1>5, Zenon
  <2> HIDE DEF Late, Sooner
  <2>1. \A x \in line' : \E e \in Late : x.result = e.result
    BY <2>0
  <2>2. \A e \in Late : \E x \in line' : x.result = e.result
    BY <2>0
  <2>3. Waiting' = {e.result : e \in Late}
    BY <2>1, <2>2 DEF Waiting
  <2>4. QED
    BY <2>3 DEF Late
<1>7. \A e \in line : e.due = 1 <=> ~(e.due > 1)
  BY <1>4
<1>8. Waiting \ Waiting' = {e.result : e \in {d \in line : d.due = 1}}
  <2>1. \A d, e \in line : d.result = e.result => d = e
    BY DEF MemInv, LineDistinct
  <2>2. QED
    BY <1>6, <1>7, <2>1 DEF Waiting
<1>9. Waiting' \subseteq Waiting
  BY <1>6 DEF Waiting
<1>10. QED
  BY <1>1, <1>3, <1>8, <1>9 DEF Flat!Answer, Flat!Idle, Idle, FlatBytes, Waiting

(* A write of another bus master to its place in a block changes one byte. *)
LEMMA WriteRefines ==
    ASSUME MemInv, MemInv', NEW a \in 0 .. max_address - 1, RenodeWrites(a)
    PROVE  Flat!OtherWrites(a)
<1> DEFINE b == a \div BlockSize
           o == BlockUnitOffset(a)
           v == Byte(issued + 1, 0)
<1>1. /\ call = Idle /\ ~aborted /\ UNCHANGED <<call, line, answers, aborted>>
      /\ issued' = issued + 1
      /\ block_map' = [block_map EXCEPT ![b] = [block_map[b] EXCEPT ![o] = v]]
  BY DEF RenodeWrites, Alive
<1>2. Plain /\ Plain'
  BY <1>1, Quiet, QuietNext DEF BetweenElements
<1>3. FlatAccess = Idle /\ FlatAccess' = Idle /\ Waiting' = Waiting
  BY <1>1, <1>2 DEF Plain, PlainAccess, Waiting
<1>4. \A c \in 0 .. max_address - 1 :
        /\ c \div BlockSize \in 0 .. num_block - 1
        /\ BlockUnitOffset(c) \in 0 .. BlockSize - 1
        /\ c = (c \div BlockSize) * BlockSize + BlockUnitOffset(c)
  <2> SUFFICES ASSUME NEW c \in 0 .. max_address - 1
               PROVE  /\ c \div BlockSize \in 0 .. num_block - 1
                      /\ BlockUnitOffset(c) \in 0 .. BlockSize - 1
                      /\ c = (c \div BlockSize) * BlockSize + BlockUnitOffset(c)
    OBVIOUS
  <2>1. c \in Nat /\ c \in 0 .. MemorySize - 1
    BY MemoryAssumption DEF max_address
  <2>2. QED
    BY <2>1, InBlocks, Offset, Zenon
<1>5. /\ b \in 0 .. num_block - 1 /\ o \in 0 .. BlockSize - 1
      /\ a = b * BlockSize + o
  BY <1>4, Zenon
<1> HIDE DEF b, o, v
<1>6. ASSUME NEW c \in 0 .. max_address - 1
      PROVE  block_map'[c \div BlockSize][BlockUnitOffset(c)] =
               IF c = a THEN v ELSE block_map[c \div BlockSize][BlockUnitOffset(c)]
  <2> DEFINE x == c \div BlockSize
             y == BlockUnitOffset(c)
  <2>1. x \in 0 .. num_block - 1 /\ y \in 0 .. BlockSize - 1 /\ c = x * BlockSize + y
    BY <1>4, Zenon
  <2>2. c = a => x = b /\ y = o
    BY Zenon DEF b, o
  <2> HIDE DEF x, y
  <2>3. c = a <=> x = b /\ y = o
    BY <1>5, <2>1, <2>2, Zenon
  <2>4. block_map \in [0 .. num_block - 1 -> [0 .. BlockSize - 1 -> Value]]
    BY DEF MemInv, MemTypeOK, Blocks
  <2>5. block_map'[x][y] = IF x = b /\ y = o THEN v ELSE block_map[x][y]
    BY <1>1, <1>5, <2>1, <2>4
  <2>6. QED
    BY <2>3, <2>5, Zenon DEF x, y
<1>7. StoredBytes' = [StoredBytes EXCEPT ![a] = v]
  BY <1>6 DEF StoredBytes, max_address
<1>8. FlatBytes' = [FlatBytes EXCEPT ![a] = v]
  BY <1>2, <1>7 DEF Plain
<1>9. QED
  BY <1>1, <1>3, <1>8 DEF Flat!OtherWrites, Flat!Idle, Idle, Flat!Byte, Byte, v,
     FlatBytes, Waiting

(* An element that is admitted is visited at once, though its copies are   *)
(* still to come; one that is not does not lie in the memory.              *)
LEMMA ElementInside ==
    ASSUME MemInv, call # Idle, More
    PROVE  LET r == call.request
               i == call.index
               f == ElementAddress(r, i)
           IN  /\ r \in Requests /\ i \in 0 .. Len(r.mask) - 1
               /\ f \in Nat /\ i * r.el_size \in Nat /\ r.el_size \in Nat \ {0}
               /\ Flat!First(r, i) = f
               /\ Flat!Span(r, i) = f .. f + r.el_size - 1
               /\ Flat!Addresses = 0 .. max_address - 1
               /\ Admitted(r, i) <=> Flat!Span(r, i) \subseteq Flat!Addresses
<1> DEFINE r == call.request
           i == call.index
           f == ElementAddress(r, i)
           n == r.el_size
<1>1. r \in Requests /\ i \in Nat /\ i < Len(r.mask)
  BY CallParts DEF More
<1>2. i \in 0 .. Len(r.mask) - 1
  <2>1. Len(r.mask) \in Nat
    BY <1>1, RequestType
  <2>2. QED
    BY <1>1, <2>1
<1>3. f \in 0 .. AddressSpace - 1 /\ i * n \in Nat /\ n \in Nat \ {0}
  BY <1>1, <1>2, RequestType
<1>4. MemorySize \in Nat /\ f \in Nat
  BY <1>3, MemoryAssumption
<1>5. Flat!First(r, i) = f
  BY DEF Flat!First, ElementAddress
<1>6. Flat!Span(r, i) = f .. f + n - 1
  BY <1>5 DEF Flat!Span
<1>7. Flat!Addresses = 0 .. max_address - 1 /\ max_address = MemorySize
  BY DEF Flat!Addresses, max_address
<1>8. Admitted(r, i) <=> f + n <= MemorySize
  BY <1>1, <1>2, AdmittedIsInside
<1> HIDE DEF f, n, r, i
<1>9. f .. f + n - 1 \subseteq 0 .. MemorySize - 1 <=> f + n <= MemorySize
  <2>1. f + n <= MemorySize => f .. f + n - 1 \subseteq 0 .. MemorySize - 1
    BY <1>3, <1>4
  <2>2. ASSUME f .. f + n - 1 \subseteq 0 .. MemorySize - 1 PROVE f + n <= MemorySize
    <3>1. f + n - 1 \in f .. f + n - 1
      BY <1>3, <1>4
    <3>2. f + n - 1 \in 0 .. MemorySize - 1
      BY <2>2, <3>1
    <3>3. QED
      BY <1>3, <1>4, <3>2
  <2>3. QED
    BY <2>1, <2>2
<1>10. QED
  BY <1>1, <1>2, <1>3, <1>4, <1>5, <1>6, <1>7, <1>8, <1>9, Zenon DEF f, n, r, i

(* An element that is refused ends the process, in both.                   *)
LEMMA AbortRefines ==
    ASSUME MemInv, AssertFails
    PROVE  Flat!Abort
<1>1. /\ call # Idle /\ ~aborted /\ More /\ On /\ call.size_in_units = 0
      /\ ~Admitted(call.request, call.index) /\ aborted' = TRUE
      /\ UNCHANGED <<block_map, call, line, answers, issued>>
  BY DEF AssertFails, InLoop, Alive
<1>2. Plain
  BY <1>1, Quiet DEF BetweenElements
<1>3. FlatBytes' = FlatBytes /\ FlatAccess' = FlatAccess /\ Waiting' = Waiting
  <2>1. block_map' = block_map /\ call' = call /\ line' = line
    BY <1>1
  <2>2. QED
    BY <2>1 DEF FlatBytes, FlatByte, FlatAccess, Copying, Waiting
<1>4. FlatAccess = [state |-> "busy", request |-> call.request,
                    index |-> call.index, data |-> call.data]
  BY <1>1, <1>2 DEF Plain, PlainAccess
<1>5. Flat!Busy /\ Flat!More /\ Flat!On
  BY <1>1, <1>4 DEF Flat!Busy, Flat!More, Flat!On, More, On, Flat!Idle
<1>6. ~(Flat!Span(call.request, call.index) \subseteq Flat!Addresses)
  BY <1>1, ElementInside
<1>7. ~(Flat!Span(FlatAccess.request, FlatAccess.index) \subseteq Flat!Addresses)
  BY <1>4, <1>6
<1>8. QED
  BY <1>1, <1>3, <1>5, <1>7 DEF Flat!Abort, FlatBytes, Waiting

(* The place of an address in the buffer, and of a place in the buffer.    *)
LEMMA Placed ==
    ASSUME NEW f \in Int, NEW n \in Int, NEW p \in Int, NEW k \in Int
    PROVE  (\E a \in f .. f + n - 1 : k = p + a - f) <=> f + k - p \in f .. f + n - 1
<1>1. ASSUME NEW a \in f .. f + n - 1, k = p + a - f
      PROVE  f + k - p \in f .. f + n - 1
  BY <1>1
<1>2. ASSUME f + k - p \in f .. f + n - 1
      PROVE  \E a \in f .. f + n - 1 : k = p + a - f
  <2>1. k = p + (f + k - p) - f
    OBVIOUS
  <2>2. QED
    BY <1>2, <2>1
<1>3. QED
  BY <1>1, <1>2

(* An element that is admitted is visited: with its first copy still to    *)
(* come, the mapping already counts all of it.                             *)
LEMMA VisitRefines ==
    ASSUME MemInv, MemInv', StartElement
    PROVE  Flat!VisitElement
<1>0. PICK r, i, d : r = call.request /\ i = call.index /\ d = call.data
  OBVIOUS
<1> DEFINE f  == ElementAddress(r, i)
           n  == r.el_size
           p  == i * n
           cs == f .. f + n - 1
           As == 0 .. max_address - 1
<1>1. /\ call # Idle /\ ~aborted /\ More /\ On /\ call.size_in_units = 0
      /\ Admitted(r, i)
      /\ call' = [call EXCEPT !.address = f, !.byte_ptr = p, !.size_in_units = n,
                              !.index = @ + 1]
      /\ UNCHANGED <<block_map, line, answers, issued, aborted>>
  BY <1>0 DEF StartElement, InLoop, Alive
<1>2. call \in Calls /\ r \in Requests /\ d \in [0 .. BufferSize(r) - 1 -> Value]
  BY <1>0, <1>1, CallParts
<1>3. /\ call' # Idle /\ call'.request = r /\ call'.index = i + 1
      /\ call'.address = f /\ call'.byte_ptr = p /\ call'.size_in_units = n
      /\ call'.data = d
  BY <1>0, <1>1, <1>2 DEF Calls, Idle
<1>4. /\ f \in Nat /\ p \in Nat /\ n \in Nat \ {0}
      /\ Flat!First(r, i) = f /\ Flat!Span(r, i) = cs /\ Flat!Addresses = As
      /\ cs \subseteq As
  BY <1>0, <1>1, ElementInside
<1>5. r.kind \in {"load", "store"} /\ BufferSize(r) \in Nat
  BY <1>2, RequestType
<1>6. Plain
  BY <1>1, Quiet DEF BetweenElements
<1>7. FlatAccess = [state |-> "busy", request |-> r, index |-> i, data |-> d]
  BY <1>0, <1>1, <1>6 DEF Plain, PlainAccess
<1>8. Flat!Busy /\ Flat!More /\ Flat!On
  BY <1>0, <1>1, <1>7 DEF Flat!Busy, Flat!More, Flat!On, More, On, Flat!Idle
<1>9. /\ FlatAccess.request = r /\ FlatAccess.index = i /\ FlatAccess.data = d
  BY <1>7
<1>10. \A a : Flat!Slot(r, i, a) = p + a - f
  BY <1>4 DEF Flat!Slot
<1>11. Waiting' = Waiting
  BY <1>1 DEF Waiting
<1> HIDE DEF f, n, p, cs
<1>12. \A a \in Int : Copying(a)' <=> a \in cs
  BY <1>3 DEF Copying, cs
<1>13. ASSUME NEW a \in As
       PROVE  FlatByte(a)' = IF a \in cs /\ r.kind = "store"
                             THEN d[p + a - f] ELSE FlatBytes[a]
  <2>1. a \in Int /\ (Copying(a)' <=> a \in cs)
    BY <1>12
  <2>2. FlatByte(a)' = IF a \in cs /\ r.kind = "store" THEN d[p + a - f]
                       ELSE block_map[a \div BlockSize][BlockUnitOffset(a)]
    BY <1>1, <1>3, <2>1 DEF FlatByte
  <2>3. FlatBytes[a] = block_map[a \div BlockSize][BlockUnitOffset(a)]
    BY <1>6 DEF Plain, StoredBytes
  <2>4. QED
    BY <2>2, <2>3
<1>14. /\ FlatBytes' = [a \in As |-> FlatByte(a)']
       /\ FlatBytes = [a \in As |-> FlatBytes[a]]
  BY DEF FlatBytes, max_address
<1>15. FlatAccess' = [state |-> "busy", request |-> r, index |-> i + 1,
                      data |-> [k \in DOMAIN d |->
                                  IF f + k - p \in cs /\ r.kind = "load"
                                  THEN FlatByte(f + k - p)' ELSE d[k]]]
  <2>1. \A k \in DOMAIN d : f + k - p \in Int
    BY <1>2, <1>4, <1>5
  <2>2. FlatAccess' = [state |-> "busy", request |-> r, index |-> i + 1,
                       data |-> [k \in DOMAIN d |->
                                   IF Copying(f + k - p)' /\ r.kind = "load"
                                   THEN FlatByte(f + k - p)' ELSE d[k]]]
    BY <1>3 DEF FlatAccess
  <2>3. QED
    BY <1>12, <2>1, <2>2
<1>16. CASE r.kind = "store"
  <2>1. FlatBytes' = [a \in As |-> IF a \in cs THEN d[p + a - f] ELSE FlatBytes[a]]
    BY <1>13, <1>14, <1>16
  <2>2. FlatAccess' = [FlatAccess EXCEPT !.index = @ + 1]
    <3>1. FlatAccess' = [state |-> "busy", request |-> r, index |-> i + 1,
                         data |-> [k \in DOMAIN d |-> d[k]]]
      BY <1>15, <1>16
    <3>2. d = [k \in DOMAIN d |-> d[k]]
      BY <1>2
    <3>3. QED
      BY <1>7, <3>1, <3>2
  <2>3. QED
    BY <1>1, <1>4, <1>8, <1>9, <1>10, <1>11, <1>16, <2>1, <2>2
       DEF Flat!VisitElement, FlatBytes, Waiting
<1>17. CASE r.kind = "load"
  <2>1. FlatBytes' = FlatBytes
    BY <1>13, <1>14, <1>17
  <2>2. ASSUME NEW k \in DOMAIN d
        PROVE  /\ (\E a \in cs : k = p + a - f) <=> f + k - p \in cs
               /\ f + k - p \in cs => FlatByte(f + k - p)' = FlatBytes[f + k - p]
    <3>1. k \in Int
      BY <1>2
    <3>2. f \in Int /\ p \in Int /\ n \in Int
      BY <1>4
    <3>3. (\E a \in cs : k = p + a - f) <=> f + k - p \in cs
      BY <3>1, <3>2, Placed, Zenon DEF cs
    <3> DEFINE a == f + k - p
    <3>4. a \in cs => a \in As
      BY <1>4
    <3> HIDE DEF a
    <3>5. a \in cs => FlatByte(a)' = FlatBytes[a]
      BY <1>13, <1>17, <3>4
    <3>6. QED
      BY <3>3, <3>5 DEF a
  <2>3. FlatAccess' = [state |-> "busy", request |-> r, index |-> i + 1,
                       data |-> [k \in DOMAIN d |->
                                   IF \E a \in cs : k = p + a - f
                                   THEN FlatBytes[f + k - p] ELSE d[k]]]
    BY <1>15, <1>17, <2>2
  <2>4. FlatAccess' = [FlatAccess EXCEPT !.index = @ + 1, !.data =
                         [k \in DOMAIN @ |-> IF \E a \in cs : k = p + a - f
                                             THEN FlatBytes[f + k - p] ELSE @[k]]]
    <3> DEFINE filled == [k \in DOMAIN d |-> IF \E a \in cs : k = p + a - f
                                             THEN FlatBytes[f + k - p] ELSE d[k]]
    <3>1. FlatAccess' = [state |-> "busy", request |-> r, index |-> i + 1,
                         data |-> filled]
      BY <2>3, Zenon
    <3>2. filled = [k \in DOMAIN FlatAccess.data |->
                      IF \E a \in cs : k = p + a - f
                      THEN FlatBytes[f + k - p] ELSE FlatAccess.data[k]]
      BY <1>9, Zenon
    <3> HIDE DEF filled
    <3>3. FlatAccess' = [FlatAccess EXCEPT !.index = @ + 1, !.data = filled]
      <4>1. PICK x : x = [FlatAccess EXCEPT !.index = @ + 1, !.data = filled]
        OBVIOUS
      <4>2. x = [state |-> "busy", request |-> r, index |-> i + 1, data |-> filled]
        BY <1>7, <4>1
      <4>3. QED
        BY <3>1, <4>1, <4>2
    <3>4. QED
      BY <3>2, <3>3, Zenon
  <2>5. \A a, k : /\ p + a - f = Flat!Slot(r, i, a)
                 /\ f + k - p = Flat!First(r, i) + k - i * r.el_size
    BY <1>4, <1>10, Zenon DEF p, n
  <2>6. FlatAccess' = [FlatAccess EXCEPT !.index = @ + 1, !.data =
                         [k \in DOMAIN @ |->
                            IF \E a \in Flat!Span(r, i) : k = Flat!Slot(r, i, a)
                            THEN FlatBytes[Flat!First(r, i) + k - i * r.el_size]
                            ELSE @[k]]]
    BY <1>4, <2>4, <2>5, Zenon
  <2>7. QED
    BY <1>1, <1>4, <1>8, <1>9, <1>11, <1>17, <2>1, <2>6, SMTT(60)
       DEF Flat!VisitElement, FlatBytes, Waiting
<1>18. QED
  BY <1>5, <1>16, <1>17

(* One turn of the copying loop changes nothing that the flat memory can   *)
(* see: the bytes it copies were counted as copied when the element began. *)
LEMMA HelperStutters ==
    ASSUME MemInv, LoadStoreHelper
    PROVE  UNCHANGED <<FlatBytes, FlatAccess, Waiting, answers, issued, aborted>>
<1>0. PICK r, f, s, p, d, i :
        /\ r = call.request /\ f = call.address /\ s = call.size_in_units
        /\ p = call.byte_ptr /\ d = call.data /\ i = call.index
  OBVIOUS
<1> DEFINE b == f \div BlockSize
           o == BlockUnitOffset(f)
           n == StoreSize(f, s)
           e == call'.data
           As == 0 .. max_address - 1
           At(m, a) == m[a \div BlockSize][BlockUnitOffset(a)]
<1>1. /\ call # Idle /\ s > 0 /\ UNCHANGED <<line, answers, issued, aborted>>
      /\ block_map' = IF r.kind = "load" THEN block_map
                      ELSE [block_map EXCEPT ![b] = [q \in DOMAIN @ |->
                              IF q \in o .. o + n - 1 THEN d[p + q - o] ELSE @[q]]]
      /\ call' = [call EXCEPT
                     !.size_in_units = @ - n, !.byte_ptr = @ + n, !.address = @ + n,
                     !.data = IF r.kind = "store" THEN @
                              ELSE [k \in DOMAIN @ |->
                                      IF k \in p .. p + n - 1 /\ o + k - p < BlockSize
                                      THEN block_map[b][o + k - p] ELSE @[k]]]
  BY <1>0, Zenon DEF LoadStoreHelper
<1>2. /\ call \in Calls /\ r \in Requests /\ f \in Nat /\ p \in Nat /\ s \in Nat \ {0}
      /\ d \in [0 .. BufferSize(r) - 1 -> Value]
      /\ f + s <= MemorySize /\ p + s <= BufferSize(r)
  BY <1>0, <1>1, CallParts DEF MemInv, CallInside
<1>3. /\ call' # Idle /\ call'.request = r /\ call'.index = i
      /\ call'.size_in_units = s - n /\ call'.byte_ptr = p + n /\ call'.address = f + n
      /\ e = IF r.kind = "store" THEN d
             ELSE [k \in DOMAIN d |-> IF k \in p .. p + n - 1 /\ o + k - p < BlockSize
                                      THEN block_map[b][o + k - p] ELSE d[k]]
  BY <1>0, <1>1, <1>2 DEF Calls, Idle
<1>4. n \in Nat \ {0} /\ n <= s /\ o + n <= BlockSize
  BY <1>2, CopySize, Zenon
<1>5. o \in 0 .. BlockSize - 1 /\ b \in Nat /\ f = b * BlockSize + o
  BY <1>2, Offset, Zenon
<1>6. /\ MemorySize \in Nat /\ BlockSize \in Nat \ {0} /\ BufferSize(r) \in Nat
      /\ r.kind \in {"load", "store"}
  BY <1>2, MemoryAssumption, RequestType
<1>7. \A a \in f .. f + n - 1 : a \div BlockSize = b /\ BlockUnitOffset(a) = o + a - f
  <2> SUFFICES ASSUME NEW a \in f .. f + n - 1
               PROVE  a \div BlockSize = b /\ BlockUnitOffset(a) = o + a - f
    OBVIOUS
  <2> DEFINE t == a - f
  <2> HIDE DEF b, o, n
  <2>1. t \in Nat /\ o + t < BlockSize /\ f + t = a /\ o + t = o + a - f
    BY <1>2, <1>4, <1>5, <1>6
  <2> HIDE DEF t
  <2>2. (f + t) \div BlockSize = b /\ BlockUnitOffset(f + t) = o + t
    BY <1>2, <2>1, Onward, Zenon DEF b, o
  <2>3. QED
    BY <2>1, <2>2, Zenon
<1>8. Waiting' = Waiting
  BY <1>1 DEF Waiting
<1> HIDE DEF b, o, n
<1>9. f + n + (s - n) - 1 = f + s - 1
  BY <1>2, <1>4
<1>10. ASSUME NEW a \in As
       PROVE  /\ FlatByte(a) = IF a \in f .. f + s - 1 /\ r.kind = "store"
                               THEN d[p + a - f] ELSE At(block_map, a)
              /\ FlatByte(a)' = IF a \in f + n .. f + s - 1 /\ r.kind = "store"
                                THEN d[p + a - f] ELSE At(block_map', a)
  <2>1. FlatByte(a) = IF a \in f .. f + s - 1 /\ r.kind = "store"
                      THEN d[p + a - f] ELSE At(block_map, a)
    BY <1>0, <1>1 DEF FlatByte, Copying
  <2>2. FlatByte(a)' = IF a \in f + n .. f + s - 1 /\ r.kind = "store"
                       THEN e[p + n + a - (f + n)] ELSE At(block_map', a)
    BY <1>3, <1>9 DEF FlatByte, Copying
  <2>3. r.kind = "store" => e = d
    BY <1>3
  <2>4. p + n + a - (f + n) = p + a - f
    BY <1>2, <1>4
  <2>5. QED
    BY <2>1, <2>2, <2>3, <2>4
<1>11. FlatBytes' = FlatBytes
  <2>1. ASSUME NEW a \in As PROVE FlatByte(a)' = FlatByte(a)
    <3> DEFINE x == a \div BlockSize
               y == BlockUnitOffset(a)
    <3>1. a \in Nat /\ a \in 0 .. MemorySize - 1
      BY <1>6 DEF max_address
    <3>2. x \in 0 .. num_block - 1
      BY <3>1, InBlocks, Zenon
    <3>3. y \in 0 .. BlockSize - 1 /\ a = x * BlockSize + y
      BY <3>1, Offset, Zenon
    <3>4. At(block_map, a) = block_map[x][y] /\ At(block_map', a) = block_map'[x][y]
      BY Zenon
    <3>5. a \in f .. f + n - 1 => x = b /\ y = o + a - f
      BY <1>7, Zenon
    <3> HIDE DEF x, y, At
    <3>6. CASE r.kind = "load"
      BY <1>1, <1>10, <3>4, <3>6
    <3>7. CASE r.kind = "store"
      <4>1. block_map \in [0 .. num_block - 1 -> [0 .. BlockSize - 1 -> Value]]
        BY DEF MemInv, MemTypeOK, Blocks
      <4>2. block_map' = [block_map EXCEPT ![b] = [q \in DOMAIN block_map[b] |->
                 IF q \in o .. o + n - 1 THEN d[p + q - o] ELSE block_map[b][q]]]
        BY <1>1, <3>7
      <4>3. block_map'[x][y] = IF x = b /\ y \in o .. o + n - 1
                               THEN d[p + y - o] ELSE block_map[x][y]
        BY <3>2, <3>3, <4>1, <4>2
      <4>4. x = b => a - f = y - o
        <5>1. b * BlockSize \in Int
          BY <1>5, <1>6
        <5>2. QED
          BY <1>5, <1>6, <3>1, <3>3, <5>1
      <4>5. CASE a \in f .. f + n - 1
        <5>1. x = b /\ y = o + a - f /\ y \in o .. o + n - 1 /\ p + y - o = p + a - f
          BY <1>2, <1>4, <1>5, <1>6, <3>1, <3>5, <4>5
        <5>2. a \in f .. f + s - 1 /\ a \notin f + n .. f + s - 1
          BY <1>2, <1>4, <3>1, <4>5
        <5>3. QED
          BY <1>10, <3>4, <3>7, <4>3, <5>1, <5>2
      <4>6. CASE a \notin f .. f + n - 1
        <5>1. ~(x = b /\ y \in o .. o + n - 1)
          BY <1>2, <1>4, <1>5, <1>6, <3>1, <3>3, <4>4, <4>6
        <5>2. a \in f .. f + s - 1 <=> a \in f + n .. f + s - 1
          BY <1>2, <1>4, <3>1, <4>6
        <5>3. QED
          BY <1>10, <3>4, <3>7, <4>3, <5>1, <5>2
      <4>7. QED
        BY <4>5, <4>6
    <3>8. QED
      BY <1>6, <3>6, <3>7
  <2>2. QED
    BY <2>1 DEF FlatBytes, max_address
<1>12. FlatAccess' = FlatAccess
  <2> DEFINE G(k) == LET a == call.address + k - call.byte_ptr
                     IN  IF Copying(a) /\ call.request.kind = "load"
                         THEN FlatByte(a) ELSE call.data[k]
             g(k) == IF f + k - p \in f .. f + s - 1 /\ r.kind = "load"
                     THEN At(block_map, f + k - p) ELSE d[k]
             h(k) == IF f + k - p \in f + n .. f + s - 1 /\ r.kind = "load"
                     THEN At(block_map', f + k - p) ELSE e[k]
  <2>1. DOMAIN d = 0 .. BufferSize(r) - 1 /\ DOMAIN e = DOMAIN d
    BY <1>2, <1>3
  <2>2. \A k \in DOMAIN d : k \in Int /\ f + n + k - (p + n) = f + k - p
    BY <1>2, <1>4, <1>6, <2>1
  <2>3. FlatAccess = [state |-> "busy", request |-> r, index |-> i,
                      data |-> [k \in DOMAIN d |-> G(k)]]
    BY <1>0, <1>1 DEF FlatAccess
  <2>4. FlatAccess' = [state |-> "busy", request |-> r, index |-> i,
                       data |-> [k \in DOMAIN e |-> G(k)']]
    BY <1>3 DEF FlatAccess
  <2>5. ASSUME NEW k \in DOMAIN d PROVE G(k)' = G(k)
    <3>1. k \in Int
      BY <2>2
    <3>2. G(k) = g(k)
      BY <1>0, <1>1 DEF FlatByte, Copying
    <3>3. G(k)' = h(k)
      BY <1>3, <1>9, <2>2 DEF FlatByte, Copying
    <3>4. CASE r.kind = "store"
      BY <1>3, <3>2, <3>3, <3>4
    <3>5. CASE r.kind = "load"
      <4> DEFINE a == f + k - p
      <4>1. block_map' = block_map
        BY <1>1, <3>5
      <4>2. /\ g(k) = IF a \in f .. f + s - 1 THEN At(block_map, a) ELSE d[k]
            /\ h(k) = IF a \in f + n .. f + s - 1 THEN At(block_map, a) ELSE e[k]
        BY <3>5, <4>1
      <4>3. e[k] = IF k \in p .. p + n - 1 /\ o + k - p < BlockSize
                   THEN block_map[b][o + k - p] ELSE d[k]
        BY <1>3, <3>5
      <4> HIDE DEF g, h, G
      <4>4. CASE k \in p .. p + n - 1
        <5>1. a \in f .. f + n - 1 /\ o + a - f = o + k - p /\ o + k - p < BlockSize
          BY <1>2, <1>4, <1>5, <1>6, <3>1, <4>4
        <5>2. At(block_map, a) = block_map[b][o + k - p]
          BY <1>7, <5>1
        <5>3. a \in f .. f + s - 1 /\ a \notin f + n .. f + s - 1
          BY <1>2, <1>4, <3>1, <5>1
        <5>4. QED
          BY <3>2, <3>3, <4>2, <4>3, <4>4, <5>1, <5>2, <5>3
      <4>5. CASE k \notin p .. p + n - 1
        <5>1. a \in f .. f + s - 1 <=> a \in f + n .. f + s - 1
          BY <1>2, <1>4, <3>1, <4>5
        <5>2. QED
          BY <3>2, <3>3, <4>2, <4>3, <4>5, <5>1
      <4>6. QED
        BY <4>4, <4>5
    <3>6. QED
      BY <1>6, <3>4, <3>5
  <2> HIDE DEF G
  <2>6. QED
    BY <2>1, <2>3, <2>4, <2>5
<1>13. QED
  BY <1>1, <1>8, <1>11, <1>12

(* Every step of the blocks is a step of the flat memory, or none.         *)
LEMMA StepRefines ==
    ASSUME MemInv, MemInv', [Next]_vars
    PROVE  [Flat!Next]_(Flat!vars)
<1>1. ASSUME NEW r \in Requests, Issue(r) PROVE Flat!Next
  BY <1>1, IssueRefines DEF Flat!Next
<1>2. CASE MaskedOff
  BY <1>2, SkipRefines DEF Flat!Next
<1>3. CASE StartElement
  BY <1>3, VisitRefines DEF Flat!Next
<1>4. CASE AssertFails
  BY <1>4, AbortRefines DEF Flat!Next
<1>5. CASE LoadStoreHelper
  <2>1. UNCHANGED <<FlatBytes, FlatAccess, Waiting, answers, issued, aborted>>
    BY <1>5, HelperStutters
  <2>2. QED
    BY <2>1 DEF Flat!vars, FlatBytes, Waiting
<1>6. CASE Finish
  BY <1>6, FinishRefines DEF Flat!Next
<1>7. CASE Advance
  BY <1>7, AdvanceRefines DEF Flat!Next
<1>8. ASSUME NEW a \in 0 .. max_address - 1, RenodeWrites(a) PROVE Flat!Next
  <2>1. Flat!OtherWrites(a) /\ a \in Flat!Addresses
    BY <1>8, WriteRefines DEF Flat!Addresses, max_address
  <2>2. QED
    BY <2>1 DEF Flat!Next
<1>9. CASE UNCHANGED vars
  <2>1. block_map' = block_map /\ call' = call /\ line' = line /\ answers' = answers
        /\ issued' = issued /\ aborted' = aborted
    BY <1>9 DEF vars
  <2>2. QED
    BY <2>1 DEF Flat!vars, FlatByte, FlatAccess, Copying
<1>10. QED
  BY <1>1, <1>2, <1>3, <1>4, <1>5, <1>6, <1>7, <1>8, <1>9 DEF Next, Working

(* The memory of the Renode simulator, cut into blocks and copied piece by *)
(* piece (CoralNPURenodeMemory::LoadStoreHelper), implements a flat array  *)
(* of bytes: for every size of a block and of the memory, every list of    *)
(* addresses, mask and element size, and every latency.                    *)
THEOREM BlocksImplementFlat == Spec => ImplementsFlat
<1>1. Spec => []MemInv /\ Init /\ [][Next]_vars
  BY MemInvariant, PTL DEF Spec
<1>2. MemInv /\ MemInv' /\ [Next]_vars => [Flat!Next]_(Flat!vars)
  BY StepRefines
<1>3. QED
  BY <1>1, <1>2, InitRefines, PTL DEF ImplementsFlat, Flat!Spec
=============================================================================
