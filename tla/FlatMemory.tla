----------------------------- MODULE FlatMemory -----------------------------
(***************************************************************************)
(* What a MemoryInterface promises the core: a flat array of bytes.  An    *)
(* access visits its active elements in the order of their index and each  *)
(* of them at once; a load hands its instruction what memory held when it  *)
(* was issued, at once or later, however memory changes in between.        *)
(* Nothing outside the memory is ever touched: an element that does not    *)
(* fit ends the process.                                                   *)
(***************************************************************************)
EXTENDS Integers, Sequences

CONSTANTS
    MemorySize,  \* the number of bytes
    AddressSpace,\* the modulus of an address
    Requests     \* the accesses

VARIABLES
    bytes,       \* the memory
    access,      \* the access in progress, or Idle
    waiting,     \* loads whose instruction has not been executed yet
    answers,     \* what the instructions of the loads received
    issued,      \* the number of accesses and of writes by others
    aborted      \* the process has ended

vars == <<bytes, access, waiting, answers, issued, aborted>>

Addresses == 0 .. MemorySize - 1
Idle      == [state |-> "idle"]

(* The value that byte k of the n-th data buffer stands for.               *)
Byte(n, k) == <<n, k>>

(* The addresses of an element, the i-th counting from 0: a list of        *)
(* addresses has one for each element, a single one starts a row, in the   *)
(* arithmetic of addresses.  An element itself does not wrap around.       *)
First(r, i) == IF Len(r.addresses) > 1 THEN r.addresses[i + 1]
               ELSE (r.addresses[1] + i * r.el_size) % AddressSpace
Span(r, i) == First(r, i) .. First(r, i) + r.el_size - 1

(* The place in the data buffer of a cell of element i.                    *)
Slot(r, i, a) == i * r.el_size + a - First(r, i)

Init ==
    /\ bytes = [a \in Addresses |-> Byte(0, a)]
    /\ access = Idle /\ waiting = {} /\ answers = {}
    /\ issued = 0 /\ aborted = FALSE

(* An access begins; byte k of the data buffer is Byte(n, k).              *)
Begin(r) ==
    /\ access = Idle /\ ~aborted
    /\ issued' = issued + 1
    /\ access' = [state |-> "busy", request |-> r, index |-> 0,
                  data |-> [k \in 0 .. Len(r.mask) * r.el_size - 1 |->
                              Byte(issued + 1, k)]]
    /\ UNCHANGED <<bytes, waiting, answers, aborted>>

Busy == access # Idle /\ ~aborted
More == access.index < Len(access.request.mask)
On   == access.request.mask[access.index + 1]

SkipElement ==
    /\ Busy /\ More /\ ~On
    /\ access' = [access EXCEPT !.index = @ + 1]
    /\ UNCHANGED <<bytes, waiting, answers, issued, aborted>>

(* One element, at once.                                                   *)
VisitElement ==
    LET r  == access.request
        i  == access.index
        cs == Span(r, i)
    IN  /\ Busy /\ More /\ On /\ cs \subseteq Addresses
        /\ \/ /\ r.kind = "store"
              /\ bytes' = [a \in Addresses |->
                             IF a \in cs THEN access.data[Slot(r, i, a)] ELSE bytes[a]]
              /\ access' = [access EXCEPT !.index = @ + 1]
           \/ /\ r.kind = "load"
              /\ access' = [access EXCEPT !.index = @ + 1, !.data =
                              [k \in DOMAIN @ |->
                                 IF \E a \in cs : k = Slot(r, i, a)
                                 THEN bytes[First(r, i) + k - i * r.el_size] ELSE @[k]]]
              /\ UNCHANGED bytes
        /\ UNCHANGED <<waiting, answers, issued, aborted>>

Abort ==
    /\ Busy /\ More /\ On
    /\ ~(Span(access.request, access.index) \subseteq Addresses)
    /\ aborted' = TRUE
    /\ UNCHANGED <<bytes, access, waiting, answers, issued>>

Result == [id |-> issued, data |-> access.data]

(* The instruction of a load is executed now or later.                     *)
End ==
    /\ Busy /\ ~More
    /\ access' = Idle
    /\ \/ access.request.kind = "store" /\ UNCHANGED <<waiting, answers>>
       \/ access.request.kind = "load" /\ waiting' = waiting \cup {Result}
                                       /\ UNCHANGED answers
       \/ access.request.kind = "load" /\ answers' = answers \cup {Result}
                                       /\ UNCHANGED waiting
    /\ UNCHANGED <<bytes, issued, aborted>>

(* The instructions of any number of waiting loads are executed.           *)
Answer ==
    /\ ~aborted /\ access = Idle
    /\ waiting' \subseteq waiting
    /\ answers' = answers \cup (waiting \ waiting')
    /\ UNCHANGED <<bytes, access, issued, aborted>>

(* Somebody else who shares the memory writes a byte.                      *)
OtherWrites(a) ==
    /\ ~aborted /\ access = Idle
    /\ issued' = issued + 1
    /\ bytes' = [bytes EXCEPT ![a] = Byte(issued + 1, 0)]
    /\ UNCHANGED <<access, waiting, answers, aborted>>

Next ==
    \/ \E r \in Requests : Begin(r)
    \/ SkipElement \/ VisitElement \/ Abort \/ End
    \/ Answer
    \/ \E a \in Addresses : OtherWrites(a)

Spec == Init /\ [][Next]_vars
=============================================================================
