--------------------------------- MODULE HwSim ---------------------------------
(***************************************************************************)
(* The simulator behind the hardware-simulator interface                   *)
(* (hw_sim/mpact_simulator.cc): a host that fills memory and the mailbox,  *)
(* starts the core and waits for it, a program that halts or stores to     *)
(* memory, and a DMA controller whose five registers DmaMemoryWrapper puts *)
(* in front of the memory.  A store to the control register runs the whole *)
(* transfer before it returns, so the core waits, and so does the host.    *)
(*                                                                         *)
(* Memory is a small array of words; a descriptor is the four words        *)
(* source, destination, length and next (the other four of its 32 bytes    *)
(* are not looked at), and the mailbox is one word.  Loads of registers    *)
(* and memory change nothing and are left out; so are vector accesses,     *)
(* which go past the registers.  The host's WriteMem goes through the same *)
(* wrapper: it too can set the registers and start the DMA.                *)
(***************************************************************************)
EXTENDS Integers

CONSTANTS
    Cells,      (* the number of words of memory; addresses wrap around    *)
    MaxLength,  (* 2^24: the bits of len_flags above it are not the length *)
    Images,     (* the memory images the host starts from                  *)
    Mailbox,    (* the address of the mailbox                              *)
    Entries,    (* the addresses at which programs start and halt          *)
    Heads,      (* the addresses of descriptors that the DMA is given      *)
    Messages,   (* the words the host leaves in the mailbox                *)
    Pokes,      (* the <<address, word>> pairs that host and program store *)
    MaxOps      (* bound: the number of stores and calls                   *)

Cell == 0 .. Cells - 1

ASSUME HwConstants ==
    /\ Cells \in Nat /\ Cells > 4
    /\ MaxLength \in 1 .. Cells
    /\ Images \subseteq [Cell -> Cell]
    /\ Mailbox \in Cell
    /\ {Entries, Heads, Messages} \subseteq SUBSET Cell
    /\ Pokes \subseteq Cell \X Cell
    /\ MaxOps \in Nat

VARIABLES
    mem,        (* memory_                                                 *)
    mailbox,    (* mailbox_, the host's copy                               *)
    phase,      (* who is running: the host, the core, or the DMA          *)
    hwPc,       (* the pc register                                         *)
    status,     (* dma_status_, as the set of its bits                     *)
    descAddr,   (* dma_desc_addr_                                          *)
    curDesc,    (* dma_cur_desc_                                           *)
    desc,       (* the local desc_addr of RunDma                           *)
    starter,    (* who made the store that RunDma runs in                  *)
    ops,        (* how much of MaxOps is used                              *)
    image       (* history: the memory when the DMA was last started       *)

dma  == <<status, descAddr, curDesc, desc, starter>>
hwvars == <<mem, mailbox, phase, hwPc, dma, ops, image>>

HwInit ==
    /\ mem \in Images
    /\ mailbox = 0 /\ phase = "host" /\ hwPc = 0
    /\ status = {} /\ descAddr = 0 /\ curDesc = 0 /\ desc = 0
    /\ starter = "core"
    /\ ops = 0 /\ image = mem

Op == ops < MaxOps /\ ops' = ops + 1

--------------------------------------------------------------------------------
(* The host.                                                               *)

WriteMem(a, v) ==
    /\ phase = "host" /\ Op
    /\ mem' = [mem EXCEPT ![a] = v]
    /\ UNCHANGED <<mailbox, phase, hwPc, dma, image>>

(* The host's copy first, then the memory.                                 *)
WriteMailbox(v) ==
    /\ phase = "host" /\ Op
    /\ mailbox' = v
    /\ mem' = [mem EXCEPT ![Mailbox] = v]
    /\ UNCHANGED <<phase, hwPc, dma, image>>

ReadMailbox ==
    /\ phase = "host"
    /\ mailbox' = mem[Mailbox]
    /\ UNCHANGED <<mem, phase, hwPc, dma, ops, image>>

(* Run() sets the pc and returns.                                          *)
Run(a) ==
    /\ phase = "host" /\ Op
    /\ hwPc' = a
    /\ UNCHANGED <<mem, mailbox, phase, dma, image>>

(* It is WaitForTermination() that lets the core run, for as long as it    *)
(* takes: the timeout is not looked at.                                    *)
WaitForTermination ==
    /\ phase = "host" /\ Op
    /\ phase' = "core"
    /\ UNCHANGED <<mem, mailbox, hwPc, dma, image>>

(* mpause, ebreak or wfi: the wait is over and the mailbox is read.        *)
CoreHalts ==
    /\ phase = "core"
    /\ phase' = "host"
    /\ \E a \in Entries : hwPc' = a
    /\ mailbox' = mem[Mailbox]
    /\ UNCHANGED <<mem, dma, ops, image>>

--------------------------------------------------------------------------------
(* The core, as far as memory can tell.                                    *)

StoreWord(a, v) ==
    /\ phase = "core" /\ Op
    /\ mem' = [mem EXCEPT ![a] = v]
    /\ UNCHANGED <<mailbox, phase, hwPc, dma, image>>

--------------------------------------------------------------------------------
(* The DMA registers, to which the program and the host's WriteMem store.  *)

StoreDescAddr(a) ==
    /\ phase \in {"host", "core"} /\ Op
    /\ descAddr' = a
    /\ UNCHANGED <<mem, mailbox, phase, hwPc, status, curDesc, desc, starter, image>>

(* A store of enable and start to the control register: RunDma begins.     *)
(* Any other value is kept and does nothing.                               *)
StoreCtrl ==
    /\ phase \in {"host", "core"} /\ Op
    /\ phase' = "dma" /\ starter' = phase
    /\ status' = (status \cup {"busy"}) \ {"done"}
    /\ desc' = descAddr
    /\ image' = mem
    /\ UNCHANGED <<mem, mailbox, hwPc, descAddr, curDesc>>

--------------------------------------------------------------------------------
(* RunDma, one step per descriptor.                                        *)

(* Word k of the descriptor at d.                                          *)
Field(m, d, k) == m[(d + k) % Cells]

(* The length of the transfer, without the flags beside it.                *)
Length(m, d) == Field(m, d, 2) % MaxLength

(* All of the source is loaded before any of it is stored.                 *)
Copy(m, d) ==
    LET src == Field(m, d, 0)
        dst == Field(m, d, 1)
        len == Length(m, d)
    IN  [x \in Cell |-> IF (x - dst) % Cells < len THEN m[(src + x - dst) % Cells]
                                                   ELSE m[x]]

(* Faulty variant: the walk does not go on to the next descriptor.         *)
FollowNowhere(next) == desc

Follow(next) == next

(* Faulty variant: the successor is read after the transfer.               *)
DmaTransferNextLate ==
    /\ phase = "dma" /\ desc # 0
    /\ curDesc' = desc
    /\ mem' = Copy(mem, desc)
    /\ desc' = Follow(Field(mem', desc, 3))
    /\ UNCHANGED <<mailbox, phase, hwPc, status, descAddr, starter, ops, image>>

(* The descriptor is read from the memory as the transfers have left it,   *)
(* and its successor before its own transfer.                              *)
DmaTransfer ==
    /\ phase = "dma" /\ desc # 0
    /\ curDesc' = desc
    /\ mem' = Copy(mem, desc)
    /\ desc' = Follow(Field(mem, desc, 3))
    /\ UNCHANGED <<mailbox, phase, hwPc, status, descAddr, starter, ops, image>>

StatusDone == (status \ {"busy"}) \cup {"done"}

DmaDone ==
    /\ phase = "dma" /\ desc = 0
    /\ status' = StatusDone
    /\ phase' = starter
    /\ UNCHANGED <<mem, mailbox, hwPc, descAddr, curDesc, desc, starter, ops, image>>

HwNext ==
    \/ ReadMailbox \/ WaitForTermination \/ CoreHalts \/ StoreCtrl
    \/ DmaTransfer \/ DmaDone
    \/ \E p \in Pokes : WriteMem(p[1], p[2]) \/ StoreWord(p[1], p[2])
    \/ \E v \in Messages : WriteMailbox(v)
    \/ \E a \in Entries : Run(a)
    \/ \E a \in Heads : StoreDescAddr(a)

HwSpec == HwInit /\ [][HwNext]_hwvars

(* The DMA, once started, goes on.  Programs need not halt.                *)
HwFairSpec == HwSpec /\ WF_hwvars(DmaTransfer \/ DmaDone)

--------------------------------------------------------------------------------
(* Properties.                                                             *)

(* The type invariant of the hardware-simulator wrapper.                   *)
HwTypeOK ==
    /\ mem \in [Cell -> Cell] /\ image \in [Cell -> Cell]
    /\ mailbox \in Cell /\ hwPc \in Cell
    /\ phase \in {"host", "core", "dma"}
    /\ starter \in {"host", "core"}
    /\ status \subseteq {"busy", "done"}
    /\ {descAddr, curDesc, desc} \subseteq Cell
    /\ ops \in 0 .. MaxOps

(* The descriptors reached from d in memory m: those in every set that     *)
(* holds d and, with a descriptor, the next one.                           *)
Descriptor == Cell \ {0}

Closed(m, d, S) ==
    /\ d \in S \cup {0}
    /\ \A e \in S : Field(m, e, 3) \in S \cup {0}

Chain(m, d) ==
    {e \in Descriptor : \A S \in SUBSET Descriptor : Closed(m, d, S) => e \in S}

Targets(m, d) == {x \in Cell : (x - Field(m, d, 1)) % Cells < Length(m, d)}
Sources(m, d) == {x \in Cell : (x - Field(m, d, 0)) % Cells < Length(m, d)}
Words(d)      == {(d + k) % Cells : k \in 0 .. 3}

(* The descriptors that the walk comes to after e.                         *)
After(m, e) == Chain(m, Field(m, e, 3))

(* The walk is the one the driver set up: no descriptor leads back to      *)
(* itself, and no transfer writes into a descriptor still to come.  It may *)
(* write into its own descriptor and into the ones behind it.              *)
Straight(m, d) ==
    \A e \in Chain(m, d) :
        /\ e \notin After(m, e)
        /\ \A f \in After(m, e) : Targets(m, e) \cap Words(f) = {}

(* Nor does a transfer write into a source still to be read, or into       *)
(* another's destination.  Its own source may overlap its destination.     *)
Tame(m, d) ==
    /\ Straight(m, d)
    /\ \A e \in Chain(m, d) : \A f \in After(m, e) :
          Targets(m, e) \cap (Sources(m, f) \cup Targets(m, f)) = {}

(* For a tame chain a started DMA has, once it says done, copied each      *)
(* source to its destination and touched nothing else: RunDma re-reads     *)
(* every descriptor from the memory it is changing, the successor before   *)
(* the transfer, and all of a source before its destination is written.    *)
DmaCopies ==
    (phase = "dma" /\ desc = 0 /\ Tame(image, descAddr)) =>
        LET chain == Chain(image, descAddr)
        IN  /\ \A e \in chain, k \in Cell :
                  k < Length(image, e) =>
                      mem[(Field(image, e, 1) + k) % Cells]
                          = image[(Field(image, e, 0) + k) % Cells]
            /\ \A x \in Cell :
                  (\A e \in chain : x \notin Targets(image, e)) => mem[x] = image[x]

(* A DMA whose walk stays on the chain that was set up, whatever data its  *)
(* transfers overwrite, comes to an end: the store that started it returns *)
(* to whoever made it, and a program that polls the status then sees done  *)
(* and not busy.                                                           *)
DmaEnds ==
    (phase = "dma" /\ Straight(image, descAddr))
        ~> (phase = starter /\ status = {"done"})

================================================================================
