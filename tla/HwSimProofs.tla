------------------------------ MODULE HwSimProofs ------------------------------
(***************************************************************************)
(* A DMA that runs to its end has made the copies of its chain and no      *)
(* others: for every size of memory, every image and every sequence of     *)
(* stores and calls.                                                       *)
(***************************************************************************)
EXTENDS HwSim, TLAPS

--------------------------------------------------------------------------------
(* Addresses that wrap around.                                             *)

(* The remainder of an address: within the memory,                         *)
LEMMA Within ==
    ASSUME NEW n \in Nat \ {0}, NEW a \in 0 .. n - 1
    PROVE  a % n = a
  OBVIOUS

(* ... past its end,                                                      *)
LEMMA Over ==
    ASSUME NEW n \in Nat \ {0}, NEW a \in n .. n + n - 1
    PROVE  a % n = a - n
  OBVIOUS

(* ... and before its beginning.                                           *)
LEMMA Under ==
    ASSUME NEW n \in Nat \ {0}, NEW a \in -n .. -1
    PROVE  a % n = a + n
  OBVIOUS

(* The distance of a wrapped address from its base.                        *)
LEMMA Distance ==
    ASSUME NEW n \in Nat \ {0}, NEW s \in 0 .. n - 1, NEW t \in -(n - 1) .. n - 1
    PROVE  (((s + t) % n) - s) % n = t % n
<1>1. s \in Int /\ t \in Int /\ s + t \in Int
  OBVIOUS
<1>2. CASE t >= 0 /\ s + t < n
  <2>1. (s + t) % n = s + t
    <3>1. s + t \in 0 .. n - 1
      BY <1>1, <1>2
    <3>2. QED
      BY <3>1, Within, Zenon
  <2>2. s + t - s = t
    BY <1>1
  <2>3. QED
    BY <2>1, <2>2
<1>3. CASE t >= 0 /\ s + t >= n
  <2>1. (s + t) % n = s + t - n
    <3>1. s + t \in n .. n + n - 1
      BY <1>1, <1>3
    <3>2. QED
      BY <3>1, Over
  <2>2. s + t - n - s = t - n /\ t - n \in -n .. -1 /\ t - n \in Int
    BY <1>1, <1>3
  <2>3. (t - n) % n = t - n + n
    <3>1. t - n \in -n .. -1
      BY <2>2
    <3>2. QED
      BY <3>1, Under, Zenon
  <2>4. t % n = t
    <3>1. t \in 0 .. n - 1
      BY <1>1, <1>3
    <3>2. QED
      BY <3>1, Within, Zenon
  <2>5. t - n + n = t
    BY <1>1
  <2>6. QED
    BY <2>1, <2>2, <2>3, <2>4, <2>5
<1>4. CASE t < 0 /\ s + t >= 0
  <2>1. (s + t) % n = s + t
    <3>1. s + t \in 0 .. n - 1
      BY <1>1, <1>4
    <3>2. QED
      BY <3>1, Within, Zenon
  <2>2. s + t - s = t
    BY <1>1
  <2>3. QED
    BY <2>1, <2>2
<1>5. CASE t < 0 /\ s + t < 0
  <2>1. (s + t) % n = s + t + n
    <3>1. s + t \in -n .. -1
      BY <1>1, <1>5
    <3>2. QED
      BY <3>1, Under, Zenon
  <2>2. s + t + n - s = t + n /\ t + n \in 0 .. n - 1 /\ t + n \in Int
    BY <1>1, <1>5
  <2>3. (t + n) % n = t + n
    <3>1. t + n \in 0 .. n - 1
      BY <2>2
    <3>2. QED
      BY <3>1, Within, Zenon
  <2>4. t % n = t + n
    <3>1. t \in -n .. -1
      BY <1>1, <1>5
    <3>2. QED
      BY <3>1, Under, Zenon
  <2>5. QED
    BY <2>1, <2>2, <2>3, <2>4
<1>6. QED
  BY <1>1, <1>2, <1>3, <1>4, <1>5

(* Word k of a destination is copied from word k of the source.            *)
LEMMA Alongside ==
    ASSUME NEW n \in Nat \ {0}, NEW s \in 0 .. n - 1, NEW d \in 0 .. n - 1,
           NEW k \in 0 .. n - 1
    PROVE  (s + ((d + k) % n) - d) % n = (s + k) % n
<1>1. s \in Int /\ d \in Int /\ k \in Int /\ d + k \in Int /\ s + k \in Int
  OBVIOUS
<1>2. CASE d + k < n
  <2>1. (d + k) % n = d + k
    <3>1. d + k \in 0 .. n - 1
      BY <1>1, <1>2
    <3>2. QED
      BY <3>1, Within, Zenon
  <2>2. s + (d + k) - d = s + k
    BY <1>1
  <2>3. QED
    BY <2>1, <2>2
<1>3. CASE d + k >= n
  <2>1. (d + k) % n = d + k - n
    <3>1. d + k \in n .. n + n - 1
      BY <1>1, <1>3
    <3>2. QED
      BY <3>1, Over
  <2>2. s + (d + k - n) - d = s + k - n /\ s + k - n \in Int
    BY <1>1
  <2>3. (s + k - n) % n = (s + k) % n
    <3>1. CASE s + k < n
      <4>1. (s + k - n) % n = s + k - n + n
        <5>1. s + k - n \in -n .. -1
          BY <1>1, <2>2, <3>1
        <5>2. QED
          BY <5>1, Under, Zenon
      <4>2. (s + k) % n = s + k
        <5>1. s + k \in 0 .. n - 1
          BY <1>1, <3>1
        <5>2. QED
          BY <5>1, Within, Zenon
      <4>3. s + k - n + n = s + k
        BY <1>1
      <4>4. QED
        BY <4>1, <4>2, <4>3
    <3>2. CASE s + k >= n
      <4>1. (s + k - n) % n = s + k - n
        <5>1. s + k - n \in 0 .. n - 1
          BY <1>1, <2>2, <3>2
        <5>2. QED
          BY <5>1, Within, Zenon
      <4>2. (s + k) % n = s + k - n
        <5>1. s + k \in n .. n + n - 1
          BY <1>1, <3>2
        <5>2. QED
          BY <5>1, Over
      <4>3. QED
        BY <4>1, <4>2
    <3>3. QED
      BY <1>1, <3>1, <3>2
  <2>4. QED
    BY <2>1, <2>2, <2>3
<1>4. QED
  BY <1>1, <1>2, <1>3

(* An address, wrapped around, is a cell.                                  *)
LEMMA Wrapped ==
    ASSUME NEW a \in Int
    PROVE  a % Cells \in Cell
<1>1. Cells \in Nat \ {0}
  BY HwConstants
<1>2. QED
  BY <1>1 DEF Cell

(* A field of a descriptor is a cell.                                      *)
LEMMA FieldType ==
    ASSUME NEW m \in [Cell -> Cell], NEW d \in Cell, NEW k \in Int
    PROVE  Field(m, d, k) \in Cell
<1>1. Cells \in Nat \ {0} /\ d + k \in Int
  BY HwConstants DEF Cell
<1>2. (d + k) % Cells \in Cell
  BY <1>1 DEF Cell
<1>3. QED
  BY <1>2 DEF Field

(* The length of a transfer is a number of cells.                          *)
LEMMA LengthType ==
    ASSUME NEW m \in [Cell -> Cell], NEW d \in Cell
    PROVE  Length(m, d) \in Cell
<1>1. Field(m, d, 2) \in Nat /\ MaxLength \in Nat \ {0} /\ MaxLength <= Cells /\ Cells \in Nat
  BY FieldType, HwConstants DEF Cell
<1>2. PICK w \in Nat : w = Field(m, d, 2)
  BY <1>1
<1>3. w % MaxLength \in 0 .. MaxLength - 1
  BY <1>1
<1>4. w % MaxLength \in Cell
  BY <1>1, <1>3 DEF Cell
<1>5. QED
  BY <1>2, <1>4, Zenon DEF Length

(* Memory after a transfer is memory.                                      *)
LEMMA CopyType ==
    ASSUME NEW m \in [Cell -> Cell], NEW d \in Cell
    PROVE  Copy(m, d) \in [Cell -> Cell]
<1> DEFINE src == Field(m, d, 0)
           dst == Field(m, d, 1)
           len == Length(m, d)
<1>0. src \in Cell /\ dst \in Cell
  BY FieldType
<1>1. Cells \in Nat \ {0} /\ src \in Int /\ dst \in Int
  BY <1>0, HwConstants DEF Cell
<1> HIDE DEF src, dst, len
<1>2. \A x \in Cell : (src + x - dst) % Cells \in Cell
  BY <1>1 DEF Cell
<1>3. Copy(m, d) = [x \in Cell |-> IF (x - dst) % Cells < len
                                   THEN m[(src + x - dst) % Cells] ELSE m[x]]
  BY DEF Copy, src, dst, len
<1>4. QED
  BY <1>2, <1>3

--------------------------------------------------------------------------------
(* Types.                                                                  *)

(* HwTypeOK is its own inductive invariant.                                *)
LEMMA HwTypeInit == HwInit => HwTypeOK
<1>1. 0 \in Cell /\ Images \subseteq [Cell -> Cell] /\ MaxOps \in Nat
  BY HwConstants DEF Cell
<1>2. QED
  BY <1>1 DEF HwInit, HwTypeOK

(* Every operation keeps it.                                               *)
LEMMA HwTypeStep == HwTypeOK /\ [HwNext]_hwvars => HwTypeOK'
<1> SUFFICES ASSUME HwTypeOK, [HwNext]_hwvars PROVE HwTypeOK'
  OBVIOUS
<1> USE DEF HwTypeOK
<1>0. /\ Mailbox \in Cell /\ Entries \subseteq Cell /\ Messages \subseteq Cell
      /\ Heads \subseteq Cell
      /\ Pokes \subseteq Cell \X Cell /\ MaxOps \in Nat
  BY HwConstants
<1>1. Op => ops' \in 0 .. MaxOps
  BY <1>0 DEF Op
<1>2. ASSUME NEW a \in Cell, NEW v \in Cell, WriteMem(a, v) \/ StoreWord(a, v)
      PROVE  HwTypeOK'
  <2>1. Op /\ mem' = [mem EXCEPT ![a] = v] /\ UNCHANGED <<mailbox, phase, hwPc, dma, image>>
    BY <1>2 DEF WriteMem, StoreWord
  <2>2. mem' \in [Cell -> Cell]
    BY <2>1
  <2>3. QED
    BY <1>1, <2>1, <2>2 DEF dma
<1>3. ASSUME NEW v \in Messages, WriteMailbox(v) PROVE HwTypeOK'
  BY <1>0, <1>1, <1>3 DEF WriteMailbox, dma
<1>4. CASE ReadMailbox
  BY <1>0, <1>4 DEF ReadMailbox, dma
<1>5. ASSUME NEW a \in Entries, Run(a) PROVE HwTypeOK'
  BY <1>0, <1>1, <1>5 DEF Run, dma
<1>6. CASE WaitForTermination
  BY <1>1, <1>6 DEF WaitForTermination, dma
<1>7. CASE CoreHalts
  BY <1>0, <1>7 DEF CoreHalts, dma
<1>8. ASSUME NEW a \in Heads, StoreDescAddr(a) PROVE HwTypeOK'
  BY <1>0, <1>1, <1>8 DEF StoreDescAddr
<1>9. CASE StoreCtrl
  BY <1>1, <1>9 DEF StoreCtrl
<1>10. CASE DmaTransfer
  <2>1. Copy(mem, desc) \in [Cell -> Cell] /\ Field(mem, desc, 3) \in Cell
    <3>1. mem \in [Cell -> Cell] /\ desc \in Cell /\ 3 \in Int
      OBVIOUS
    <3>2. QED
      BY <3>1, CopyType, FieldType, Zenon
  <2>2. QED
    BY <1>10, <2>1 DEF DmaTransfer, Follow
<1>11. CASE DmaDone
  BY <1>11 DEF DmaDone, StatusDone
<1>12. CASE UNCHANGED hwvars
  BY <1>12 DEF hwvars, dma
<1>13. ASSUME NEW p \in Pokes, WriteMem(p[1], p[2]) \/ StoreWord(p[1], p[2])
       PROVE  HwTypeOK'
  <2>1. p[1] \in Cell /\ p[2] \in Cell
    BY <1>0
  <2>2. QED
    BY <1>2, <1>13, <2>1
<1>14. QED
  BY <1>3, <1>4, <1>5, <1>6, <1>7, <1>8, <1>9, <1>10, <1>11, <1>12, <1>13 DEF HwNext

(* Every word, register and phase of the wrapper keeps its type, whatever  *)
(* the chain overwrites (MpactSimulator, DmaMemoryWrapper).                *)
THEOREM HwTypes == HwSpec => []HwTypeOK
  BY HwTypeInit, HwTypeStep, PTL DEF HwSpec

--------------------------------------------------------------------------------
(* The copies.  W holds the descriptors of a tame chain that have been     *)
(* walked: their copies have been made, and nothing else has changed.  The *)
(* memory the walk reads is not the image, so that the descriptors and the *)
(* sources are still intact has to be part of the argument.                *)

Copied(m, i, W) ==
    /\ \A e \in W, k \in Cell :
          k < Length(i, e) =>
              m[(Field(i, e, 1) + k) % Cells] = i[(Field(i, e, 0) + k) % Cells]
    /\ \A x \in Cell : (\A e \in W : x \notin Targets(i, e)) => m[x] = i[x]

Walked(W) ==
    /\ descAddr \in W \cup {desc}
    /\ \A e \in W : Field(image, e, 3) \in W \cup {desc, 0}
    /\ \A e \in W : desc \in After(image, e) \cup {0}
    /\ Copied(mem, image, W)

WalkInv ==
    (phase = "dma" /\ Tame(image, descAddr)) =>
        /\ desc \in Chain(image, descAddr) \cup {0}
        /\ \E W \in SUBSET Chain(image, descAddr) : Walked(W)

(* The chain is made of descriptors, begins with the first one, goes on    *)
(* with the next, and is contained in every set that does.                 *)
LEMMA ChainFacts ==
    ASSUME NEW i \in [Cell -> Cell], NEW a \in Cell
    PROVE  /\ Chain(i, a) \subseteq Descriptor
           /\ a \in Chain(i, a) \cup {0}
           /\ \A e \in Chain(i, a) : Field(i, e, 3) \in Chain(i, a) \cup {0}
           /\ \A S \in SUBSET Descriptor : Closed(i, a, S) => Chain(i, a) \subseteq S
<1>1. Chain(i, a) \subseteq Descriptor
  BY DEF Chain
<1>2. a \in Chain(i, a) \cup {0}
  BY DEF Chain, Closed, Descriptor
<1>3. ASSUME NEW e \in Chain(i, a), Field(i, e, 3) # 0
      PROVE  Field(i, e, 3) \in Chain(i, a)
  <2>1. e \in Cell
    BY DEF Chain, Descriptor
  <2>2. Field(i, e, 3) \in Descriptor
    BY <1>3, <2>1, FieldType DEF Descriptor
  <2>3. ASSUME NEW S \in SUBSET Descriptor, Closed(i, a, S)
        PROVE  Field(i, e, 3) \in S
    <3>1. e \in S
      BY <2>3 DEF Chain
    <3>2. QED
      BY <1>3, <2>3, <3>1 DEF Closed
  <2>4. QED
    BY <2>2, <2>3 DEF Chain
<1>4. \A S \in SUBSET Descriptor : Closed(i, a, S) => Chain(i, a) \subseteq S
  BY DEF Chain
<1>5. QED
  BY <1>1, <1>2, <1>3, <1>4

(* A transfer of a tame chain reads its descriptor and its source as they  *)
(* were in the image, makes its copy and keeps the others.                 *)
LEMMA TransferKeeps ==
    ASSUME NEW m \in [Cell -> Cell], NEW i \in [Cell -> Cell], NEW a \in Cell,
           Tame(i, a), NEW d \in Chain(i, a), NEW W \in SUBSET Chain(i, a),
           \A e \in W : d \in After(i, e), Copied(m, i, W)
    PROVE  /\ Field(m, d, 3) = Field(i, d, 3)
           /\ Copied(Copy(m, d), i, W \cup {d})
<1>1. Cells \in Nat \ {0} /\ Cells > 4 /\ Chain(i, a) \subseteq Cell /\ d \in Cell
  BY HwConstants, ChainFacts DEF Descriptor
<1>2. \A e \in W : /\ Targets(i, e) \cap (Words(d) \cup Sources(i, d)) = {}
                    /\ Targets(i, e) \cap Targets(i, d) = {}
  BY DEF Tame, Straight
<1>3. ASSUME NEW x \in Cell, x \in Words(d) \cup Sources(i, d)
      PROVE  m[x] = i[x]
  BY <1>2, <1>3 DEF Copied
<1>4. \A k \in 0 .. 3 : Field(m, d, k) = Field(i, d, k)
  <2> SUFFICES ASSUME NEW k \in 0 .. 3 PROVE Field(m, d, k) = Field(i, d, k)
    OBVIOUS
  <2>0. d + k \in Int
    BY <1>1 DEF Cell
  <2>1. (d + k) % Cells \in Cell /\ (d + k) % Cells \in Words(d)
    BY <2>0, Wrapped, Zenon DEF Words
  <2>2. QED
    BY <1>3, <2>1 DEF Field
<1> DEFINE src == Field(i, d, 0)
           dst == Field(i, d, 1)
           len == Length(i, d)
           c   == Copy(m, d)
<1>5. src \in Cell /\ dst \in Cell /\ len \in Cell
  BY <1>1, FieldType, LengthType
<1>6. /\ Field(m, d, 0) = src /\ Field(m, d, 1) = dst /\ Length(m, d) = len
  BY <1>4 DEF Length
<1>7. \A x \in Cell : c[x] = IF (x - dst) % Cells < len
                             THEN m[(src + x - dst) % Cells] ELSE m[x]
  BY <1>6 DEF Copy
<1>8. \A x \in Cell : x \in Targets(i, d) <=> (x - dst) % Cells < len
  BY DEF Targets
<1>9. \A x \in Cell : x \in Sources(i, d) <=> (x - src) % Cells < len
  BY DEF Sources
<1> HIDE DEF src, dst, len, c
<1>10. ASSUME NEW k \in Cell, k < len
       PROVE  c[(dst + k) % Cells] = i[(src + k) % Cells]
  <2> DEFINE x == (dst + k) % Cells
             y == (src + k) % Cells
  <2>0. dst + k \in Int /\ src + k \in Int
    BY <1>1, <1>5 DEF Cell
  <2>1. x \in Cell /\ y \in Cell
    BY <2>0, Wrapped, Zenon
  <2>2. k % Cells = k
    BY <1>1, Within, Zenon DEF Cell
  <2>3. (x - dst) % Cells = k /\ (y - src) % Cells = k
    <3>1. k \in -(Cells - 1) .. Cells - 1
      BY <1>1 DEF Cell
    <3>2. QED
      BY <1>1, <1>5, <2>2, <3>1, Distance, Zenon DEF Cell
  <2>4. (src + x - dst) % Cells = y
    <3>1. /\ src \in 0 .. Cells - 1 /\ dst \in 0 .. Cells - 1
          /\ k \in 0 .. Cells - 1
      BY <1>5 DEF Cell
    <3>2. QED
      BY <1>1, <3>1, Alongside
  <2> HIDE DEF x, y
  <2>5. c[x] = m[y]
    BY <1>7, <1>10, <2>1, <2>3, <2>4
  <2>6. y \in Sources(i, d)
    BY <1>9, <1>10, <2>1, <2>3
  <2>7. QED
    BY <1>3, <2>1, <2>5, <2>6 DEF x, y
<1>11. ASSUME NEW x \in Cell, x \notin Targets(i, d) PROVE c[x] = m[x]
  BY <1>7, <1>8, <1>11
<1>12. ASSUME NEW e \in W, e # d, NEW k \in Cell, k < Length(i, e)
       PROVE  c[(Field(i, e, 1) + k) % Cells] = i[(Field(i, e, 0) + k) % Cells]
  <2> DEFINE t == Field(i, e, 1)
             x == (t + k) % Cells
  <2>1. t \in Cell /\ e \in Chain(i, a)
    BY <1>1, FieldType
  <2>2. x \in Cell
    <3>1. t + k \in Int
      BY <1>1, <2>1 DEF Cell
    <3>2. QED
      BY <3>1, Wrapped, Zenon
  <2>3. (x - t) % Cells = k
    <3>1. k \in -(Cells - 1) .. Cells - 1
      BY <1>1 DEF Cell
    <3>2. k % Cells = k
      BY <1>1, Within, Zenon DEF Cell
    <3>3. QED
      BY <1>1, <2>1, <3>1, <3>2, Distance, Zenon DEF Cell
  <2>4. x \in Targets(i, e)
    BY <1>12, <2>2, <2>3 DEF Targets
  <2>5. x \notin Targets(i, d)
    BY <1>2, <1>12, <2>1, <2>4
  <2>6. c[x] = m[x]
    BY <1>11, <2>2, <2>5
  <2>7. m[x] = i[(Field(i, e, 0) + k) % Cells]
    BY <1>12, Zenon DEF Copied
  <2>8. QED
    BY <2>6, <2>7
<1>13. ASSUME NEW x \in Cell, \A e \in W \cup {d} : x \notin Targets(i, e)
       PROVE  c[x] = i[x]
  <2>1. c[x] = m[x]
    BY <1>11, <1>13
  <2>2. m[x] = i[x]
    BY <1>13 DEF Copied
  <2>3. QED
    BY <2>1, <2>2
<1>14. \A e \in W \cup {d}, k \in Cell :
         k < Length(i, e) =>
             c[(Field(i, e, 1) + k) % Cells] = i[(Field(i, e, 0) + k) % Cells]
  BY <1>10, <1>12, Zenon DEF src, dst, len
<1>15. Copied(c, i, W \cup {d})
  BY <1>13, <1>14, Zenon DEF Copied
<1>16. QED
  BY <1>4, <1>15 DEF c

(* No walk has begun.                                                      *)
LEMMA WalkInit == HwInit => WalkInv
  BY DEF HwInit, WalkInv

(* Every operation keeps what is known of the walk.                        *)
LEMMA WalkStep == HwTypeOK /\ WalkInv /\ [HwNext]_hwvars => WalkInv'
<1> SUFFICES ASSUME HwTypeOK, WalkInv, [HwNext]_hwvars, phase' = "dma",
                    Tame(image, descAddr)'
             PROVE  /\ desc' \in Chain(image', descAddr') \cup {0}
                    /\ \E W \in SUBSET Chain(image', descAddr') : Walked(W)'
  BY DEF WalkInv
<1>1. /\ mem \in [Cell -> Cell] /\ image \in [Cell -> Cell]
      /\ descAddr \in Cell /\ desc \in Cell /\ starter # "dma"
  BY DEF HwTypeOK
<1>2. StoreCtrl \/ DmaTransfer \/ UNCHANGED hwvars
  BY <1>1 DEF HwNext, WriteMem, StoreWord, WriteMailbox, ReadMailbox, Run, WaitForTermination,
         CoreHalts, StoreDescAddr, DmaDone
<1>3. CASE StoreCtrl
  <2>1. image' = mem /\ mem' = mem /\ desc' = descAddr /\ descAddr' = descAddr
    BY <1>3 DEF StoreCtrl
  <2>2. Walked({})'
    BY <2>1 DEF Walked, Copied
  <2>3. desc' \in Chain(image', descAddr') \cup {0}
    BY <1>1, <2>1, ChainFacts
  <2>4. QED
    BY <2>2, <2>3
<1>4. CASE DmaTransfer
  <2>1. /\ phase = "dma" /\ desc # 0 /\ mem' = Copy(mem, desc)
        /\ desc' = Field(mem, desc, 3) /\ image' = image /\ descAddr' = descAddr
    BY <1>4 DEF DmaTransfer, Follow
  <2>2. Tame(image, descAddr)
    BY <2>1 DEF Tame, Straight, After, Chain, Closed, Targets, Sources, Length, Field
  <2>3. desc \in Chain(image, descAddr)
    BY <2>1, <2>2 DEF WalkInv
  <2>4. PICK W \in SUBSET Chain(image, descAddr) : Walked(W)
    BY <2>1, <2>2 DEF WalkInv
  <2>5. /\ Field(mem, desc, 3) = Field(image, desc, 3)
        /\ Copied(Copy(mem, desc), image, W \cup {desc})
    <3>1. \A e \in W : desc \in After(image, e)
      BY <2>1, <2>4 DEF Walked
    <3>2. QED
      BY <1>1, <2>2, <2>3, <2>4, <3>1, TransferKeeps DEF Walked
  <2>6. desc' \in Chain(image, descAddr) \cup {0}
    BY <1>1, <2>1, <2>3, <2>5, ChainFacts
  <2>7. PICK V \in SUBSET Chain(image, descAddr) : V = W \cup {desc}
    BY <2>3
  <2>8. Walked(V)'
    <3>1. Copied(mem', image', V)
      BY <2>1, <2>5, <2>7
    <3>2. descAddr' \in V \cup {desc'}
      BY <2>1, <2>4, <2>7 DEF Walked
    <3>3. \A e \in V : Field(image', e, 3) \in V \cup {desc', 0}
      BY <2>1, <2>4, <2>5, <2>7 DEF Walked
    <3>4. \A e \in V : desc' \in After(image, e) \cup {0}
      <4> SUFFICES ASSUME NEW e \in V PROVE desc' \in After(image, e) \cup {0}
        OBVIOUS
      <4>1. e \in Cell /\ Field(image, e, 3) \in Cell
        BY <1>1, <2>7, ChainFacts, FieldType DEF Descriptor
      <4>2. CASE e = desc
        BY <1>1, <2>1, <2>5, <4>1, <4>2, ChainFacts DEF After
      <4>3. CASE e \in W
        <5>1. desc \in After(image, e)
          BY <2>1, <2>4, <4>3 DEF Walked
        <5>2. Field(image, desc, 3) \in After(image, e) \cup {0}
          BY <1>1, <4>1, <5>1, ChainFacts DEF After
        <5>3. QED
          BY <2>1, <2>5, <5>2
      <4>4. QED
        BY <2>7, <4>2, <4>3
    <3>5. QED
      BY <2>1, <3>1, <3>2, <3>3, <3>4
         DEF Walked, Copied, Targets, Length, Field, After, Chain, Closed
  <2>9. QED
    BY <2>1, <2>6, <2>8
<1>5. CASE UNCHANGED hwvars
  BY <1>5 DEF hwvars, dma, WalkInv, Walked
<1>6. QED
  BY <1>2, <1>3, <1>4, <1>5

(* A walk of a tame chain that has come to its end has walked all of it.   *)
LEMMA WalkEnds == HwTypeOK /\ WalkInv => DmaCopies
<1> SUFFICES ASSUME HwTypeOK, WalkInv, phase = "dma", desc = 0,
                    Tame(image, descAddr)
             PROVE  Copied(mem, image, Chain(image, descAddr))
  BY DEF DmaCopies, Copied
<1>1. image \in [Cell -> Cell] /\ descAddr \in Cell
  BY DEF HwTypeOK
<1>2. PICK W \in SUBSET Chain(image, descAddr) : Walked(W)
  BY DEF WalkInv
<1>3. W \in SUBSET Descriptor
  BY <1>1, ChainFacts
<1>4. Closed(image, descAddr, W)
  BY <1>2 DEF Walked, Closed
<1>5. W = Chain(image, descAddr)
  BY <1>1, <1>3, <1>4, ChainFacts
<1>6. QED
  BY <1>2, <1>5 DEF Walked

(* A DMA started on a tame chain has, when it comes to its end, copied     *)
(* each source to its destination and touched nothing else, though         *)
(* DmaMemoryWrapper::RunDma re-reads every descriptor from the memory it   *)
(* is changing: for every size of memory and every length of the chain.    *)
THEOREM DmaCopiesItsChain == HwSpec => []DmaCopies
<1>1. HwSpec => []HwTypeOK
  BY HwTypes
<1>2. HwSpec => []WalkInv
  BY <1>1, WalkInit, WalkStep, PTL DEF HwSpec
<1>3. QED
  BY <1>1, <1>2, WalkEnds, PTL
================================================================================
