----------------------------- MODULE FuzzerProofs -----------------------------
(***************************************************************************)
(* The fuzzer: the evolution loop and the simulation of one sequence.  The *)
(* archive loses no discovery and keeps its elites, and every image can    *)
(* still be run: after any number of generations, for every size of the    *)
(* ITCM and the preamble and every list of checks.  A simulation is judged *)
(* by what ended it and its hazards are counted exactly: for every program *)
(* and step limit.                                                         *)
(***************************************************************************)
EXTENDS Orchestrator, RandomSim, FiniteSetTheorems, FunctionTheorems, SequenceTheorems,
        WellFoundedInduction, TLAPS

--------------------------------------------------------------------------------
(* Least and greatest elements.                                            *)

(* A set of numbers that is not empty has a least element.                 *)
LEMMA Least ==
    ASSUME NEW T \in SUBSET Nat, T # {}
    PROVE  \E x \in T : \A y \in T : x <= y
<1> DEFINE R == OpToRel(<, Nat)
<1>1. IsWellFoundedOn(R, Nat)
  BY NatLessThanWellFounded
<1> HIDE DEF R
<1>2. PICK x \in T : \A y \in T : ~(<<y, x>> \in R)
  BY <1>1, WFMin
<1>3. \A y \in Nat, z \in Nat : y < z => <<y, z>> \in R
  BY DEF R, OpToRel
<1>4. ASSUME NEW y \in T PROVE x <= y
  <2>1. x \in Nat /\ y \in Nat /\ ~(y < x)
    BY <1>2, <1>3
  <2>2. QED
    BY <2>1
<1>5. QED
  BY <1>4

(* One that is bounded has a greatest.                                     *)
LEMMA Greatest ==
    ASSUME NEW n \in Nat, NEW T \in SUBSET (0 .. n), T # {}
    PROVE  \E x \in T : \A y \in T : y <= x
<1> DEFINE U == {n - y : y \in T}
<1>1. \A y \in T : y \in Int /\ n - y \in Nat
  OBVIOUS
<1>2. U \in SUBSET Nat /\ U # {}
  BY <1>1
<1>3. PICK u \in U : \A v \in U : u <= v
  BY <1>2, Least
<1>4. PICK x \in T : u = n - x
  BY <1>3
<1>5. ASSUME NEW y \in T PROVE y <= x
  <2>1. n - x <= n - y
    BY <1>3, <1>4
  <2>2. QED
    BY <1>1, <2>1
<1>6. QED
  BY <1>5

--------------------------------------------------------------------------------
(* The archive.                                                            *)

(* The bin of a run is one of its detectors, or none if it has none, and   *)
(* an empty one if any of its detectors' bins is empty.                    *)
LEMMA BinOfRun ==
    ASSUME NEW s \in Summaries
    PROVE  /\ ExtractDescriptor(s) \in DOMAIN s \cup {NoBin}
           /\ DOMAIN s \subseteq DOMAIN archive \/ ExtractDescriptor(s) \notin DOMAIN archive
<1> DEFINE D == DOMAIN s
           empty == D \ DOMAIN archive
<1>1. D \subseteq Detectors /\ \A d \in D : s[d] \in 1 .. MaxCount
  BY DEF Summaries
<1>2. D \subseteq Nat /\ MaxCount \in Nat
  BY <1>1, OrchestratorConstants
<1>3. ASSUME empty # {}
      PROVE  ExtractDescriptor(s) \in empty
  <2>1. \E d \in empty : \A e \in empty : d <= e
    BY <1>2, <1>3, Least
  <2>2. ExtractDescriptor(s) = CHOOSE d \in empty : \A e \in empty : d <= e
    BY <1>3 DEF ExtractDescriptor
  <2>3. QED
    BY <2>1, <2>2
<1>4. ASSUME D # {}
      PROVE  MostFrequent(s) \in D
  <2> DEFINE rare(d) == MaxCount - s[d]
             T == {rare(d) : d \in D}
  <2>1. \A d \in D : rare(d) \in Nat /\ s[d] \in Int
    BY <1>1, <1>2
  <2>2. T \in SUBSET Nat /\ T # {}
    BY <1>4, <2>1
  <2>3. PICK t \in T : \A u \in T : t <= u
    BY <2>2, Least
  <2> DEFINE U == {d \in D : rare(d) = t}
  <2>4. U \in SUBSET Nat /\ U # {}
    BY <1>2, <2>3
  <2>5. PICK d \in U : \A e \in U : d <= e
    BY <2>4, Least
  <2>6. ASSUME NEW e \in D PROVE s[e] <= s[d] /\ (s[e] = s[d] => d <= e)
    <3>1. rare(d) <= rare(e) /\ rare(d) = t
      BY <2>3, <2>5
    <3>2. s[e] <= s[d]
      BY <1>2, <2>1, <2>5, <3>1
    <3>3. s[e] = s[d] => d <= e
      BY <2>5, <3>1
    <3>4. QED
      BY <3>2, <3>3
  <2>7. d \in D /\ \A e \in D : s[e] <= s[d] /\ (s[e] = s[d] => d <= e)
    BY <2>5, <2>6
  <2>8. MostFrequent(s) = CHOOSE x \in D :
                             \A e \in D : s[e] <= s[x] /\ (s[e] = s[x] => x <= e)
    BY <1>4 DEF MostFrequent
  <2>9. QED
    BY <2>7, <2>8
<1>5. CASE empty # {}
  BY <1>3, <1>5
<1>6. CASE empty = {}
  <2>1. ExtractDescriptor(s) = MostFrequent(s)
    BY <1>6 DEF ExtractDescriptor
  <2>2. D = {} => MostFrequent(s) = NoBin
    BY DEF MostFrequent
  <2>3. QED
    BY <1>4, <1>6, <2>1, <2>2
<1>7. QED
  BY <1>5, <1>6

--------------------------------------------------------------------------------
(* The images.                                                             *)

Padding == {"nop", "mpause"}

Exits(image) ==
    image[Size] = "mpause" \/ \E k \in 1 .. Len(CheckEnds) :
        \A i \in Size - CheckLen(k) + 1 .. Size : image[i] = "check"

(* What the writing of checks needs of a sequence and keeps.  NopsLast is  *)
(* the part that no property states: a nop behind the mutable part lies    *)
(* behind all checks, so that the scan for the end of the code does not    *)
(* stop in front of one.                                                   *)
NopsLast(q) ==
    \A i \in q.end + 1 .. Size, j \in 1 .. Size :
        (q.image[i] = "nop" /\ i <= j) => q.image[j] \in Padding

Sound(q) ==
    /\ q \in Sequence
    /\ \A i \in 1 .. Pre : q.image[i] = "op"
    /\ Exits(q.image)
    /\ NopsLast(q)

Paused(q) ==
    \A i \in q.end + 1 .. Size :
        q.image[i] = "nop" => \E j \in 1 .. i - 1 : q.image[j] = "mpause"

(* The constants, as the proofs use them.                                  *)
LEMMA Constants ==
    /\ Size \in Nat /\ Pre \in Nat /\ Pre >= 1 /\ Pre < Size
    /\ CheckEnds \in Seq(Nat) /\ Len(CheckEnds) \in Nat
    /\ \A k \in 0 .. Len(CheckEnds) : Words(k) \in Nat
    /\ \A k \in 1 .. Len(CheckEnds) : /\ CheckLen(k) > 0 /\ CheckLen(k) \in Nat
                                      /\ CheckLen(k) <= Words(k)
<1>1. /\ Size \in Nat /\ Pre \in 1 .. Size - 1 /\ CheckEnds \in Seq(Nat)
      /\ \A k \in DOMAIN CheckEnds : CheckLen(k) > 0
  BY OrchestratorConstants
<1>2. Len(CheckEnds) \in Nat /\ DOMAIN CheckEnds = 1 .. Len(CheckEnds)
  BY <1>1
<1>3. \A k \in 0 .. Len(CheckEnds) : Words(k) \in Nat
  BY <1>1, <1>2 DEF Words
<1>4. ASSUME NEW k \in 1 .. Len(CheckEnds)
      PROVE  CheckLen(k) > 0 /\ CheckLen(k) \in Nat /\ CheckLen(k) <= Words(k)
  <2>1. Words(k) \in Nat /\ Words(k - 1) \in Nat /\ CheckLen(k) > 0
    BY <1>1, <1>2, <1>3
  <2>2. QED
    BY <2>1 DEF CheckLen
<1>5. QED
  BY <1>1, <1>2, <1>3, <1>4

(* A freshly laid out image is sound.                                      *)
LEMMA LayoutSound ==
    ASSUME NEW preamble, \A i \in 1 .. Pre : preamble[i] = "op",
           NEW code \in Seq(Word), Pre + Len(code) <= Size - 1
    PROVE  Sound(Layout(preamble, code))
<1> DEFINE q == Layout(preamble, code)
           n == Len(code)
<1>1. Size \in Nat /\ Pre \in Nat /\ Pre >= 1 /\ Pre < Size /\ n \in Nat
  BY Constants
<1>2. /\ q.end = Pre + n
      /\ q.image = [i \in 1 .. Size |->
                      IF i <= Pre THEN preamble[i]
                      ELSE IF i <= Pre + n THEN code[i - Pre]
                      ELSE IF i < Size THEN "nop" ELSE "mpause"]
      /\ q = [image |-> q.image, end |-> q.end]
  BY DEF Layout
<1>3. \A i \in 1 .. Size : (i > Pre /\ i <= Pre + n) => code[i - Pre] \in Word
  BY <1>1
<1> HIDE DEF q
<1>4. ASSUME NEW i \in 1 .. Size
      PROVE  /\ q.image[i] \in Word
             /\ i <= Pre => q.image[i] = "op"
             /\ i > Pre + n => q.image[i] = IF i < Size THEN "nop" ELSE "mpause"
  <2>1. q.image[i] = IF i <= Pre THEN preamble[i]
                     ELSE IF i <= Pre + n THEN code[i - Pre]
                     ELSE IF i < Size THEN "nop" ELSE "mpause"
    BY <1>2
  <2>2. CASE i <= Pre
    BY <1>1, <2>1, <2>2 DEF Word
  <2>3. CASE i > Pre /\ i <= Pre + n
    BY <1>1, <1>3, <2>1, <2>3
  <2>4. CASE i > Pre + n
    BY <1>1, <2>1, <2>4 DEF Word
  <2>5. QED
    BY <1>1, <2>2, <2>3, <2>4
<1>5. q \in Sequence
  <2>1. q.image \in [1 .. Size -> Word]
    BY <1>2, <1>4
  <2>2. q.end \in Pre .. Size - 1
    BY <1>1, <1>2
  <2>3. QED
    BY <1>2, <2>1, <2>2 DEF Sequence
<1>6. Exits(q.image)
  <2>1. q.image[Size] = "mpause"
    BY <1>1, <1>4
  <2>2. QED
    BY <2>1 DEF Exits
<1>7. NopsLast(q)
  BY <1>1, <1>2, <1>4 DEF NopsLast, Padding
<1>8. \A i \in 1 .. Pre : q.image[i] = "op"
  BY <1>1, <1>4
<1>9. QED
  BY <1>5, <1>6, <1>7, <1>8 DEF Sound, q

(* The scan ends at the last word that is neither nop nor mpause.          *)
LEMMA ScanEnds ==
    ASSUME NEW q, Sound(q)
    PROVE  /\ NopStart(q.image) \in Pre .. Size
           /\ q.image[NopStart(q.image)] \notin Padding
           /\ \A i \in 1 .. Size : i > NopStart(q.image) => q.image[i] \in Padding
<1> DEFINE image == q.image
           kept == {i \in DOMAIN image : image[i] \notin {"nop", "mpause"}}
<1>1. Size \in Nat /\ Pre \in Nat /\ Pre >= 1 /\ Pre < Size
  BY Constants
<1>2. DOMAIN image = 1 .. Size /\ image[Pre] = "op"
  BY <1>1 DEF Sound, Sequence
<1>3. Pre \in kept /\ kept \in SUBSET (0 .. Size)
  BY <1>1, <1>2
<1>4. \E i \in kept : \A j \in kept : j <= i
  BY <1>1, <1>3, Greatest
<1>5. NopStart(image) = CHOOSE i \in kept : \A j \in kept : j <= i
  BY <1>3 DEF NopStart
<1>6. NopStart(image) \in kept /\ \A j \in kept : j <= NopStart(image)
  BY <1>4, <1>5
<1> DEFINE start == NopStart(image)
<1>7. start \in 1 .. Size /\ image[start] \notin {"nop", "mpause"} /\ Pre <= start
  BY <1>2, <1>3, <1>6
<1>8. ASSUME NEW i \in 1 .. Size, i > start PROVE image[i] \in {"nop", "mpause"}
  <2>1. i \in kept => i <= start
    BY <1>6
  <2>2. i \notin kept
    BY <1>7, <1>8, <2>1
  <2>3. QED
    BY <1>2, <2>2
<1>9. start \in Pre .. Size
  BY <1>1, <1>7
<1>10. QED
  BY <1>7, <1>8, <1>9 DEF Padding

(* The checks that are written fit behind the code.                        *)
LEMMA ChecksFit ==
    ASSUME NEW room \in Nat
    PROVE  \E k \in 0 .. Len(CheckEnds) : /\ Emitted(room) = Words(k)
                                          /\ Words(k) \in Nat /\ Words(k) <= room
<1> DEFINE fit == {k \in 0 .. Len(CheckEnds) : Words(k) <= room}
<1>1. Len(CheckEnds) \in Nat /\ \A k \in 0 .. Len(CheckEnds) : Words(k) \in Nat
  BY Constants
<1>2. 0 \in fit /\ fit \in SUBSET (0 .. Len(CheckEnds))
  BY <1>1 DEF Words
<1>3. \E k \in fit : \A j \in fit : j <= k
  BY <1>1, <1>2, Greatest
<1>4. Emitted(room) = Words(CHOOSE k \in fit : \A j \in fit : j <= k)
  BY DEF Emitted
<1>5. (CHOOSE k \in fit : \A j \in fit : j <= k) \in fit
  BY <1>3
<1>6. QED
  BY <1>1, <1>4, <1>5

(* Writing the checks keeps a sequence sound, and an mpause follows them.  *)
LEMMA FinalizeSound ==
    ASSUME NEW q, Sound(q)
    PROVE  Sound(PerformPhase2Finalize(q)) /\ Paused(PerformPhase2Finalize(q))
<1> DEFINE old   == q.image
           start == NopStart(old)
           stop  == start + Emitted(Size - start)
           f     == PerformPhase2Finalize(q)
           new   == f.image
<1>1. Size \in Nat /\ Pre \in Nat /\ Pre >= 1 /\ Pre < Size
  BY Constants
<1>2. /\ q \in Sequence /\ old \in [1 .. Size -> Word] /\ q.end \in Pre .. Size - 1
      /\ \A i \in 1 .. Pre : old[i] = "op"
  BY DEF Sound, Sequence
<1>3. /\ start \in Pre .. Size /\ old[start] \notin Padding
      /\ \A i \in 1 .. Size : i > start => old[i] \in Padding
  BY ScanEnds
<1> HIDE DEF start
<1>4. PICK k \in 0 .. Len(CheckEnds) : /\ Emitted(Size - start) = Words(k)
                                       /\ Words(k) \in Nat /\ Words(k) <= Size - start
  <2>1. Size - start \in Nat
    BY <1>1, <1>3
  <2>2. QED
    BY <2>1, ChecksFit
<1>5. stop = start + Words(k) /\ stop \in start .. Size
  BY <1>1, <1>3, <1>4
<1>6. /\ f.end = q.end
      /\ new = [i \in 1 .. Size |-> IF i \in start + 1 .. stop THEN "check"
                                    ELSE IF i = stop + 1 /\ stop < Size THEN "mpause"
                                    ELSE old[i]]
      /\ f = [image |-> new, end |-> f.end]
  BY <1>2 DEF PerformPhase2Finalize, PauseFits, start, Sequence
<1> HIDE DEF stop, f
<1>7. ASSUME NEW i \in 1 .. Size
      PROVE  /\ i <= start => new[i] = old[i]
             /\ i > start /\ i <= stop => new[i] = "check"
             /\ i = stop + 1 => new[i] = "mpause"
             /\ i > stop + 1 => new[i] = old[i]
             /\ new[i] \in Word
  BY <1>1, <1>2, <1>3, <1>5, <1>6 DEF Word
<1>8. f \in Sequence
  <2>1. new \in [1 .. Size -> Word]
    BY <1>6, <1>7
  <2>2. QED
    BY <1>2, <1>6, <2>1 DEF Sequence
<1>9. \A i \in 1 .. Pre : new[i] = "op"
  BY <1>1, <1>2, <1>3, <1>7
<1>10. Exits(new)
  <2>1. CASE stop = Size /\ k = 0
    <3>1. start = Size
      BY <1>3, <1>5, <2>1 DEF Words
    <3>2. \A i \in 1 .. Size : new[i] = old[i]
      BY <1>7, <3>1
    <3>3. new = old
      BY <1>2, <1>6, <3>2
    <3>4. QED
      BY <3>3 DEF Sound
  <2>2. CASE stop = Size /\ k # 0
    <3>1. k \in 1 .. Len(CheckEnds)
      BY <1>4, <2>2, Constants
    <3>2. CheckLen(k) > 0 /\ CheckLen(k) \in Nat /\ CheckLen(k) <= Words(k)
      BY <3>1, Constants
    <3>3. \A i \in Size - CheckLen(k) + 1 .. Size : i \in 1 .. Size /\ i > start /\ i <= stop
      BY <1>1, <1>3, <1>4, <1>5, <2>2, <3>2
    <3>4. \A i \in Size - CheckLen(k) + 1 .. Size : new[i] = "check"
      BY <1>7, <3>3
    <3>5. QED
      BY <3>1, <3>4 DEF Exits
  <2>3. CASE stop < Size
    <3>1. old[Size] \in Padding
      BY <1>1, <1>3, <1>5, <2>3
    <3>2. old[Size] = "mpause"
      <4>1. ASSUME NEW j \in 1 .. Len(CheckEnds),
                   \A i \in Size - CheckLen(j) + 1 .. Size : old[i] = "check"
            PROVE  FALSE
        <5>1. CheckLen(j) > 0 /\ CheckLen(j) \in Nat
          BY <4>1, Constants
        <5>2. Size \in Size - CheckLen(j) + 1 .. Size
          BY <1>1, <5>1
        <5>3. QED
          BY <3>1, <4>1, <5>2 DEF Padding
      <4>2. QED
        BY <4>1 DEF Sound, Exits
    <3>3. new[Size] = "mpause"
      BY <1>1, <1>3, <1>5, <1>7, <2>3, <3>2
    <3>4. QED
      BY <3>3 DEF Exits
  <2>4. QED
    BY <1>1, <1>3, <1>5, <2>1, <2>2, <2>3
<1>11. ASSUME NEW i \in f.end + 1 .. Size, new[i] = "nop"
       PROVE  i \in 1 .. Size /\ i > stop + 1 /\ stop < Size
  <2>1. i \in 1 .. Size /\ i \in q.end + 1 .. Size
    BY <1>1, <1>2, <1>6
  <2>2. ~(i <= start)
    <3> SUFFICES ASSUME i <= start PROVE FALSE
      OBVIOUS
    <3>1. old[i] = "nop"
      BY <1>7, <1>11, <2>1
    <3>2. start \in 1 .. Size
      BY <1>1, <1>3
    <3>3. old[start] \in Padding
      BY <2>1, <3>1, <3>2 DEF Sound, NopsLast
    <3>4. QED
      BY <1>3, <3>3
  <2>3. ~(i <= stop) /\ i # stop + 1
    BY <1>3, <1>7, <1>11, <2>1, <2>2
  <2>4. QED
    BY <1>1, <1>3, <1>5, <2>1, <2>3
<1>12. NopsLast(f)
  <2> SUFFICES ASSUME NEW i \in f.end + 1 .. Size, NEW j \in 1 .. Size,
                      new[i] = "nop", i <= j
               PROVE  new[j] \in Padding
    BY DEF NopsLast
  <2>1. i \in 1 .. Size /\ i > stop + 1
    BY <1>11
  <2>2. j > stop + 1 /\ j > start
    BY <1>1, <1>3, <1>5, <2>1
  <2>3. QED
    BY <1>3, <1>7, <2>2
<1>13. Paused(f)
  <2> SUFFICES ASSUME NEW i \in f.end + 1 .. Size, new[i] = "nop"
               PROVE  \E j \in 1 .. i - 1 : new[j] = "mpause"
    BY DEF Paused
  <2>1. i \in 1 .. Size /\ i > stop + 1 /\ stop < Size
    BY <1>11
  <2>2. stop + 1 \in 1 .. Size /\ stop + 1 \in 1 .. i - 1
    BY <1>1, <1>3, <1>5, <2>1
  <2>3. new[stop + 1] = "mpause"
    BY <1>7, <2>2
  <2>4. QED
    BY <2>2, <2>3
<1>14. QED
  BY <1>8, <1>9, <1>10, <1>12, <1>13 DEF Sound, f

--------------------------------------------------------------------------------
(* The mutations.                                                          *)

(* Any part of a sequence is a sequence of the same words.                 *)
LEMMA PartOf ==
    ASSUME NEW W, NEW s \in Seq(W), NEW m \in Int, NEW n \in Int, m >= 1, n <= Len(s)
    PROVE  SubSeq(s, m, n) \in Seq(W)
<1>1. \A i \in m .. n : s[i] \in W
  <2>1. Len(s) \in Nat /\ s \in [1 .. Len(s) -> W]
    BY LenProperties
  <2>2. \A i \in m .. n : i \in 1 .. Len(s)
    BY <2>1
  <2>3. QED
    BY <2>1, <2>2
<1>2. QED
  BY <1>1, SubSeqProperties

(* Removing a word and inserting one give sequences of words again.        *)
LEMMA Mutated ==
    ASSUME NEW s \in Seq(Word), NEW i \in Nat, i >= 1
    PROVE  /\ i <= Len(s) => RemoveAt(s, i) \in Seq(Word)
           /\ (i <= Len(s) \/ i = 1) => \A w \in Word : InsertAt(s, i, w) \in Seq(Word)
<1>1. Len(s) \in Nat
  BY LenProperties
<1>2. (i <= Len(s) \/ i = 1) => SubSeq(s, 1, i - 1) \in Seq(Word)
  BY <1>1, PartOf
<1>3. SubSeq(s, i, Len(s)) \in Seq(Word) /\ SubSeq(s, i + 1, Len(s)) \in Seq(Word)
  BY <1>1, PartOf
<1>4. i <= Len(s) => RemoveAt(s, i) \in Seq(Word)
  BY <1>2, <1>3, ConcatProperties DEF RemoveAt
<1>5. ASSUME i <= Len(s) \/ i = 1, NEW w \in Word
      PROVE  InsertAt(s, i, w) \in Seq(Word)
  <2>1. <<w>> \in Seq(Word)
    OBVIOUS
  <2>2. SubSeq(s, 1, i - 1) \o <<w>> \in Seq(Word)
    BY <1>2, <1>5, <2>1, ConcatProperties
  <2>3. QED
    BY <1>3, <2>2, ConcatProperties DEF InsertAt
<1>6. QED
  BY <1>4, <1>5

(* The mutable part of a sound sequence is a sequence of words.            *)
LEMMA MutablePart ==
    ASSUME NEW q, Sound(q)
    PROVE  /\ SubSeq(q.image, Pre + 1, q.end) \in Seq(Word)
           /\ \A i \in 1 .. Pre : SubSeq(q.image, 1, Pre)[i] = "op"
<1>1. Size \in Nat /\ Pre \in Nat /\ Pre >= 1 /\ Pre < Size
  BY Constants
<1>2. /\ q.image \in [1 .. Size -> Word] /\ q.end \in Pre .. Size - 1
      /\ \A i \in 1 .. Pre : q.image[i] = "op"
  BY DEF Sound, Sequence
<1>3. \A i \in Pre + 1 .. q.end : q.image[i] \in Word
  BY <1>1, <1>2
<1>4. SubSeq(q.image, Pre + 1, q.end) \in Seq(Word)
  BY <1>1, <1>2, <1>3, SubSeqProperties
<1>5. \A i \in 1 .. Pre - 1 + 1 : SubSeq(q.image, 1, Pre)[i] = q.image[1 + i - 1]
  BY <1>1, <1>2, SubSeqProperties
<1>6. QED
  BY <1>1, <1>2, <1>4, <1>5

--------------------------------------------------------------------------------
(* The inductive invariant.  The bins that are full are covered, which is  *)
(* why a run whose detectors' bins are all full can be turned away; every  *)
(* sequence at hand is sound, the parent of a mutation too.                *)

Covered ==
    /\ DOMAIN archive \subseteq coverage \cup {NoBin}
    /\ seen \subseteq coverage \cup (IF phase = "archive" THEN DOMAIN summary ELSE {})

AllSound ==
    /\ \A b \in DOMAIN archive : Sound(archive[b])
    /\ \A b \in DOMAIN archive \ {Corrupted} : Paused(archive[b])
    /\ Sound(current) /\ Sound(parent)

OrchInv == OrchestratorTypeOK /\ Covered /\ AllSound

(* A blank image is sound.                                                 *)
LEMMA BlankSound == Sound(Blank)
<1>1. <<>> \in Seq(Word) /\ Len(<<>>) = 0
  BY EmptySeq
<1>2. Pre + Len(<<>>) <= Size - 1
  BY <1>1, Constants
<1>3. \A i \in 1 .. Pre : [j \in 1 .. Pre |-> "op"][i] = "op"
  OBVIOUS
<1>4. QED
  BY <1>1, <1>2, <1>3, LayoutSound DEF Blank

(* No detector is active before the first run.                             *)
LEMMA NoSummary == << >> \in Summaries /\ DOMAIN << >> = {}
<1>1. DOMAIN << >> = {}
  OBVIOUS
<1>2. << >> \in [{} -> 1 .. MaxCount]
  OBVIOUS
<1>3. QED
  BY <1>1, <1>2 DEF Summaries

(* The invariant holds before the first iteration.                         *)
LEMMA OrchInvInit == Init => OrchInv
<1> SUFFICES ASSUME Init PROVE OrchInv
  OBVIOUS
<1>1. DOMAIN archive = {} /\ DOMAIN fitness = {}
  BY NoSummary DEF Init
<1>2. Sound(Blank) /\ Blank \in Sequence
  BY BlankSound DEF Sound
<1>3. summary \in Summaries
  BY NoSummary DEF Init
<1>4. insts \in Seq(Word)
  BY EmptySeq DEF Init
<1>5. inserts \in 0 .. MaxInserts /\ rounds \in 0 .. MaxRounds
  BY OrchestratorConstants DEF Init
<1>6. OrchestratorTypeOK
  BY <1>1, <1>2, <1>3, <1>4, <1>5 DEF Init, OrchestratorTypeOK
<1>7. Covered /\ AllSound
  BY <1>1, <1>2 DEF Init, Covered, AllSound
<1>8. QED
  BY <1>6, <1>7 DEF OrchInv

(* An offered sequence is archived sound, or turned away because every bin *)
(* of its run is full and so covered already (AddIfNovel).                 *)
LEMMA OfferKept ==
    ASSUME OrchInv, AddIfNovel
    PROVE  OrchInv'
<1> DEFINE bin  == ExtractDescriptor(summary)
           fit  == Cardinality(DOMAIN summary)
           kept == IF bin = Corrupted THEN current ELSE PerformPhase2Finalize(current)
<1>1. OrchestratorTypeOK /\ Covered /\ AllSound
  BY DEF OrchInv
<1>2. summary \in Summaries /\ DOMAIN summary \subseteq Detectors
  BY <1>1 DEF OrchestratorTypeOK, Summaries
<1>3. fit \in Nat
  BY <1>2, OrchestratorConstants, FS_Subset, FS_CardinalityType
<1>4. /\ bin \in DOMAIN summary \cup {NoBin}
      /\ DOMAIN summary \subseteq DOMAIN archive \/ bin \notin DOMAIN archive
  BY <1>2, BinOfRun
<1>5. Sound(kept) /\ (bin # Corrupted => Paused(kept))
  BY <1>1, FinalizeSound DEF AllSound
<1>6. kept \in Sequence
  BY <1>5 DEF Sound
<1>7. /\ phase = "archive" /\ phase' = "search" /\ current' = Blank /\ summary' = << >>
      /\ UNCHANGED <<parent, insts, inserts, rounds, seen>>
  BY DEF AddIfNovel, mutation
<1>8. /\ Sound(current') /\ current' \in Sequence /\ Sound(parent')
      /\ summary' \in Summaries
  <2>1. Sound(Blank) /\ Sound(parent)
    BY <1>1, BlankSound DEF AllSound
  <2>2. QED
    BY <1>7, <2>1, NoSummary DEF Sound
<1> HIDE DEF bin, fit, kept
<1>9. CASE /\ Novel(bin, fit)
           /\ archive' = [b \in DOMAIN archive \cup {bin} |->
                             IF b = bin THEN kept ELSE archive[b]]
           /\ fitness' = [b \in DOMAIN fitness \cup {bin} |->
                             IF b = bin THEN fit ELSE fitness[b]]
           /\ coverage' = coverage \cup DOMAIN summary
  <2>1. DOMAIN archive' = DOMAIN archive \cup {bin} /\ DOMAIN fitness' = DOMAIN archive'
    BY <1>1, <1>9 DEF OrchestratorTypeOK
  <2>2. \A b \in DOMAIN archive' :
            /\ archive'[b] = IF b = bin THEN kept ELSE archive[b]
            /\ fitness'[b] = IF b = bin THEN fit ELSE fitness[b]
    BY <1>9, <2>1
  <2>3. \A b \in DOMAIN archive' : archive'[b] \in Sequence /\ fitness'[b] \in Nat
    BY <1>1, <1>3, <1>6, <2>1, <2>2 DEF OrchestratorTypeOK
  <2>4. bin \in Bins
    BY <1>2, <1>4 DEF Bins
  <2>5. OrchestratorTypeOK'
    BY <1>1, <1>2, <1>7, <1>8, <1>9, <2>1, <2>3, <2>4 DEF OrchestratorTypeOK
  <2>6. Covered'
    BY <1>1, <1>4, <1>7, <1>9, <2>1 DEF Covered
  <2>7. AllSound'
    BY <1>1, <1>5, <1>8, <2>1, <2>2 DEF AllSound
  <2>8. QED
    BY <2>5, <2>6, <2>7 DEF OrchInv
<1>10. CASE ~Novel(bin, fit) /\ UNCHANGED <<archive, fitness, coverage>>
  <2>1. DOMAIN summary \subseteq DOMAIN archive
    BY <1>4, <1>10 DEF Novel
  <2>2. DOMAIN summary \subseteq coverage
    BY <1>1, <1>2, <2>1, OrchestratorConstants DEF Covered, NoBin
  <2>3. OrchestratorTypeOK'
    BY <1>1, <1>7, <1>8, <1>10 DEF OrchestratorTypeOK
  <2>4. Covered'
    BY <1>1, <1>7, <1>10, <2>2 DEF Covered
  <2>5. AllSound'
    BY <1>1, <1>8, <1>10 DEF AllSound
  <2>6. QED
    BY <2>3, <2>4, <2>5 DEF OrchInv
<1>11. QED
  BY <1>9, <1>10 DEF AddIfNovel, bin, fit, kept

(* Every step keeps the invariant.                                         *)
LEMMA OrchInvStep == OrchInv /\ [Next]_vars => OrchInv'
<1> SUFFICES ASSUME OrchInv, [Next]_vars PROVE OrchInv'
  OBVIOUS
<1> USE DEF OrchInv
<1>1. Sound(Blank) /\ Blank \in Sequence
  BY BlankSound DEF Sound
<1>2. CASE MutateSequence
  <2>1. Sound(current')
    <3>1. CASE TooLong(insts)
      BY <1>2, <3>1 DEF MutateSequence, AllSound
    <3>2. CASE ~TooLong(insts)
      <4>1. insts \in Seq(Word) /\ Pre + Len(insts) <= Size - 1
        <5>1. Len(insts) \in Nat /\ insts \in Seq(Word)
          BY LenProperties DEF OrchestratorTypeOK
        <5>2. QED
          BY <3>2, <5>1, Constants DEF TooLong
      <4>2. \A i \in 1 .. Pre : SubSeq(parent.image, 1, Pre)[i] = "op"
        BY MutablePart DEF AllSound
      <4>3. Sound(Layout(SubSeq(parent.image, 1, Pre), insts))
        BY <4>1, <4>2, LayoutSound
      <4>4. QED
        BY <1>2, <3>2, <4>3 DEF MutateSequence
    <3>3. QED
      BY <3>1, <3>2
  <2>2. /\ phase' = "simulate" /\ phase = "mutate"
        /\ parent' = Blank /\ insts' = <<>> /\ inserts' = 0
        /\ UNCHANGED <<archive, fitness, coverage, seen, summary, rounds>>
    BY <1>2 DEF MutateSequence, found
  <2>3. insts' \in Seq(Word) /\ inserts' \in 0 .. MaxInserts
    BY <2>2, EmptySeq, OrchestratorConstants
  <2>4. OrchestratorTypeOK'
    BY <1>1, <2>1, <2>2, <2>3 DEF OrchestratorTypeOK, Sound
  <2>5. QED
    BY <1>1, <2>1, <2>2, <2>4 DEF Covered, AllSound
<1>3. CASE AddIfNovel
  BY <1>3, OfferKept
<1>4. CASE UNCHANGED vars
  BY <1>4 DEF vars, found, mutation, OrchestratorTypeOK, Covered, AllSound
<1>5. ASSUME NEW payload \in Payloads, GenerateRandomSequence(payload) PROVE OrchInv'
  <2>1. payload \in Seq(Word) /\ Pre + Len(payload) <= Size - 1
    <3>1. payload \in Seq({"op", "nop"}) /\ Pre + Len(payload) < Size
      BY <1>5, OrchestratorConstants
    <3>2. Len(payload) \in Nat /\ payload \in [1 .. Len(payload) -> {"op", "nop"}]
      BY <3>1, LenProperties
    <3>3. payload \in Seq(Word)
      BY <3>2 DEF Word
    <3>4. QED
      BY <3>1, <3>2, <3>3, Constants
  <2>2. \A i \in 1 .. Pre : [j \in 1 .. Pre |-> "op"][i] = "op"
    OBVIOUS
  <2>3. Sound(Layout([j \in 1 .. Pre |-> "op"], payload))
    BY <2>1, <2>2, LayoutSound
  <2>4. /\ phase' = "simulate" /\ phase = "search" /\ rounds < MaxRounds
        /\ rounds' = rounds + 1
        /\ UNCHANGED <<archive, fitness, coverage, seen, parent, insts, inserts, summary>>
    BY <1>5 DEF GenerateRandomSequence, found, mutation
  <2>5. Sound(current') /\ current' \in Sequence
    BY <1>5, <2>3 DEF GenerateRandomSequence, Sound
  <2>6. rounds' \in 0 .. MaxRounds
    BY <2>4, OrchestratorConstants DEF OrchestratorTypeOK
  <2>7. OrchestratorTypeOK'
    BY <2>4, <2>5, <2>6 DEF OrchestratorTypeOK
  <2>8. QED
    BY <2>4, <2>5, <2>7 DEF Covered, AllSound
<1>6. ASSUME NEW bin \in DOMAIN archive, SelectParent(bin) PROVE OrchInv'
  <2>1. Sound(archive[bin])
    BY <1>6 DEF AllSound
  <2>2. /\ phase' = "mutate" /\ phase = "search" /\ rounds < MaxRounds
        /\ rounds' = rounds + 1 /\ parent' = archive[bin]
        /\ UNCHANGED <<archive, fitness, coverage, seen, current, inserts, summary>>
    BY <1>6 DEF SelectParent, found
  <2>3. insts' \in Seq(Word)
    BY <1>6, <2>1, MutablePart DEF SelectParent
  <2>4. rounds' \in 0 .. MaxRounds
    BY <2>2, OrchestratorConstants DEF OrchestratorTypeOK
  <2>5. OrchestratorTypeOK'
    BY <2>1, <2>2, <2>3, <2>4 DEF OrchestratorTypeOK, Sound
  <2>6. QED
    BY <2>1, <2>2, <2>5 DEF Covered, AllSound
<1>7. ASSUME NEW i \in 1 .. Len(insts), DropInstruction(i) PROVE OrchInv'
  <2>1. insts' \in Seq(Word)
    <3>1. insts \in Seq(Word) /\ Len(insts) \in Nat
      BY LenProperties DEF OrchestratorTypeOK
    <3>2. i \in Nat /\ i >= 1 /\ i <= Len(insts)
      BY <3>1
    <3>3. QED
      BY <1>7, <3>1, <3>2, Mutated DEF DropInstruction
  <2>2. UNCHANGED <<archive, fitness, coverage, seen, phase, current, parent, inserts,
                    summary, rounds>>
    BY <1>7 DEF DropInstruction, found
  <2>3. OrchestratorTypeOK'
    BY <2>1, <2>2 DEF OrchestratorTypeOK
  <2>4. QED
    BY <2>2, <2>3 DEF Covered, AllSound
<1>8. ASSUME NEW word \in Injected, NEW i \in 1 .. (IF insts = <<>> THEN 1 ELSE Len(insts)),
             InsertInstruction(word, i)
      PROVE  OrchInv'
  <2>1. insts' \in Seq(Word)
    <3>1. insts \in Seq(Word) /\ Len(insts) \in Nat
      BY LenProperties DEF OrchestratorTypeOK
    <3>2. i \in Nat /\ i >= 1 /\ (i <= Len(insts) \/ i = 1)
      BY <3>1
    <3>3. word \in Word
      BY OrchestratorConstants DEF Word
    <3>4. QED
      BY <1>8, <3>1, <3>2, <3>3, Mutated DEF InsertInstruction
  <2>2. /\ inserts < MaxInserts /\ inserts' = inserts + 1
        /\ UNCHANGED <<archive, fitness, coverage, seen, phase, current, parent,
                       summary, rounds>>
    BY <1>8 DEF InsertInstruction, found
  <2>3. inserts' \in 0 .. MaxInserts
    BY <2>2, OrchestratorConstants DEF OrchestratorTypeOK
  <2>4. OrchestratorTypeOK'
    BY <2>1, <2>2, <2>3 DEF OrchestratorTypeOK
  <2>5. QED
    BY <2>2, <2>4 DEF Covered, AllSound
<1>9. ASSUME NEW s \in Summaries, RunRandomSimulation(s) PROVE OrchInv'
  <2>1. DOMAIN s \subseteq Detectors
    BY DEF Summaries
  <2>2. /\ phase = "simulate" /\ phase' = "archive" /\ summary' = s
        /\ seen' = seen \cup DOMAIN s
        /\ UNCHANGED <<archive, fitness, coverage, current, parent, insts, inserts, rounds>>
    BY <1>9 DEF RunRandomSimulation, mutation
  <2>3. OrchestratorTypeOK'
    BY <2>1, <2>2 DEF OrchestratorTypeOK
  <2>4. QED
    BY <2>2, <2>3 DEF Covered, AllSound
<1>10. QED
  BY <1>2, <1>3, <1>4, <1>5, <1>6, <1>7, <1>8, <1>9 DEF Next, Done

--------------------------------------------------------------------------------
(* The theorems.                                                           *)

(* The invariant holds throughout the evolution loop.                      *)
LEMMA OrchInvHolds == Spec => []OrchInv
BY OrchInvInit, OrchInvStep, PTL DEF Spec

(* No detector that was ever active is lost (ExtractDescriptor prefers the *)
(* empty bins, AddIfNovel adds the whole run to global_coverage_).         *)
THEOREM NoDiscoveryLost == Spec => []CoverageComplete
<1>1. OrchInv => CoverageComplete
  BY DEF OrchInv, Covered, CoverageComplete
<1>2. QED
  BY <1>1, OrchInvHolds, PTL

(* Every archived image and the current one can be run, after any number   *)
(* of mutations and of checks written into them.                           *)
THEOREM ImagesStayWellFormed == Spec => []ImageWellFormed
<1>1. ASSUME OrchInv PROVE ImageWellFormed
  <2>1. \A image \in Images : /\ \A i \in 1 .. Pre : image[i] = "op"
                              /\ Exits(image)
    BY <1>1 DEF OrchInv, AllSound, Images, Sound
  <2>2. PreambleIntact /\ ExitKept
    BY <2>1 DEF PreambleIntact, ExitKept, Exits
  <2>3. ChecksEndInPause
    BY <1>1 DEF OrchInv, AllSound, Paused, ChecksEndInPause
  <2>4. QED
    BY <1>1, <2>2, <2>3 DEF OrchInv, ImageWellFormed
<1>2. QED
  BY <1>1, OrchInvHolds, PTL

--------------------------------------------------------------------------------
(* The verdict of a simulation.                                            *)

Insts   == {text[a] : a \in DOMAIN text}
Vectors == {[vl |-> 1, group |-> 1]} \cup {i.vset : i \in Insts}
Entries == [inst : Insts, vs : Vectors]

(* What the last instruction of the trace has left behind.  Its kind and   *)
(* the flags that the loop tests are separate pieces of state: the verdict *)
(* is about the one and is computed from the others.                       *)
Outcome(kind) ==
    /\ kind = "plain" => captured = 0 /\ ok = TRUE /\ reason = "none" /\ simpc \in DOMAIN text
    /\ kind = "trap" => /\ captured # 0 /\ ok = TRUE /\ reason = "none"
                        /\ mtvec = Handler => simpc = Handler
    /\ kind \in {"mpause", "ebreak"} => captured = 0 /\ ok = TRUE /\ reason = "user"
    /\ kind = "fault" => ok = FALSE
    /\ kind = "mpause" => FoundMpause

SimTypeOK ==
    /\ text \in SimPrograms
    /\ ran \in Seq(Entries) /\ vector \in Vectors
    /\ executed = Len(ran) /\ executed <= StepLimit
    /\ verdict \in {"running", "success", "failure"}

Trace ==
    /\ ran = <<>> => Outcome("plain")
    /\ ran # <<>> => Outcome(ran[Len(ran)].inst.kind)
    /\ \A k \in 1 .. Len(ran) - 1 : ran[k].inst.kind = "plain"

Judged ==
    verdict # "running" =>
        /\ ~LoopGoesOn
        /\ verdict = "success" <=> (ok /\ ~TimedOut /\ FoundMpause)

RunInv == SimTypeOK /\ Trace /\ Judged

(* The invariant holds when the program is loaded.                         *)
LEMMA RunInit == SimInit => RunInv
<1> SUFFICES ASSUME SimInit PROVE RunInv
  OBVIOUS
<1>1. 0 \in DOMAIN text /\ StepLimit \in Nat
  BY SimAssumption DEF SimInit
<1>2. Outcome("plain")
  BY <1>1 DEF SimInit, Outcome
<1>3. SimTypeOK
  BY <1>1 DEF SimInit, SimTypeOK, Vectors
<1>4. QED
  BY <1>2, <1>3 DEF RunInv, Trace, Judged, SimInit

(* The trace with one more entry.                                          *)
LEMMA OneMore ==
    ASSUME NEW S, NEW s \in Seq(S), NEW e \in S
    PROVE  /\ Append(s, e) \in Seq(S) /\ Append(s, e) # <<>>
           /\ Len(Append(s, e)) = Len(s) + 1
           /\ Append(s, e)[Len(s) + 1] = e
           /\ \A k \in 1 .. Len(s) : Append(s, e)[k] = s[k]
  OBVIOUS

(* A step of the core leaves behind what its instruction says.             *)
LEMMA StepOutcome ==
    ASSUME RunInv, SimStep, NEW inst, inst = text[simpc]
    PROVE  /\ simpc \in DOMAIN text /\ Outcome(inst.kind)'
           /\ \A k \in 1 .. Len(ran) : ran[k].inst.kind = "plain"
<1>1. /\ text \in SimPrograms /\ text' = text /\ LoopGoesOn /\ StepOne(text[simpc])
      /\ text[simpc].kind # "plain" => mtvec' = mtvec
  BY DEF SimStep, RunInv, SimTypeOK
<1>2. ran # <<>> => ran[Len(ran)].inst.kind = "plain"
  <2> SUFFICES ASSUME ran # <<>> PROVE ran[Len(ran)].inst.kind = "plain"
    OBVIOUS
  <2>1. Len(ran) \in 1 .. Len(ran) /\ ran[Len(ran)] \in Entries
    BY DEF RunInv, SimTypeOK
  <2>2. ran[Len(ran)].inst \in Insts
    BY <2>1 DEF Entries
  <2>3. ran[Len(ran)].inst.kind \in {"plain", "trap", "mpause", "ebreak", "fault"}
    BY <1>1, <2>2, SimAssumption DEF Insts
  <2>4. Outcome(ran[Len(ran)].inst.kind)
    BY DEF RunInv, Trace
  <2>5. QED
    BY <1>1, <2>3, <2>4 DEF Outcome, LoopGoesOn
<1>3. Outcome("plain")
  BY <1>2 DEF RunInv, Trace
<1>4. /\ simpc \in DOMAIN text /\ captured = 0 /\ ok = TRUE /\ reason = "none"
  BY <1>3 DEF Outcome
<1>5. \A k \in 1 .. Len(ran) : ran[k].inst.kind = "plain"
  <2> SUFFICES ASSUME NEW k \in 1 .. Len(ran) PROVE ran[k].inst.kind = "plain"
    OBVIOUS
  <2>1. Len(ran) \in Nat /\ (k = Len(ran) \/ k \in 1 .. Len(ran) - 1)
    BY DEF RunInv, SimTypeOK
  <2>2. k = Len(ran) => ran # <<>>
    BY DEF RunInv, SimTypeOK
  <2>3. QED
    BY <1>2, <2>1, <2>2 DEF RunInv, Trace
<1>6. /\ inst.kind \in {"plain", "trap", "mpause", "ebreak", "fault"}
      /\ inst.next \subseteq DOMAIN text /\ simpc \in Nat
      /\ inst.kind = "trap" => inst.epc # 0
  BY <1>1, <1>4, SimAssumption
<1>7. Outcome(inst.kind)'
  <2> USE DEF Outcome, StepOne, CaptureTrap
  <2>1. CASE inst.kind = "plain"
    BY <1>1, <1>4, <1>6, <2>1
  <2>2. CASE inst.kind = "trap"
    BY <1>1, <1>4, <1>6, <2>2
  <2>3. CASE inst.kind = "ebreak"
    BY <1>1, <1>4, <1>6, <2>3
  <2>4. CASE inst.kind = "fault"
    BY <1>1, <1>4, <1>6, <2>4
  <2>5. CASE inst.kind = "mpause"
    <3>1. FoundMpause'
      BY <1>1, <1>4, <1>6, <2>5 DEF FoundMpause
    <3>2. QED
      BY <1>1, <1>4, <1>6, <2>5, <3>1
  <2>6. QED
    BY <1>6, <2>1, <2>2, <2>3, <2>4, <2>5
<1>8. QED
  BY <1>4, <1>5, <1>7

(* Every turn of the loop, and the return, keep the invariant.             *)
LEMMA RunStep == RunInv /\ [SimNext]_simvars => RunInv'
<1> SUFFICES ASSUME RunInv, [SimNext]_simvars PROVE RunInv'
  OBVIOUS
<1>1. CASE SimStep
  <2>0. PICK inst, e : inst = text[simpc] /\ e = [inst |-> inst, vs |-> vector]
    OBVIOUS
  <2>1. /\ simpc \in DOMAIN text /\ Outcome(inst.kind)'
        /\ \A k \in 1 .. Len(ran) : ran[k].inst.kind = "plain"
    BY <1>1, <2>0, StepOutcome
  <2>2. /\ verdict = "running" /\ LoopGoesOn /\ executed' = executed + 1
        /\ vector' = IF inst.vset = NoVset THEN vector ELSE inst.vset
        /\ ran' = Append(ran, e) /\ text' = text /\ verdict' = verdict
    BY <1>1, <2>0 DEF SimStep
  <2>3. inst \in Insts /\ e \in Entries
    BY <2>0, <2>1 DEF Insts, Entries, RunInv, SimTypeOK
  <2>4. ran \in Seq(Entries) /\ Len(ran) \in Nat
    BY DEF RunInv, SimTypeOK
  <2>5. /\ ran' \in Seq(Entries) /\ ran' # <<>> /\ Len(ran') = Len(ran) + 1
        /\ ran'[Len(ran')] = e /\ \A k \in 1 .. Len(ran) : ran'[k] = ran[k]
    BY <2>2, <2>3, <2>4, OneMore
  <2>6. Insts' = Insts /\ Vectors' = Vectors /\ Entries' = Entries
    BY <2>2 DEF Insts, Vectors, Entries
  <2>7. SimTypeOK'
    <3>1. vector' \in Vectors
      BY <2>2, <2>3 DEF RunInv, SimTypeOK, Vectors
    <3>2. executed' = Len(ran') /\ executed' <= StepLimit
      BY <2>2, <2>4, <2>5, SimAssumption DEF RunInv, SimTypeOK, LoopGoesOn
    <3>3. QED
      BY <2>2, <2>5, <2>6, <3>1, <3>2 DEF RunInv, SimTypeOK
  <2>8. Trace'
    <3>1. e.inst = inst
      BY <2>0
    <3>2. \A k \in 1 .. Len(ran') - 1 : ran'[k].inst.kind = "plain"
      BY <2>1, <2>4, <2>5
    <3>3. ran'[Len(ran')].inst.kind = inst.kind
      BY <2>5, <3>1
    <3>4. PICK kind : kind = inst.kind
      OBVIOUS
    <3>5. Outcome(kind)' /\ ran'[Len(ran')].inst.kind = kind
      BY <2>1, <3>3, <3>4
    <3>6. QED
      BY <2>5, <3>2, <3>5 DEF Trace
  <2>9. QED
    BY <2>2, <2>7, <2>8 DEF RunInv, Judged
<1>2. CASE SimReturn
  <2>1. /\ ~LoopGoesOn
        /\ verdict' = IF ok /\ ~TimedOut /\ FoundMpause THEN "success" ELSE "failure"
        /\ UNCHANGED <<text, simpc, vector, mtvec, executed, captured, reason, ok, ran>>
    BY <1>2 DEF SimReturn
  <2>2. SimTypeOK'
    BY <2>1 DEF RunInv, SimTypeOK, Insts, Vectors, Entries
  <2>3. Trace'
    BY <2>1 DEF RunInv, Trace, Outcome, FoundMpause
  <2>4. Judged'
    BY <2>1 DEF Judged, LoopGoesOn, TimedOut, FoundMpause
  <2>5. QED
    BY <2>2, <2>3, <2>4 DEF RunInv
<1>3. CASE UNCHANGED simvars
  BY <1>3 DEF simvars, RunInv, SimTypeOK, Trace, Judged, Outcome, Insts, Vectors, Entries,
              LoopGoesOn, TimedOut, FoundMpause
<1>4. QED
  BY <1>1, <1>2, <1>3 DEF SimNext

(* What the flags say is what the trace says.                              *)
LEMMA JudgedRight == RunInv => RunJudged
<1> SUFFICES ASSUME RunInv PROVE RunJudged
  OBVIOUS
<1>1. \A k \in 1 .. Len(ran) - 1 : ran[k].inst.kind = "plain"
  BY DEF RunInv, Trace
<1> DEFINE last == Last(ran).inst.kind
<1>2. ASSUME verdict \in {"success", "failure"}
      PROVE  /\ last = "mpause" => verdict = "success"
             /\ last \in {"plain", "fault"} => verdict = "failure"
             /\ last = "trap" /\ (executed = StepLimit \/ mtvec = Handler)
                  => verdict = "failure"
             /\ verdict = "success" =>
                   \E a \in {simpc, simpc - 1} \cap DOMAIN text : text[a].kind = "mpause"
  <2>1. /\ ~LoopGoesOn /\ StepLimit \in Nat \ {0}
        /\ executed \in Nat /\ executed <= StepLimit /\ executed = Len(ran)
        /\ verdict = "success" <=> (ok /\ ~TimedOut /\ FoundMpause)
    BY <1>2, SimAssumption DEF RunInv, SimTypeOK, Judged
  <2>2. ran # <<>>
    BY <2>1 DEF RunInv, Trace, Outcome, LoopGoesOn
  <2>3. Outcome(last)
    BY <2>2 DEF RunInv, Trace, Last
  <2> HIDE DEF last
  <2>4. last = "mpause" => verdict = "success"
    BY <1>2, <2>1, <2>3 DEF Outcome, TimedOut
  <2>5. last = "plain" => verdict = "failure"
    BY <1>2, <2>1, <2>3 DEF Outcome, TimedOut, LoopGoesOn
  <2>6. last = "fault" => verdict = "failure"
    BY <1>2, <2>1, <2>3 DEF Outcome
  <2>7. last = "trap" /\ executed = StepLimit => verdict = "failure"
    BY <1>2, <2>1, <2>3 DEF Outcome, TimedOut
  <2>8. last = "trap" /\ mtvec = Handler => verdict = "failure"
    <3> SUFFICES ASSUME last = "trap", mtvec = Handler PROVE ~FoundMpause
      BY <1>2, <2>1
    <3>1. simpc = Handler
      BY <2>3 DEF Outcome
    <3>2. text \in SimPrograms
      BY DEF RunInv, SimTypeOK
    <3>3. text[Handler].kind = "plain" /\ text[Handler - 1].kind = "plain"
      BY <3>2, SimAssumption
    <3>4. QED
      BY <3>1, <3>3 DEF FoundMpause
  <2>9. verdict = "success" => FoundMpause
    BY <2>1
  <2>10. QED
    BY <2>4, <2>5, <2>6, <2>7, <2>8, <2>9 DEF FoundMpause
<1>3. QED
  BY <1>1, <1>2 DEF RunJudged

(* RunRandomSimulation judges every run by what ended it: the loop steps   *)
(* nothing behind a trap, a halt or an error, a run that ends in its       *)
(* mpause succeeds even with the last step that the limit allows, and one  *)
(* that timed out, failed, or trapped under the preamble's own handler     *)
(* does not.                                                               *)
THEOREM RunsAreJudged == SimSpec => []RunJudged
<1>1. SimSpec => []RunInv
  BY RunInit, RunStep, PTL DEF SimSpec
<1>2. QED
  BY <1>1, JudgedRight, PTL

--------------------------------------------------------------------------------
(* The counts of the tracker.                                              *)

Instructions == UNION {{p[a] : a \in DOMAIN p} : p \in SimPrograms}
Shownable    == [inst : Instructions, vs : VectorStates]

(* The registers that an entry of the trace writes.                        *)
WrittenBy(e) == Written(e.inst, e.vs)

(* Among the first n entries of trace s, entry w is the last one that      *)
(* writes register r.                                                      *)
LastWriter(s, r, w, n) ==
    /\ w \in 1 .. n /\ r \in WrittenBy(s[w])
    /\ \A x \in w + 1 .. n : r \notin WrittenBy(s[x])

(* The reads of entry j whose last writer is d back, for any trace s.      *)
ReadsAt(s, j, d) ==
    {p \in {j} \X (DOMAIN s[j].inst.src) \X (0 .. NumVectors - 1) :
        /\ p[3] < GroupSize(s[j].inst.src[p[2]], s[j].vs)
        /\ LastWriter(s, ExpandVectorReg(s[j].inst.src[p[2]], p[3]), j - d, j - 1)}

AllReads(s, d) == UNION {ReadsAt(s, j, d) : j \in d + 1 .. Len(s)}

(* What the assumption says of one instruction.                            *)
LEMMA InstructionType ==
    ASSUME NEW e \in Shownable
    PROVE  /\ e.inst.src \in Seq(Operands) /\ e.inst.dst \in Seq(Operands)
           /\ e.inst.op \in Opcodes /\ e.vs \in VectorStates
           /\ e.inst.vset \in VectorStates \cup {NoVset}
<1>1. PICK p, a : p \in SimPrograms /\ a \in DOMAIN p /\ e.inst = p[a]
  BY DEF Shownable, Instructions
<1>2. p[a].op \in Opcodes
  BY <1>1 DEF Opcodes
<1>3. QED
  BY <1>1, <1>2, SimAssumption DEF Shownable

(* How many registers an operand stands for.                               *)
LEMMA GroupSizeIs ==
    ASSUME NEW o \in Operands, NEW vs \in VectorStates, NEW i \in 0 .. NumVectors - 1
    PROVE  i < GroupSize(o, vs) <=>
             /\ o.obj /\ (o.file \in {"v", "vstart"} => vs.vl # 0)
             /\ IF o.file = "v" THEN i < vs.group ELSE i = 0
<1>1. o.obj \in BOOLEAN /\ vs.vl \in Nat /\ vs.group \in 1 .. NumVectors /\ i \in Nat
  BY SimAssumption DEF Operands, VectorStates
<1>2. CASE ~o.obj
  BY <1>1, <1>2 DEF GroupSize
<1>3. CASE o.obj /\ o.file \in {"v", "vstart"} /\ vs.vl = 0
  BY <1>1, <1>3 DEF GroupSize
<1>4. CASE o.obj /\ o.file = "v" /\ vs.vl # 0
  BY <1>1, <1>4 DEF GroupSize
<1>5. CASE o.obj /\ o.file # "v" /\ (o.file = "vstart" => vs.vl # 0)
  BY <1>1, <1>5 DEF GroupSize
<1>6. QED
  BY <1>1, <1>2, <1>3, <1>4, <1>5

(* The reference's writers are the entries whose registers are recorded.   *)
LEMMA WritesIs ==
    ASSUME NEW e \in Shownable, NEW file, NEW r
    PROVE  Writes(e, file, r) <=> <<file, r>> \in WrittenBy(e)
<1>1. /\ e.inst.dst \in Seq(Operands) /\ e.vs \in VectorStates
  BY InstructionType
<1>2. e.vs.group \in 1 .. NumVectors /\ NumVectors \in Nat
  BY <1>1, SimAssumption DEF VectorStates
<1>3. ASSUME Writes(e, file, r) PROVE <<file, r>> \in WrittenBy(e)
  <2>1. PICK k \in DOMAIN e.inst.dst :
          /\ e.inst.dst[k].obj /\ e.inst.dst[k].file = file
          /\ file \in {"v", "vstart"} => e.vs.vl # 0
          /\ IF file = "v" THEN InGroup(r, e.inst.dst[k].n, e.vs.group) ELSE e.inst.dst[k].n = r
    BY <1>3 DEF Writes
  <2>2. e.inst.dst[k] \in Operands
    BY <1>1, <2>1
  <2>3. PICK i \in 0 .. NumVectors - 1 :
          /\ IF file = "v" THEN i < e.vs.group ELSE i = 0
          /\ r = IF file = "v" THEN (e.inst.dst[k].n + i) % NumVectors ELSE e.inst.dst[k].n
    <3>1. CASE file = "v"
      BY <1>2, <2>1, <3>1 DEF InGroup
    <3>2. CASE file # "v"
      BY <1>2, <2>1, <3>2
    <3>3. QED
      BY <3>1, <3>2
  <2>4. i < GroupSize(e.inst.dst[k], e.vs)
    BY <1>1, <2>1, <2>2, <2>3, GroupSizeIs
  <2>5. <<k, i>> \in Registers(e.inst.dst, e.vs)
    BY <2>1, <2>3, <2>4 DEF Registers
  <2>6. <<file, r>> = ExpandVectorReg(e.inst.dst[k], i)
    BY <2>1, <2>3 DEF ExpandVectorReg
  <2>7. QED
    BY <2>5, <2>6 DEF WrittenBy, Written
<1>4. ASSUME <<file, r>> \in WrittenBy(e) PROVE Writes(e, file, r)
  <2>1. PICK p \in Registers(e.inst.dst, e.vs) :
          <<file, r>> = ExpandVectorReg(e.inst.dst[p[1]], p[2])
    BY <1>4 DEF WrittenBy, Written
  <2>2. PICK k, i : k = p[1] /\ i = p[2]
    OBVIOUS
  <2>3. k \in DOMAIN e.inst.dst /\ i \in 0 .. NumVectors - 1 /\ i < GroupSize(e.inst.dst[k], e.vs)
    BY <2>1, <2>2 DEF Registers
  <2>4. e.inst.dst[k] \in Operands
    BY <1>1, <2>3
  <2>5. /\ e.inst.dst[k].obj /\ (e.inst.dst[k].file \in {"v", "vstart"} => e.vs.vl # 0)
        /\ IF e.inst.dst[k].file = "v" THEN i < e.vs.group ELSE i = 0
    BY <1>1, <2>3, <2>4, GroupSizeIs
  <2>6. /\ file = e.inst.dst[k].file
        /\ r = IF file = "v" THEN (e.inst.dst[k].n + i) % NumVectors ELSE e.inst.dst[k].n
    BY <2>1, <2>2 DEF ExpandVectorReg
  <2>7. file = "v" => i \in 0 .. e.vs.group - 1
    BY <1>2, <2>3, <2>5, <2>6
  <2>8. IF file = "v" THEN InGroup(r, e.inst.dst[k].n, e.vs.group) ELSE e.inst.dst[k].n = r
    BY <2>6, <2>7 DEF InGroup
  <2>9. QED
    BY <2>3, <2>5, <2>6, <2>8 DEF Writes
<1>5. QED
  BY <1>3, <1>4

(* The reference's reads, over the trace as a parameter.                   *)
LEMMA ReadsBehindIs ==
    ASSUME shown \in Seq(Shownable), NEW d \in 1 .. 3
    PROVE  ReadsBehind(d) = AllReads(shown, d)
<1>1. ASSUME NEW j \in d + 1 .. Len(shown)
      PROVE  {p \in {j} \X (DOMAIN shown[j].inst.src) \X (0 .. NumVectors - 1) :
                ReadBehind(j, p[2], p[3], d)} = ReadsAt(shown, j, d)
  <2>1. /\ j \in 1 .. Len(shown) /\ shown[j] \in Shownable
        /\ j - d \in 1 .. j - 1 /\ \A x \in j - d .. j - 1 : shown[x] \in Shownable
    OBVIOUS
  <2>2. shown[j].inst.src \in Seq(Operands) /\ shown[j].vs \in VectorStates
    BY <2>1, InstructionType
  <2>3. ASSUME NEW k \in DOMAIN shown[j].inst.src, NEW i \in 0 .. NumVectors - 1
        PROVE  ReadBehind(j, k, i, d) <=>
                 /\ i < GroupSize(shown[j].inst.src[k], shown[j].vs)
                 /\ LastWriter(shown, ExpandVectorReg(shown[j].inst.src[k], i), j - d, j - 1)
    <3>1. PICK o : o = shown[j].inst.src[k]
      OBVIOUS
    <3>2. o \in Operands
      BY <2>2, <2>3, <3>1
    <3>3. PICK r : r = IF o.file = "v" THEN (o.n + i) % NumVectors ELSE o.n
      OBVIOUS
    <3>4. ExpandVectorReg(o, i) = <<o.file, r>>
      BY <3>3 DEF ExpandVectorReg
    <3>5. \A x \in j - d .. j - 1 : Writes(shown[x], o.file, r) <=> <<o.file, r>> \in WrittenBy(shown[x])
      BY <2>1, WritesIs
    <3>6. ReadBehind(j, k, i, d) <=>
             /\ o.obj /\ (o.file \in {"v", "vstart"} => shown[j].vs.vl # 0)
             /\ IF o.file = "v" THEN i < shown[j].vs.group ELSE i = 0
             /\ Writes(shown[j - d], o.file, r)
             /\ \A x \in j - d + 1 .. j - 1 : ~Writes(shown[x], o.file, r)
      BY <3>1, <3>3, Zenon DEF ReadBehind
    <3>7. i < GroupSize(o, shown[j].vs) <=>
             /\ o.obj /\ (o.file \in {"v", "vstart"} => shown[j].vs.vl # 0)
             /\ IF o.file = "v" THEN i < shown[j].vs.group ELSE i = 0
      BY <2>2, <3>2, GroupSizeIs
    <3>8. LastWriter(shown, <<o.file, r>>, j - d, j - 1) <=>
             /\ Writes(shown[j - d], o.file, r)
             /\ \A x \in j - d + 1 .. j - 1 : ~Writes(shown[x], o.file, r)
      <4>1. j - d \in j - d .. j - 1 /\ \A x \in j - d + 1 .. j - 1 : x \in j - d .. j - 1
        OBVIOUS
      <4>2. QED
        BY <2>1, <3>5, <4>1, Zenon DEF LastWriter
    <3>9. QED
      BY <3>1, <3>4, <3>6, <3>7, <3>8
  <2>4. QED
    BY <2>3 DEF ReadsAt
<1>2. QED
  BY <1>1 DEF ReadsBehind, AllReads

LastMaps == UNION {[S -> Nat] : S \in SUBSET (STRING \X Nat)}

Trackers ==
    [count : Nat, last : LastMaps, opcodes : [Opcodes -> Nat], hazards : [1 .. 3 -> Nat],
     csrs : [CountedCsrs -> Nat], pills : [PoisonPills -> Nat], corrupted : BOOLEAN]

(* last_written_cycle_ holds exactly the registers that a trace s of n     *)
(* entries writes, each with its last writer.                              *)
LastKept(last, s, n) ==
    /\ \A r \in DOMAIN last : LastWriter(s, r, last[r], n)
    /\ \A x \in 1 .. n : WrittenBy(s[x]) \subseteq DOMAIN last

(* How often a trace holds an opcode.                                      *)
Hit(e, op) == IF e.inst.op = op THEN 1 ELSE 0
Count(s, op) == Cardinality({j \in DOMAIN s : s[j].inst.op = op})

(* The parts of the invariant.                                             *)
HazardInv ==
    /\ vector \in VectorStates
    /\ shown \in Seq(Shownable) /\ tracker \in Trackers
    /\ tracker.count = Len(shown)
    /\ LastKept(tracker.last, shown, Len(shown))
    /\ \A d \in 1 .. 3 : /\ IsFiniteSet(AllReads(shown, d))
                         /\ tracker.hazards[d] = Cardinality(AllReads(shown, d))
    /\ \A op \in Opcodes :
          tracker.opcodes[op] = Count(shown, op)

(* The registers written are pairs of a file and a number.                 *)
LEMMA WrittenType ==
    ASSUME NEW e \in Shownable
    PROVE  WrittenBy(e) \subseteq STRING \X Nat
<1> SUFFICES ASSUME NEW p \in Registers(e.inst.dst, e.vs)
             PROVE  ExpandVectorReg(e.inst.dst[p[1]], p[2]) \in STRING \X Nat
  BY DEF WrittenBy, Written
<1>1. p[1] \in DOMAIN e.inst.dst /\ p[2] \in 0 .. NumVectors - 1 /\ NumVectors \in Nat \ {0}
  BY SimAssumption DEF Registers
<1>2. e.inst.dst[p[1]] \in Operands
  BY <1>1, InstructionType
<1>3. e.inst.dst[p[1]].file \in STRING /\ e.inst.dst[p[1]].n \in Nat
  BY <1>2 DEF Operands
<1>4. \A n \in Nat, i \in 0 .. NumVectors - 1 : (n + i) % NumVectors \in Nat
  BY <1>1
<1>5. QED
  BY <1>1, <1>3, <1>4 DEF ExpandVectorReg

(* The trace with one more entry.                                          *)
LEMMA Longer ==
    ASSUME NEW s \in Seq(Shownable), NEW e \in Shownable, NEW u, u = Append(s, e)
    PROVE  /\ u \in Seq(Shownable) /\ Len(u) = Len(s) + 1 /\ Len(s) \in Nat
           /\ DOMAIN u = 1 .. Len(s) + 1 /\ DOMAIN s = 1 .. Len(s)
           /\ u[Len(s) + 1] = e /\ \A x \in 1 .. Len(s) : u[x] = s[x]
  OBVIOUS

(* A register is found d instructions back in the map iff its last writer  *)
(* in the trace stands there.                                              *)
LEMMA FoundBehind ==
    ASSUME NEW s, NEW n \in Nat, NEW last, LastKept(last, s, n)
    PROVE  \A d \in 1 .. 3 : \A r :
             (r \in DOMAIN last /\ last[r] = n + 1 - d) <=> LastWriter(s, r, n + 1 - d, n)
<1> SUFFICES ASSUME NEW d \in 1 .. 3, NEW r
             PROVE  (r \in DOMAIN last /\ last[r] = n + 1 - d) <=> LastWriter(s, r, n + 1 - d, n)
  OBVIOUS
<1>1. ASSUME r \in DOMAIN last, last[r] = n + 1 - d PROVE LastWriter(s, r, n + 1 - d, n)
  <2>1. LastWriter(s, r, last[r], n)
    BY <1>1 DEF LastKept
  <2>2. last[r] = n + 1 - d
    BY <1>1, <2>1 DEF LastWriter
  <2>3. QED
    BY <2>1, <2>2
<1>2. ASSUME LastWriter(s, r, n + 1 - d, n) PROVE r \in DOMAIN last /\ last[r] = n + 1 - d
  <2>1. n + 1 - d \in 1 .. n /\ r \in WrittenBy(s[n + 1 - d])
    BY <1>2 DEF LastWriter
  <2>2. r \in DOMAIN last
    BY <2>1 DEF LastKept
  <2>3. LastWriter(s, r, last[r], n)
    BY <2>2 DEF LastKept
  <2>4. PICK w : w = last[r]
    OBVIOUS
  <2>5. w \in 1 .. n /\ r \in WrittenBy(s[w]) /\ \A x \in w + 1 .. n : r \notin WrittenBy(s[x])
    BY <2>3, <2>4 DEF LastWriter
  <2>6. \A x \in n + 1 - d + 1 .. n : r \notin WrittenBy(s[x])
    BY <1>2 DEF LastWriter
  <2>7. ~(w < n + 1 - d)
    BY <2>1, <2>5
  <2>8. ~(w > n + 1 - d)
    <3>1. w > n + 1 - d => w \in n + 1 - d + 1 .. n
      BY <2>5
    <3>2. QED
      BY <2>5, <2>6, <3>1
  <2>9. w = n + 1 - d
    BY <2>5, <2>7, <2>8
  <2>10. QED
    BY <2>2, <2>4, <2>9
<1>3. QED
  BY <1>1, <1>2

(* Recording the writes of the new entry keeps the map right.              *)
LEMMA LastStep ==
    ASSUME NEW s \in Seq(Shownable), NEW e \in Shownable, NEW u, u = Append(s, e),
           NEW t \in Trackers, t.count = Len(s) + 1,
           LastKept(t.last, s, Len(s))
    PROVE  /\ RecordWrites(t, e.inst, e.vs) \in LastMaps
           /\ LastKept(RecordWrites(t, e.inst, e.vs), u, Len(u))
<1>0. PICK n, W, old, new : /\ n = Len(s) /\ W = WrittenBy(e) /\ old = t.last
                            /\ new = RecordWrites(t, e.inst, e.vs)
  OBVIOUS
<1>1. /\ n \in Nat /\ Len(u) = n + 1 /\ u[n + 1] = e /\ \A x \in 1 .. n : u[x] = s[x]
  BY <1>0, Longer
<1>2. new = [r \in DOMAIN old \cup W |-> IF r \in W THEN n + 1 ELSE old[r]]
  BY <1>0 DEF RecordWrites, WrittenBy
<1>3. PICK S \in SUBSET (STRING \X Nat) : old \in [S -> Nat]
  BY <1>0 DEF Trackers, LastMaps
<1>4. W \subseteq STRING \X Nat
  BY <1>0, WrittenType
<1>5. S \cup W \in SUBSET (STRING \X Nat) /\ new \in [S \cup W -> Nat]
  BY <1>1, <1>2, <1>3, <1>4
<1>6. new \in LastMaps
  BY <1>5 DEF LastMaps
<1>7. DOMAIN new = DOMAIN old \cup W
  BY <1>2
<1>8. ASSUME NEW r \in DOMAIN new PROVE LastWriter(u, r, new[r], n + 1)
  <2>1. CASE r \in W
    <3>1. new[r] = n + 1
      BY <1>2, <1>8, <2>1
    <3>2. n + 1 \in 1 .. n + 1 /\ \A x \in n + 1 + 1 .. n + 1 : FALSE
      BY <1>1
    <3>3. r \in WrittenBy(u[n + 1])
      BY <1>0, <1>1, <2>1
    <3>4. QED
      BY <3>1, <3>2, <3>3 DEF LastWriter
  <2>2. CASE r \notin W
    <3>1. r \in DOMAIN old /\ new[r] = old[r]
      BY <1>2, <1>8, <2>2
    <3>2. LastWriter(s, r, old[r], n)
      BY <1>0, <3>1 DEF LastKept
    <3>3. PICK w : w = old[r]
      OBVIOUS
    <3>4. w \in 1 .. n /\ r \in WrittenBy(s[w]) /\ \A x \in w + 1 .. n : r \notin WrittenBy(s[x])
      BY <3>2, <3>3 DEF LastWriter
    <3>5. w \in 1 .. n + 1 /\ r \in WrittenBy(u[w])
      BY <1>1, <3>4
    <3>6. ASSUME NEW x \in w + 1 .. n + 1 PROVE r \notin WrittenBy(u[x])
      <4>1. x = n + 1 \/ (x \in w + 1 .. n /\ x \in 1 .. n)
        BY <1>1, <3>4
      <4>2. QED
        BY <1>0, <1>1, <2>2, <3>4, <4>1
    <3>7. QED
      BY <3>1, <3>3, <3>5, <3>6 DEF LastWriter
  <2>3. QED
    BY <2>1, <2>2
<1>9. ASSUME NEW x \in 1 .. n + 1 PROVE WrittenBy(u[x]) \subseteq DOMAIN new
  <2>1. x = n + 1 \/ x \in 1 .. n
    BY <1>1
  <2>2. \A y \in 1 .. n : WrittenBy(s[y]) \subseteq DOMAIN old
    BY <1>0 DEF LastKept
  <2>3. QED
    BY <1>0, <1>1, <1>7, <2>1, <2>2
<1>10. QED
  BY <1>0, <1>1, <1>6, <1>8, <1>9 DEF LastKept

(* The earlier entries read what they read.                                *)
LEMMA EarlierReads ==
    ASSUME NEW s \in Seq(Shownable), NEW e \in Shownable, NEW u, u = Append(s, e),
           NEW d \in 1 .. 3, NEW j \in d + 1 .. Len(s)
    PROVE  ReadsAt(u, j, d) = ReadsAt(s, j, d)
<1>1. Len(s) \in Nat /\ \A x \in 1 .. Len(s) : u[x] = s[x]
  BY Longer
<1>2. j \in 1 .. Len(s) /\ j - d \in 1 .. Len(s) /\ \A x \in j - d + 1 .. j - 1 : x \in 1 .. Len(s)
  BY <1>1
<1>3. ASSUME NEW r PROVE LastWriter(u, r, j - d, j - 1) <=> LastWriter(s, r, j - d, j - 1)
  BY <1>1, <1>2 DEF LastWriter
<1>4. u[j] = s[j]
  BY <1>1, <1>2
<1>5. QED
  BY <1>3, <1>4 DEF ReadsAt

(* The reads of the new entry are those that the map finds.                *)
LEMMA NewReads ==
    ASSUME NEW s \in Seq(Shownable), NEW e \in Shownable, NEW u, u = Append(s, e),
           NEW t, t.count = Len(s) + 1, LastKept(t.last, s, Len(s)), NEW d \in 1 .. 3
    PROVE  \A k, i : <<Len(s) + 1, k, i>> \in ReadsAt(u, Len(s) + 1, d)
                       <=> <<k, i>> \in WrittenBefore(t, t.last, e.inst, e.vs, d)
<1> SUFFICES ASSUME NEW k, NEW i
             PROVE  <<Len(s) + 1, k, i>> \in ReadsAt(u, Len(s) + 1, d)
                       <=> <<k, i>> \in WrittenBefore(t, t.last, e.inst, e.vs, d)
  OBVIOUS
<1>0. PICK n, r, last : n = Len(s) /\ r = ExpandVectorReg(e.inst.src[k], i) /\ last = t.last
  OBVIOUS
<1>1. n \in Nat /\ u[n + 1] = e /\ \A x \in 1 .. n : u[x] = s[x]
  BY <1>0, Longer
<1>2. LastWriter(u, r, n + 1 - d, n + 1 - 1) <=> LastWriter(s, r, n + 1 - d, n)
  <2>1. n + 1 - 1 = n
    BY <1>1
  <2>2. n + 1 - d \in 1 .. n => \A x \in n + 1 - d + 1 .. n : x \in 1 .. n
    BY <1>1
  <2>3. QED
    BY <1>1, <2>1, <2>2 DEF LastWriter
<1>3. (r \in DOMAIN last /\ (n + 1) - last[r] = d) <=> LastWriter(s, r, n + 1 - d, n)
  <2>1. LastKept(last, s, n) /\ n \in Nat
    BY <1>0, <1>1
  <2>2. (r \in DOMAIN last /\ last[r] = n + 1 - d) <=> LastWriter(s, r, n + 1 - d, n)
    BY <2>1, FoundBehind
  <2>3. r \in DOMAIN last => last[r] \in 1 .. n
    BY <2>1 DEF LastKept, LastWriter
  <2>4. r \in DOMAIN last => ((n + 1) - last[r] = d <=> last[r] = n + 1 - d)
    BY <2>1, <2>3
  <2>5. QED
    BY <2>2, <2>4
<1>4. <<n + 1, k, i>> \in ReadsAt(u, n + 1, d) <=>
        /\ k \in DOMAIN e.inst.src /\ i \in 0 .. NumVectors - 1
        /\ i < GroupSize(e.inst.src[k], e.vs)
        /\ LastWriter(u, r, n + 1 - d, n + 1 - 1)
  BY <1>0, <1>1 DEF ReadsAt
<1>5. <<k, i>> \in WrittenBefore(t, t.last, e.inst, e.vs, d) <=>
        /\ k \in DOMAIN e.inst.src /\ i \in 0 .. NumVectors - 1
        /\ i < GroupSize(e.inst.src[k], e.vs)
        /\ r \in DOMAIN last /\ (n + 1) - last[r] = d
  <2>1. t.count = n + 1
    BY <1>0
  <2>2. QED
    BY <1>0, <2>1, Zenon DEF WrittenBefore, Registers
<1>6. QED
  BY <1>0, <1>2, <1>3, <1>4, <1>5

(* The map finds finitely many reads, as many as the reference counts.     *)
LEMMA NewReadsCount ==
    ASSUME NEW s \in Seq(Shownable), NEW e \in Shownable, NEW u, u = Append(s, e),
           NEW t, t.count = Len(s) + 1, LastKept(t.last, s, Len(s)), NEW d \in 1 .. 3
    PROVE  /\ IsFiniteSet(ReadsAt(u, Len(s) + 1, d))
           /\ Cardinality(ReadsAt(u, Len(s) + 1, d))
                = Cardinality(WrittenBefore(t, t.last, e.inst, e.vs, d))
<1>0. PICK n, S, T : /\ n = Len(s) /\ S = WrittenBefore(t, t.last, e.inst, e.vs, d)
                     /\ T = ReadsAt(u, n + 1, d)
  OBVIOUS
<1>1. \A k, i : <<n + 1, k, i>> \in T <=> <<k, i>> \in S
  BY <1>0, NewReads
<1>2. S \subseteq (DOMAIN e.inst.src) \X (0 .. NumVectors - 1)
  BY <1>0 DEF WrittenBefore, Registers
<1>3. IsFiniteSet(S)
  <2>1. e.inst.src \in Seq(Operands) /\ NumVectors \in Nat
    BY InstructionType, SimAssumption
  <2>2. IsFiniteSet(DOMAIN e.inst.src) /\ IsFiniteSet(0 .. NumVectors - 1)
    <3>1. DOMAIN e.inst.src = 1 .. Len(e.inst.src) /\ Len(e.inst.src) \in Nat
      BY <2>1
    <3>2. PICK m \in Nat : m = Len(e.inst.src)
      BY <3>1
    <3>6. IsFiniteSet(1 .. m)
      BY <3>2, FS_Interval
    <3>3. 0 \in Int /\ NumVectors - 1 \in Int
      BY <2>1
    <3>4. IsFiniteSet(0 .. NumVectors - 1)
      BY <3>3, FS_Interval, Zenon
    <3>5. QED
      BY <3>1, <3>2, <3>4, <3>6
  <2>3. IsFiniteSet((DOMAIN e.inst.src) \X (0 .. NumVectors - 1))
    BY <2>2, FS_Product
  <2>4. QED
    BY <1>2, <2>3, FS_Subset
<1>4. \A p \in T : p = <<n + 1, p[2], p[3]>>
  BY <1>0 DEF ReadsAt
<1>5. \A q \in S : q = <<q[1], q[2]>>
  BY <1>2
<1> DEFINE f == [q \in S |-> <<n + 1, q[1], q[2]>>]
<1>6. f \in [S -> T]
  BY <1>1, <1>5
<1>7. \A a, b \in S : f[a] = f[b] => a = b
  BY <1>5
<1>8. \A p \in T : \E q \in S : f[q] = p
  <2> SUFFICES ASSUME NEW p \in T PROVE \E q \in S : f[q] = p
    OBVIOUS
  <2>1. <<p[2], p[3]>> \in S
    BY <1>1, <1>4
  <2>2. f[<<p[2], p[3]>>] = p
    BY <1>4, <2>1
  <2>3. QED
    BY <2>1, <2>2
<1>9. f \in Bijection(S, T)
  BY <1>6, <1>7, <1>8, Fun_IsBij
<1>10. ExistsBijection(S, T)
  BY <1>9 DEF ExistsBijection
<1>11. QED
  BY <1>0, <1>3, <1>10, FS_Bijection

(* The reads of the longer trace are the earlier ones and the new ones.    *)
LEMMA ReadsStep ==
    ASSUME NEW s \in Seq(Shownable), NEW e \in Shownable, NEW u, u = Append(s, e),
           NEW t, t.count = Len(s) + 1, LastKept(t.last, s, Len(s)), NEW d \in 1 .. 3,
           IsFiniteSet(AllReads(s, d))
    PROVE  /\ IsFiniteSet(AllReads(u, d))
           /\ Cardinality(AllReads(u, d)) = Cardinality(AllReads(s, d))
                + Cardinality(WrittenBefore(t, t.last, e.inst, e.vs, d))
<1>0. PICK n, S, T : n = Len(s) /\ S = AllReads(s, d) /\ T = ReadsAt(u, n + 1, d)
  OBVIOUS
<1>1. n \in Nat /\ Len(u) = n + 1
  BY <1>0, Longer
<1>2. \A j \in d + 1 .. n : ReadsAt(u, j, d) = ReadsAt(s, j, d)
  BY <1>0, EarlierReads
<1>3. ASSUME n + 1 \notin d + 1 .. n + 1 PROVE T = {}
  <2>1. n + 1 - d \notin 1 .. n + 1 - 1
    BY <1>1, <1>3
  <2>2. QED
    BY <1>0, <2>1 DEF ReadsAt, LastWriter
<1>4. AllReads(u, d) = S \cup T
  <2>1. \A j : j \in d + 1 .. n + 1 <=> (j \in d + 1 .. n \/ (j = n + 1 /\ n + 1 \in d + 1 .. n + 1))
    BY <1>1
  <2>2. AllReads(u, d) = UNION {ReadsAt(u, j, d) : j \in d + 1 .. n + 1}
    BY <1>1 DEF AllReads
  <2>3. S = UNION {ReadsAt(s, j, d) : j \in d + 1 .. n}
    BY <1>0 DEF AllReads
  <2>4. QED
    BY <1>0, <1>2, <1>3, <2>1, <2>2, <2>3
<1>5. S \cap T = {}
  <2>1. \A p \in S : p[1] \in d + 1 .. n
    BY <1>0 DEF AllReads, ReadsAt
  <2>2. \A p \in T : p[1] = n + 1
    BY <1>0 DEF ReadsAt
  <2>3. n + 1 \notin d + 1 .. n
    BY <1>1
  <2>4. QED
    BY <2>1, <2>2, <2>3
<1>6. /\ IsFiniteSet(T) /\ Cardinality(T) = Cardinality(WrittenBefore(t, t.last, e.inst, e.vs, d))
  BY <1>0, NewReadsCount
<1>7. IsFiniteSet(S) /\ Cardinality(S) \in Nat /\ Cardinality(T) \in Nat
  BY <1>0, <1>6, FS_CardinalityType
<1>8. /\ IsFiniteSet(S \cup T)
      /\ Cardinality(S \cup T) = Cardinality(S) + Cardinality(T) - Cardinality(S \cap T)
  BY <1>6, <1>7, FS_Union
<1>9. Cardinality(S \cup T) = Cardinality(S) + Cardinality(T)
  <2>1. Cardinality(S \cap T) = 0
    BY <1>5, FS_EmptySet
  <2>2. QED
    BY <1>7, <1>8, <2>1
<1>10. QED
  BY <1>0, <1>4, <1>6, <1>8, <1>9

(* An opcode of the longer trace is counted once more, or as often.        *)
LEMMA OpcodesStep ==
    \A s \in Seq(Shownable), e \in Shownable :
        \A op : Count(Append(s, e), op) = Count(s, op) + Hit(e, op)
<1> SUFFICES ASSUME NEW s \in Seq(Shownable), NEW e \in Shownable, NEW op, NEW u, u = Append(s, e)
             PROVE  Count(u, op) = Count(s, op) + Hit(e, op)
  OBVIOUS
<1>0. PICK n, S, T : /\ n = Len(s) /\ S = {j \in DOMAIN s : s[j].inst.op = op}
                     /\ T = {j \in DOMAIN u : u[j].inst.op = op}
  OBVIOUS
<1>1. /\ n \in Nat /\ DOMAIN u = 1 .. n + 1 /\ DOMAIN s = 1 .. n
      /\ u[n + 1] = e /\ \A x \in 1 .. n : u[x] = s[x]
  BY <1>0, Longer
<1>2. IsFiniteSet(S) /\ Cardinality(S) \in Nat
  <2>1. IsFiniteSet(1 .. n) /\ S \subseteq 1 .. n
    BY <1>0, <1>1, FS_Interval
  <2>2. IsFiniteSet(S)
    BY <2>1, FS_Subset
  <2>3. QED
    BY <2>2, FS_CardinalityType
<1>3. \A j : j \in 1 .. n + 1 <=> (j \in 1 .. n \/ j = n + 1)
  BY <1>1
<1>4. n + 1 \notin S
  BY <1>0, <1>1
<1>5. CASE e.inst.op = op
  <2>1. T = S \cup {n + 1}
    BY <1>0, <1>1, <1>3, <1>5
  <2>2. Cardinality(S \cup {n + 1}) = Cardinality(S) + 1
    BY <1>2, <1>4, FS_AddElement
  <2>3. QED
    BY <1>0, <1>5, <2>1, <2>2 DEF Count, Hit
<1>6. CASE e.inst.op # op
  <2>1. T = S
    BY <1>0, <1>1, <1>3, <1>6
  <2>2. Cardinality(S) + 0 = Cardinality(S)
    BY <1>2
  <2>3. QED
    BY <1>0, <1>6, <2>1, <2>2 DEF Count, Hit
<1>7. QED
  BY <1>5, <1>6

(* The operands of a list can be counted.                                  *)
LEMMA CountOperands ==
    ASSUME NEW s \in Seq(Operands), NEW S, S \subseteq DOMAIN s
    PROVE  Cardinality(S) \in Nat
<1>1. PICK m \in Nat : m = Len(s)
  OBVIOUS
<1>2. IsFiniteSet(1 .. m) /\ S \subseteq 1 .. m
  BY <1>1, FS_Interval
<1>3. IsFiniteSet(S)
  BY <1>2, FS_Subset
<1>4. QED
  BY <1>3, FS_CardinalityType

(* LogOpcode counts the instruction and its opcode.                        *)
LEMMA LogOpcodeIs ==
    ASSUME NEW t \in Trackers, NEW e \in Shownable, NEW c, c = LogOpcode(t, e.inst)
    PROVE  /\ c \in Trackers /\ c.count = t.count + 1 /\ c.last = t.last
           /\ c.hazards = t.hazards
           /\ \A op \in Opcodes :
                 c.opcodes[op] = t.opcodes[op] + Hit(e, op)
<1>1. e.inst.op \in Opcodes /\ t.opcodes \in [Opcodes -> Nat] /\ t.count \in Nat
  BY InstructionType DEF Trackers
<1>2. PICK n, f : n = t.count + 1 /\ f = [t.opcodes EXCEPT ![e.inst.op] = @ + 1]
  OBVIOUS
<1>3. n \in Nat /\ f \in [Opcodes -> Nat]
  BY <1>1, <1>2
<1>4. \A op \in Opcodes : f[op] = t.opcodes[op] + Hit(e, op)
  BY <1>1, <1>2 DEF Hit
<1>5. c = [t EXCEPT !.count = n, !.opcodes = f]
  BY <1>2 DEF LogOpcode, Trackers
<1>6. c \in Trackers /\ c.count = n /\ c.opcodes = f /\ c.last = t.last /\ c.hazards = t.hazards
  BY <1>3, <1>5 DEF Trackers
<1>7. QED
  BY <1>2, <1>4, <1>6

(* The fields of the tracker after one more instruction, c being the       *)
(* tracker once it has counted the opcode.                                 *)
Advanced(t, c, e, new) ==
    /\ new \in Trackers /\ new.count = t.count + 1
    /\ new.last = RecordWrites(c, e.inst, e.vs)
    /\ \A d \in 1 .. 3 : new.hazards[d] = t.hazards[d]
         + Cardinality(WrittenBefore(c, c.last, e.inst, e.vs, d))
    /\ \A op \in Opcodes : new.opcodes[op] = t.opcodes[op] + Hit(e, op)

(* OnInstruction advances the tracker by one instruction.                  *)
LEMMA OnInstructionIs ==
    ASSUME NEW t \in Trackers, NEW e \in Shownable, NEW c, c = LogOpcode(t, e.inst),
           NEW new, new = OnInstruction(t, e.inst, e.vs),
           RecordWrites(c, e.inst, e.vs) \in LastMaps,
           \A d \in 1 .. 3 : Cardinality(WrittenBefore(c, c.last, e.inst, e.vs, d)) \in Nat
    PROVE  Advanced(t, c, e, new)
<1>1. /\ e.inst.op \in Opcodes /\ e.inst.src \in Seq(Operands)
      /\ e.inst.src \o e.inst.dst \in Seq(Operands)
  BY InstructionType
<1>2. /\ c \in Trackers /\ c.count = t.count + 1 /\ c.last = t.last /\ c.hazards = t.hazards
      /\ \A op \in Opcodes : c.opcodes[op] = t.opcodes[op] + Hit(e, op)
  BY LogOpcodeIs
<1>3. PICK ops : ops = e.inst.src \o e.inst.dst
  OBVIOUS
<1>4. PICK k : k = CheckCsr(c, ops)
  OBVIOUS
<1>5. /\ k \in Trackers /\ k.count = c.count /\ k.last = c.last
      /\ k.opcodes = c.opcodes /\ k.hazards = c.hazards
  <2>1. PICK cs : cs = [x \in CountedCsrs |->
                         c.csrs[x] + Cardinality({i \in DOMAIN ops : ops[i].file = x})]
    OBVIOUS
  <2>2. ASSUME NEW x \in CountedCsrs
        PROVE  c.csrs[x] + Cardinality({i \in DOMAIN ops : ops[i].file = x}) \in Nat
    <3>1. c.csrs[x] \in Nat
      BY <1>2 DEF Trackers
    <3>2. Cardinality({i \in DOMAIN ops : ops[i].file = x}) \in Nat
      BY <1>1, <1>3, CountOperands
    <3>3. QED
      BY <3>1, <3>2
  <2>3. cs \in [CountedCsrs -> Nat]
    BY <2>1, <2>2
  <2>4. PICK b \in BOOLEAN : b = (c.corrupted \/ \E i \in DOMAIN ops : ops[i].file = "mtvec")
    OBVIOUS
  <2>5. k = [c EXCEPT !.csrs = cs, !.corrupted = b]
    BY <1>4, <2>1, <2>4 DEF CheckCsr
  <2>6. QED
    BY <1>2, <2>3, <2>5 DEF Trackers
<1>6. PICK hz : hz = [d \in 1 .. 3 |->
                  c.hazards[d] + Cardinality(WrittenBefore(c, c.last, e.inst, e.vs, d))]
  OBVIOUS
<1>7. hz \in [1 .. 3 -> Nat]
  <2>1. \A d \in 1 .. 3 : c.hazards[d] \in Nat
    BY <1>2 DEF Trackers
  <2>2. QED
    BY <1>6, <2>1
<1>8. PICK lw : lw = RecordWrites(c, e.inst, e.vs)
  OBVIOUS
<1>9. PICK h : h = CalculateHazardDistance(c, e.inst, e.vs)
  OBVIOUS
<1>10. h = [k EXCEPT !.hazards = hz, !.last = lw]
  BY <1>3, <1>4, <1>6, <1>8, <1>9 DEF CalculateHazardDistance
<1>11. /\ h \in Trackers /\ h.count = k.count /\ h.opcodes = k.opcodes
       /\ h.hazards = hz /\ h.last = lw
  BY <1>5, <1>7, <1>8, <1>10 DEF Trackers
<1>12. PICK ps : ps = [p \in PoisonPills |->
        h.pills[p] + Cardinality({i \in DOMAIN e.inst.src : p \in Pills(e.inst.src[i])})]
  OBVIOUS
<1>13. ps \in [PoisonPills -> Nat]
  <2>1. ASSUME NEW p \in PoisonPills
        PROVE  h.pills[p] + Cardinality({i \in DOMAIN e.inst.src : p \in Pills(e.inst.src[i])}) \in Nat
    <3>1. h.pills[p] \in Nat
      BY <1>11 DEF Trackers
    <3>2. Cardinality({i \in DOMAIN e.inst.src : p \in Pills(e.inst.src[i])}) \in Nat
      BY <1>1, CountOperands
    <3>3. QED
      BY <3>1, <3>2
  <2>2. QED
    BY <1>12, <2>1
<1>14. new = [h EXCEPT !.pills = ps]
  BY <1>9, <1>12 DEF OnInstruction, VerifyFpPoisonPills
<1>15. /\ new \in Trackers /\ new.count = h.count /\ new.opcodes = h.opcodes
       /\ new.hazards = h.hazards /\ new.last = h.last
  BY <1>11, <1>13, <1>14 DEF Trackers
<1>16. QED
  BY <1>2, <1>5, <1>6, <1>8, <1>11, <1>15 DEF Advanced

(* Nothing has been counted when the program is loaded.                    *)
LEMMA HazardInit == SimInit => HazardInv
<1> SUFFICES ASSUME SimInit PROVE HazardInv
  OBVIOUS
<1>1. vector \in VectorStates
  BY SimAssumption DEF SimInit, VectorStates
<1>2. shown = <<>> /\ shown \in Seq(Shownable) /\ Len(shown) = 0
  BY DEF SimInit
<1>3. << >> \in LastMaps /\ DOMAIN << >> = {}
  <2>1. << >> \in [{} -> Nat] /\ {} \in SUBSET (STRING \X Nat) /\ DOMAIN << >> = {}
    OBVIOUS
  <2>2. QED
    BY <2>1 DEF LastMaps
<1>4. tracker \in Trackers /\ tracker.count = 0 /\ tracker.last = << >>
  BY <1>3 DEF SimInit, NewTracker, Trackers
<1>5. /\ \A d \in 1 .. 3 : tracker.hazards[d] = 0
      /\ \A op \in Opcodes : tracker.opcodes[op] = 0
  BY DEF SimInit, NewTracker
<1>6. LastKept(tracker.last, shown, Len(shown))
  BY <1>2, <1>3, <1>4 DEF LastKept
<1>7. \A d \in 1 .. 3 : AllReads(shown, d) = {}
  BY <1>2 DEF AllReads
<1>8. \A op \in Opcodes : {j \in DOMAIN shown : shown[j].inst.op = op} = {}
  BY <1>2
<1>9. QED
  BY <1>1, <1>2, <1>4, <1>5, <1>6, <1>7, <1>8, FS_EmptySet DEF HazardInv, Count

(* Every turn of the loop keeps the counts those of the trace.             *)
LEMMA HazardStep == RunInv /\ HazardInv /\ [SimNext]_simvars => HazardInv'
<1> SUFFICES ASSUME RunInv, HazardInv, [SimNext]_simvars PROVE HazardInv'
  OBVIOUS
<1>1. CASE SimStep
  <2>1. PICK inst : inst = text[simpc]
    OBVIOUS
  <2>2. simpc \in DOMAIN text /\ text \in SimPrograms
    BY <1>1, <2>1, StepOutcome DEF RunInv, SimTypeOK
  <2>3. /\ vector' = IF inst.vset = NoVset THEN vector ELSE inst.vset
        /\ tracker' = IF inst.known THEN OnInstruction(tracker, inst, vector) ELSE tracker
        /\ shown' = IF inst.known THEN Append(shown, [inst |-> inst, vs |-> vector]) ELSE shown
    BY <1>1, <2>1 DEF SimStep
  <2>4. PICK e : e = [inst |-> inst, vs |-> vector]
    OBVIOUS
  <2>5. e \in Shownable /\ e.inst = inst /\ e.vs = vector
    BY <2>1, <2>2, <2>4 DEF HazardInv, Shownable, Instructions
  <2>6. vector' \in VectorStates
    BY <2>3, <2>5, InstructionType DEF HazardInv
  <2>7. CASE ~inst.known
    BY <2>3, <2>6, <2>7 DEF HazardInv
  <2>8. CASE inst.known
    <3>1. PICK s, u, t, new : s = shown /\ u = Append(s, e) /\ t = tracker
                              /\ new = OnInstruction(t, e.inst, e.vs)
      OBVIOUS
    <3>2. shown' = u /\ tracker' = new
      BY <2>3, <2>4, <2>5, <2>8, <3>1
    <3>3. /\ s \in Seq(Shownable) /\ t \in Trackers /\ t.count = Len(s)
          /\ LastKept(t.last, s, Len(s))
          /\ \A d \in 1 .. 3 : IsFiniteSet(AllReads(s, d))
          /\ \A d \in 1 .. 3 : t.hazards[d] = Cardinality(AllReads(s, d))
          /\ \A op \in Opcodes :
                t.opcodes[op] = Count(s, op)
      BY <3>1 DEF HazardInv
    <3>4. PICK c : c = LogOpcode(t, e.inst)
      OBVIOUS
    <3>5. e.inst.op \in Opcodes
      BY <2>5, InstructionType
    <3>6. c \in Trackers /\ c.count = Len(s) + 1 /\ c.last = t.last
      BY <2>5, <3>3, <3>4, LogOpcodeIs
    <3>7. LastKept(c.last, s, Len(s))
      BY <3>3, <3>6
    <3>8. /\ RecordWrites(c, e.inst, e.vs) \in LastMaps
          /\ LastKept(RecordWrites(c, e.inst, e.vs), u, Len(u))
      BY <2>5, <3>1, <3>3, <3>6, <3>7, LastStep
    <3>9. \A d \in 1 .. 3 :
            /\ IsFiniteSet(AllReads(u, d))
            /\ Cardinality(AllReads(u, d)) = Cardinality(AllReads(s, d))
                 + Cardinality(WrittenBefore(c, c.last, e.inst, e.vs, d))
      <4> SUFFICES ASSUME NEW d \in 1 .. 3
                   PROVE  /\ IsFiniteSet(AllReads(u, d))
                          /\ Cardinality(AllReads(u, d)) = Cardinality(AllReads(s, d))
                               + Cardinality(WrittenBefore(c, c.last, e.inst, e.vs, d))
        OBVIOUS
      <4>1. IsFiniteSet(AllReads(s, d)) /\ e \in Shownable /\ u = Append(s, e)
            /\ s \in Seq(Shownable) /\ c.count = Len(s) + 1
        BY <2>5, <3>1, <3>3, <3>6
      <4>2. QED
        BY <3>7, <4>1, ReadsStep, Zenon
    <3>10. \A d \in 1 .. 3 : Cardinality(WrittenBefore(c, c.last, e.inst, e.vs, d)) \in Nat
      <4> SUFFICES ASSUME NEW d \in 1 .. 3
                   PROVE  Cardinality(WrittenBefore(c, c.last, e.inst, e.vs, d)) \in Nat
        OBVIOUS
      <4>1. /\ IsFiniteSet(ReadsAt(u, Len(s) + 1, d))
            /\ Cardinality(ReadsAt(u, Len(s) + 1, d))
                 = Cardinality(WrittenBefore(c, c.last, e.inst, e.vs, d))
        <5>1. e \in Shownable /\ u = Append(s, e) /\ s \in Seq(Shownable) /\ c.count = Len(s) + 1
          BY <2>5, <3>1, <3>3, <3>6
        <5>2. QED
          BY <3>7, <5>1, NewReadsCount, Zenon
      <4>2. Cardinality(ReadsAt(u, Len(s) + 1, d)) \in Nat
        BY <4>1, FS_CardinalityType
      <4>3. QED
        BY <4>1, <4>2
    <3>11. /\ new \in Trackers /\ new.count = t.count + 1
           /\ new.last = RecordWrites(c, e.inst, e.vs)
           /\ \A d \in 1 .. 3 : new.hazards[d] = t.hazards[d]
                + Cardinality(WrittenBefore(c, c.last, e.inst, e.vs, d))
           /\ \A op \in Opcodes : new.opcodes[op] = t.opcodes[op] + Hit(e, op)
      <4>1. /\ t \in Trackers /\ e \in Shownable /\ c = LogOpcode(t, e.inst)
            /\ new = OnInstruction(t, e.inst, e.vs) /\ RecordWrites(c, e.inst, e.vs) \in LastMaps
        BY <2>5, <3>1, <3>3, <3>4, <3>8
      <4>2. Advanced(t, c, e, new)
        BY <3>10, <4>1, OnInstructionIs, Zenon
      <4>3. QED
        BY <4>2 DEF Advanced
    <3>12. u \in Seq(Shownable) /\ Len(u) = Len(s) + 1
      BY <2>5, <3>1, <3>3, Longer
    <3>13. \A d \in 1 .. 3 : new.hazards[d] = Cardinality(AllReads(u, d))
      BY <3>3, <3>9, <3>11
    <3>14. \A op \in Opcodes :
              new.opcodes[op] = Count(u, op)
      <4> SUFFICES ASSUME NEW op \in Opcodes
                   PROVE  new.opcodes[op] = Count(u, op)
        OBVIOUS
      <4>1. e \in Shownable /\ u = Append(s, e) /\ s \in Seq(Shownable)
        BY <2>5, <3>1, <3>3
      <4>2. Count(u, op) = Count(s, op) + Hit(e, op)
        BY <4>1, OpcodesStep
      <4>3. new.opcodes[op] = t.opcodes[op] + Hit(e, op)
        BY <3>11
      <4>4. t.opcodes[op] = Count(s, op)
        BY <3>3
      <4>5. QED
        BY <4>2, <4>3, <4>4
    <3>15. new.count = Len(u) /\ LastKept(new.last, u, Len(u))
      BY <3>3, <3>8, <3>11, <3>12
    <3>16. QED
      BY <2>6, <3>2, <3>9, <3>11, <3>12, <3>13, <3>14, <3>15 DEF HazardInv
  <2>9. QED
    BY <2>7, <2>8
<1>2. CASE SimReturn
  BY <1>2 DEF SimReturn, HazardInv
<1>3. CASE UNCHANGED simvars
  BY <1>3 DEF simvars, HazardInv
<1>4. QED
  BY <1>1, <1>2, <1>3 DEF SimNext

(* The tracker's counts are the reference's.                               *)
LEMMA HazardRight == HazardInv => HazardsExact
  BY ReadsBehindIs DEF HazardInv, HazardsExact, Count

(* The ExecutionTracker, which sees one instruction at a time and keeps    *)
(* only the last writer of each register, counts what the whole trace      *)
(* holds: every RAW_HAZARD_d is the number of register reads whose last    *)
(* writer is d instructions back, under the register groups in force at    *)
(* each instruction, and every opcode is counted as often as it was shown. *)
THEOREM HazardsAreExact == SimSpec => []HazardsExact
<1>1. SimSpec => []RunInv
  BY RunInit, RunStep, PTL DEF SimSpec
<1>2. SimSpec => []HazardInv
  BY <1>1, HazardInit, HazardStep, PTL DEF SimSpec
<1>3. QED
  BY <1>2, HazardRight, PTL
===============================================================================
