------------------------------ MODULE Orchestrator ------------------------------
(***************************************************************************)
(* The evolution loop of the fuzzer (orchestrator.cc) and the archive it   *)
(* fills (behavioral_archive.cc).  An iteration generates a sequence or    *)
(* mutates an archived one, runs it, and offers it to the archive, which   *)
(* keeps one sequence per detector; a sequence that is kept first has      *)
(* checks of the terminal state written behind its code.                   *)
(*                                                                         *)
(* A sequence is its ITCM image, one word at a time, and the end of its    *)
(* mutable part, which begins behind the preamble.  What a run covers is   *)
(* any set of detectors with any counts: RunRandomSimulation is external.  *)
(* The assembly text is left out.                                          *)
(***************************************************************************)
EXTENDS Integers, SequencesExt

CONSTANTS
    Size,        (* the words of the ITCM, 8192 / 4                        *)
    Pre,         (* the words of the preamble                              *)
    Payloads,    (* the mutable parts that are generated                   *)
    Injected,    (* the words that mutations insert                        *)
    CheckEnds,   (* where each check ends, in words behind the code        *)
    Detectors,   (* the detectors, numbered in the order of their names    *)
    Corrupted,   (* the detector "Trap Handler Corrupted"                  *)
    MaxCount,    (* bound: how often a run hits a detector                 *)
    MaxInserts,  (* bound: the words inserted by one mutation              *)
    MaxRounds    (* bound: the number of iterations                        *)

Word  == {"op", "nop", "mpause", "check"}
NoBin == 0                     (* the descriptor with an empty name        *)
Bins  == Detectors \cup {NoBin}

(* The words of the first k checks, and of the k-th.                       *)
Words(k)    == IF k = 0 THEN 0 ELSE CheckEnds[k]
CheckLen(k) == Words(k) - Words(k - 1)

ASSUME OrchestratorConstants ==
    /\ Size \in Nat /\ Pre \in 1 .. Size - 1
    /\ Payloads \subseteq Seq({"op", "nop"}) /\ Injected \subseteq {"op", "nop"}
    /\ \A m \in Payloads : Pre + Len(m) < Size
    /\ CheckEnds \in Seq(Nat)
    /\ \A k \in DOMAIN CheckEnds : CheckLen(k) > 0
    /\ \A i, j \in DOMAIN CheckEnds : i < j => CheckLen(i) <= CheckLen(j)
    /\ Detectors \subseteq Nat \ {0} /\ IsFiniteSet(Detectors) /\ Corrupted \in Detectors
    /\ {MaxCount, MaxInserts, MaxRounds} \subseteq Nat

VARIABLES
    archive,     (* archive_: a sequence for each bin that is not empty    *)
    fitness,     (* fitness_map_                                           *)
    coverage,    (* the keys of global_coverage_                           *)
    phase,       (* the next step of the iteration                         *)
    current,     (* current_seq                                            *)
    parent,      (* the argument of MutateSequence                         *)
    insts,       (* mutated_insts                                          *)
    inserts,     (* how much of MaxInserts is used                         *)
    summary,     (* coverage_summary of the last run                       *)
    rounds,      (* the loop variable i                                    *)
    seen         (* history: the detectors active in any run so far        *)

mutation == <<parent, insts, inserts>>
found    == <<archive, fitness, coverage, seen>>
vars     == <<found, phase, current, mutation, summary, rounds>>

(* The layout that IsgEngine::Build and MutateSequence give an image: the  *)
(* code is followed by nops, and mpause is the last word.                  *)
Layout(preamble, code) ==
    [image |-> [i \in 1 .. Size |->
        IF i <= Pre THEN preamble[i]
        ELSE IF i <= Pre + Len(code) THEN code[i - Pre]
        ELSE IF i < Size THEN "nop" ELSE "mpause"],
     end   |-> Pre + Len(code)]

Blank == Layout([i \in 1 .. Pre |-> "op"], <<>>)

Init ==
    /\ archive = << >> /\ fitness = << >> /\ coverage = {}
    /\ phase = "search" /\ current = Blank /\ parent = Blank
    /\ insts = <<>> /\ inserts = 0 /\ summary = << >>
    /\ rounds = 0 /\ seen = {}

--------------------------------------------------------------------------------
(* PerformPhase1Search.                                                    *)

GenerateRandomSequence(payload) ==
    /\ phase = "search" /\ rounds < MaxRounds
    /\ current' = Layout([i \in 1 .. Pre |-> "op"], payload)
    /\ phase' = "simulate" /\ rounds' = rounds + 1
    /\ UNCHANGED <<found, mutation, summary>>

(* MutateSequence: the mutable part of an archived sequence, from which    *)
(* any words are dropped.                                                  *)
SelectParent(bin) ==
    /\ phase = "search" /\ rounds < MaxRounds
    /\ parent' = archive[bin]
    /\ insts' = SubSeq(archive[bin].image, Pre + 1, archive[bin].end)
    /\ phase' = "mutate" /\ rounds' = rounds + 1
    /\ UNCHANGED <<found, current, inserts, summary>>

DropInstruction(i) ==
    /\ phase = "mutate" /\ inserts = 0
    /\ insts' = RemoveAt(insts, i)
    /\ UNCHANGED <<found, phase, current, parent, inserts, summary, rounds>>

(* Then a word goes in front of some other, or into an empty sequence.     *)
InsertInstruction(word, i) ==
    /\ phase = "mutate" /\ inserts < MaxInserts
    /\ insts' = InsertAt(insts, i, word)
    /\ inserts' = inserts + 1
    /\ UNCHANGED <<found, phase, current, parent, summary, rounds>>

TooLong(code) == Pre + Len(code) > Size - 1

(* A child that is too long is given up for its parent.  The locals of a   *)
(* function have their initial values again once it has returned.          *)
MutateSequence ==
    /\ phase = "mutate"
    /\ current' = IF TooLong(insts) THEN parent
                  ELSE Layout(SubSeq(parent.image, 1, Pre), insts)
    /\ phase' = "simulate"
    /\ parent' = Blank /\ insts' = <<>> /\ inserts' = 0
    /\ UNCHANGED <<found, summary, rounds>>

(* RunRandomSimulation.                                                    *)
RunRandomSimulation(s) ==
    /\ phase = "simulate"
    /\ summary' = s
    /\ seen' = seen \cup DOMAIN s
    /\ phase' = "archive"
    /\ UNCHANGED <<archive, fitness, coverage, current, mutation, rounds>>

--------------------------------------------------------------------------------
(* PerformPhase2Finalize.                                                  *)

(* Faulty variant: every word may be overwritten.                          *)
NopStartUnscanned(image) == 0

(* The words in front of the nops and mpauses at the end of the image.     *)
NopStart(image) ==
    LET kept == {i \in DOMAIN image : image[i] \notin {"nop", "mpause"}}
    IN  IF kept = {} THEN 0 ELSE CHOOSE i \in kept : \A j \in kept : j <= i

(* Checks are written as long as the next one fits.                        *)
Emitted(room) ==
    LET fit == {k \in 0 .. Len(CheckEnds) : Words(k) <= room}
    IN  Words(CHOOSE k \in fit : \A j \in fit : j <= k)

PauseFits(at) == at < Size

PerformPhase2Finalize(seq) ==
    LET start == NopStart(seq.image)
        stop  == start + Emitted(Size - start)
    IN  [seq EXCEPT !.image = [i \in DOMAIN seq.image |->
            IF i \in start + 1 .. stop THEN "check"
            ELSE IF i = stop + 1 /\ PauseFits(stop) THEN "mpause"
            ELSE seq.image[i]]]

--------------------------------------------------------------------------------
(* The archive.                                                            *)

(* Faulty variant: the most frequent detector, whether its bin is empty or *)
(* not.                                                                    *)
MostFrequent(s) ==
    IF DOMAIN s = {} THEN NoBin
    ELSE CHOOSE d \in DOMAIN s :
            \A e \in DOMAIN s : s[e] <= s[d] /\ (s[e] = s[d] => d <= e)

(* The first active detector whose bin is empty; if there is none, the     *)
(* most frequent one, and the first of several; if none is active, the     *)
(* empty name.                                                             *)
ExtractDescriptor(s) ==
    LET empty == DOMAIN s \ DOMAIN archive
    IN  IF empty # {} THEN CHOOSE d \in empty : \A e \in empty : d <= e
                      ELSE MostFrequent(s)

Novel(bin, fit) == bin \in DOMAIN archive => fit > fitness[bin]

(* A sequence filed under a corrupted trap handler is kept as it is.       *)
AddIfNovel ==
    LET bin  == ExtractDescriptor(summary)
        fit  == Cardinality(DOMAIN summary)
        kept == IF bin = Corrupted THEN current ELSE PerformPhase2Finalize(current)
    IN  /\ phase = "archive"
        /\ \/ /\ Novel(bin, fit)
              /\ archive' = [b \in DOMAIN archive \cup {bin} |->
                                IF b = bin THEN kept ELSE archive[b]]
              /\ fitness' = [b \in DOMAIN fitness \cup {bin} |->
                                IF b = bin THEN fit ELSE fitness[b]]
              /\ coverage' = coverage \cup DOMAIN summary
           \/ /\ ~Novel(bin, fit)
              /\ UNCHANGED <<archive, fitness, coverage>>
        /\ phase' = "search" /\ current' = Blank /\ summary' = << >>
        /\ UNCHANGED <<mutation, rounds, seen>>

Summaries == UNION {[D -> 1 .. MaxCount] : D \in SUBSET Detectors}

(* RunEvolutionLoop is over.                                               *)
Done == phase = "search" /\ rounds = MaxRounds /\ UNCHANGED vars

Next ==
    \/ MutateSequence \/ AddIfNovel \/ Done
    \/ \E payload \in Payloads : GenerateRandomSequence(payload)
    \/ \E bin \in DOMAIN archive : SelectParent(bin)
    \/ \E i \in 1 .. Len(insts) : DropInstruction(i)
    \/ \E word \in Injected, i \in 1 .. (IF insts = <<>> THEN 1 ELSE Len(insts)) :
          InsertInstruction(word, i)
    \/ \E s \in Summaries : RunRandomSimulation(s)

Spec == Init /\ [][Next]_vars

--------------------------------------------------------------------------------
(* Properties.                                                             *)

Sequence == [image : [1 .. Size -> Word], end : Pre .. Size - 1]

(* The type invariant of the orchestrator; every image fills the ITCM and  *)
(* the mutable part ends in front of its last word.                        *)
OrchestratorTypeOK ==
    /\ DOMAIN archive \subseteq Bins /\ DOMAIN fitness = DOMAIN archive
    /\ \A b \in DOMAIN archive : archive[b] \in Sequence /\ fitness[b] \in Nat
    /\ coverage \subseteq Detectors /\ seen \subseteq Detectors
    /\ phase \in {"search", "mutate", "simulate", "archive"}
    /\ current \in Sequence /\ parent \in Sequence
    /\ insts \in Seq(Word) /\ inserts \in 0 .. MaxInserts
    /\ summary \in Summaries /\ rounds \in 0 .. MaxRounds

(* No discovery is lost: every detector that was active in any run is in   *)
(* global_coverage_ by the end of the iteration, although only runs that   *)
(* are archived are added to it.  (A run that is turned away had all its   *)
(* detectors' bins full.)                                                  *)
CoverageComplete == phase \in {"search", "mutate"} => seen \subseteq coverage

Images == {archive[b].image : b \in DOMAIN archive} \cup {current.image}

(* The preamble, which holds the trap handler, survives any number of      *)
(* mutations and of checks written behind code that ends in nops.          *)
PreambleIntact == \A image \in Images, i \in 1 .. Pre : image[i] = "op"

(* The trap handler returns to the last word of the ITCM, so an image has  *)
(* its mpause there, unless the checks have used up all the room there was *)
(* between the code and that word.                                         *)
ExitKept ==
    \A image \in Images :
        image[Size] = "mpause" \/ \E k \in 1 .. Len(CheckEnds) :
            \A i \in Size - CheckLen(k) + 1 .. Size : image[i] = "check"

(* A program that passes the checks of an archived sequence meets an       *)
(* mpause before any of the padding: the terminal state that was recorded  *)
(* is checked once and the run ends there.                                 *)
ChecksEndInPause ==
    \A b \in DOMAIN archive \ {Corrupted} :
        LET image == archive[b].image
        IN  \A i \in archive[b].end + 1 .. Size :
                image[i] = "nop" => \E j \in 1 .. i - 1 : image[j] = "mpause"

(* After any number of generations an image is still one that can be run:  *)
(* it has the length of the ITCM, its trap handler, the place that returns *)
(* to, and the end of its checks.                                          *)
ImageWellFormed ==
    OrchestratorTypeOK /\ PreambleIntact /\ ExitKept /\ ChecksEndInPause

================================================================================
