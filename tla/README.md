# A TLA+ model of the CoralNPU MPACT simulator

The repository is an instruction-set simulator for the CoralNPU cores (V1, V2,
M3, M4), built on the MPACT-Sim library, with the wrappers that embed it in a
debugger, in an RTL testbench, in Renode and behind a hardware-simulator
interface, and a generator and fuzzer that produce instruction sequences for
it. This directory models the parts in which *control* can go wrong: threads,
call orders, breakpoints, counters at their limits, memory that is changed
while it is read, and the parts in which a *computation* is spread over code
that must agree: which registers an operand has, which bytes an instruction
touches, how a value is rounded.

## 1. Inventory

| Component (under `src/sim/`) | State | Operations | What is hard | What makes it correct |
|---|---|---|---|---|
| **Run control** `coralnpu_top.cc` | four atomics (`run_status_`, `halt_reason_`, `halted_`, `need_to_step_over_`), the `run_halted_` notification, pc, memory, decode cache, all unlocked | `Run`, `Step`, `Halt`, `Wait`, the destructor, breakpoints, register and memory writes | a detached thread per `Run()`, control-C on another thread, instruction words rewritten under the program | one thread in the core at a time; the program cannot tell that it is debugged; every halt is obeyed; `Wait` and the destructor return |
| **Action points** `coralnpu_action_point_memory_interface.cc` | saved words, decode cache entries | plant, lift | saving a word twice, stale decodings | the program's words are always recoverable |
| **Memory regions** `coralnpu_v2_state.cc` | list of regions | add, ask | overlapping regions, end of the address space | no access outside the regions; answers do not change |
| **Co-simulation DPI** `cosim/` | one global handle: absent, created, initialized | `mpact_init` ... `mpact_fini` | any call may initialize the simulator lazily | what was accepted is in effect in the simulator |
| **Renode agent** `renode/renode_mpact.cc` | instances by id, one call in progress | construct, destroy, reset, step | 64-bit counts in `int` chunks and a 32-bit sum | executed = reported, status true, ids unique |
| **Hardware-simulator wrapper** `hw_sim/` | memory, mailbox, DMA registers | host calls, DMA descriptor walk | the DMA re-reads descriptors from memory it is changing | each transfer happens as it was set up, nothing else changes, the walk ends |
| **Archive and orchestrator** `behavioral_archive.cc`, `orchestrator.cc` | best sequence and fitness per detector, code image | evolution loop, mutation, appended checks | images at the 8 kB limit, bins that fill up | no discovery is lost, the image keeps its shape |
| **Random simulator and execution tracker** `random_simulator.cc`, `execution_tracker.cc` | steps, first trap, last writer of each register, counts | run one sequence | the step limit, traps, groups that change with vtype | every run ends and is judged by what ended it; counts are those of the trace |
| **Renode memory** `renode/coralnpu_renode_memory.cc` | blocks owned and shared by Renode, delayed loads | load, store, scalar and vector | accesses across block borders, results delivered later | it is a flat memory |
| **Vector unit** `coralnpu_vector*_instructions.cc`, `coralnpu_encoding.cc` | 64 registers, accumulators, vector length | one function per instruction over a common loop | in-place strip-mining, group sizes decided elsewhere, interleaved orders, saturation and rounding | each lane gets its operands and the exact result |
| **BF16 conversions** `coralnpu_instructions.cc`, `coralnpu_m3_*.cc` | floating-point registers, fcsr, vector state | narrow, widen, scalar and vector | three copies of the code, ties, subnormals, NaN boxes, fractional groups | correctly rounded, flags right, elements right |
| **V2, M3, M4 memory instructions** `coralnpu_v2_instructions.cc`, `coralnpu_m3_zfhmin_instructions.cc`, `coralnpu_m4_instructions.cc` | - | check, then call mpact-riscv | the check and the access are computed apart; fast path, masks, wrapping addresses | nothing unchecked is touched, faults are precise |
| Instruction sequence generator `isg/` | text buffer, vector state, watchdog | generate instructions | random choice | the layout of the image |
| Facade, state, other encodings, decoders, assembler, database, command lines | options, tables, text | - | - | - |

`CoralNPUTop` drives the action point interface; `RenodeAgent` drives a
`CoralNPUTop`; the DPI wrapper drives the V2 state, whose memory regions guard each
access, as does `hw_sim`, with one region over all of memory; the orchestrator drives the random simulator, which
drives the facade `CoralNPUSimulator` and shows each instruction to the
execution tracker. The vector instructions see the register groups that the
encodings made; the memory instructions ask the memory regions. The hazards met while reading are listed
in `PROJECT.json`, each at its line.

## 2. Modules

| Module | Models | Composes |
|---|---|---|
| `ActionPointMemory` | saved words, planting and lifting, the decode cache | - |
| `CoralNPUTop` | run control, as steps of the debugger thread, the run threads and a second caller of `Halt()` | `ActionPointMemory` |
| `MemoryRegions` | region list and `HasPermission` | - |
| `CosimDpi` | DPI wrapper | `MemoryRegions` |
| `RenodeAgent` | Renode agent; `CoralNPUTop::Step` is external to it | - |
| `HwSim` | host, core and DMA | - |
| `Orchestrator` | evolution loop, mutation, appended checks and archive of the fuzzer | - |
| `RandomSim` | one simulation of a sequence and the execution tracker | - |
| `FlatMemory` | abstract: what a memory promises the core | - |
| `RenodeMemory` | block-wise memory of the Renode build; implements `FlatMemory` | `FlatMemory` (refinement) |
| `LaneArith` | the lane functions of the vector instructions | - |
| `VectorLanes` | operand selection, register groups, the common loop | - |
| `VectorUnit` | register file, memory, accumulators: vector programs | `VectorLanes` |
| `Bf16` | the bfloat16 conversions as functions | - |
| `Zfbfmin` | the conversion instructions, scalar and vector, with the M3 encoding's groups | `Bf16` |
| `V2Access` | the checks in front of memory instructions and jumps | `MemoryRegions` |
| `CoralNPUTopProofs`, `CosimDpiProofs`, `HwSimProofs`, `V2AccessProofs`, `ZfbfminProofs` | theorems | the module they are named after |
| `RenodeProofs` | theorems | `RenodeAgent`, `RenodeMemory` |
| `FuzzerProofs` | theorems | `Orchestrator`, `RandomSim` |
| `VectorProofs` | theorems | `LaneArith`, `VectorUnit` |
| `MCHosts` | the four interfaces to the outside, one of them in each behaviour | `CosimDpi`, `RenodeAgent`, `RenodeMemory`, `HwSim` |
| `MCExecution` | the two instruction families that are modelled step by step | `V2Access`, `Zfbfmin` |
| other `MC*` | small constants for TLC | the module they are named after |

### CoralNPUTop

Every access to an atomic ends a step, since between two of them another
thread may act; register, memory and cache operations in between are one step.
The variable `at` says where each thread is, `ctx` whether it executes in the
main loop or inside `StepPastBreakpoint`, and `lpc`, `lnext`, `sp`, `count`
are the C++ locals, `lpc` uninitialized (`Undef`) until it is assigned. When
an uninitialized `pc` is used, any address may result. Instruction words are
`nop`, `jump`, `mpause`, `trap`, `exit` (a semihosting ebreak) and `ebreak`.
The history variables `program`, `arch` and `paused` record what the program
would do undisturbed; they are never read by an action's guard.

Calls that return an error change nothing and are not steps. `Run`, `Step`,
`Halt`, `Wait` and the destructor are sequences of steps; the other calls are
atomic because they are made by the same thread on a halted core (the theorem
`Exclusion` is what justifies this).

**Careful clients.** The code gives less than it seems to under seven call
patterns, named in `RiskyPatterns`. A run says with `Risky` which of them its
clients use: `{}` is a careful debugger. `top_halt_v` adds to a careful debugger
one `Halt()` of a second caller, made while no call but `Wait()` is in progress,
and shows that already this breaks a property which holds without it
(`DebuggingIsTransparent` proves that it does); what the patterns break is
listed below. `top_any` enables all of them but `patchDecoded` and checks what
survives.

### MemoryRegions, CosimDpi

Addresses are `0 .. Space - 1`, permissions are sets. Sums of start and length
are not reduced modulo `Space`, as the code computes them in 64 bits. The DPI
handle has three phases. The configuration and the ranges that the living handle
has accepted (`config`, `granted`) are kept as history, and so is the last
configuration accepted at all (`asked`), which outlives the handle that
`mpact_reset` replaces.

Properties speak of what an accepted call *does*: `InEffect(r, p, front)` says that
an access inside the range `r` is refused `p` only where one of the first `front`
regions of the list contains it and withholds `p`. So `CallsHonored` promises a
range up to the regions of the options, a default one or the configured ITCM,
which come first in the list; `RangesAllowed` and `ResetKeepsConfig` are what the header says,
and fail (section 3).

### RenodeAgent

One action for each call and one for each pass of the chunk loop. `IntMax` and
`Wrap` stand for 2^31 - 1 and 2^32; `Accumulate` wraps as the `uint32_t` does.
`CoreStep` is what the agent may expect of `CoralNPUTop::Step`: fewer
instructions than asked for only if one of them halted the core. `reset` changes
nothing, as in the code; the history variable `fresh` remembers which instances
were reset since they last executed an instruction. The specification is
`AgentSpec`.

### HwSim

Memory is an array of words in which four consecutive words are a descriptor.
The walk takes one step per descriptor, reads it from the memory as earlier
transfers left it, and reads the successor before the transfer. While it runs
nobody else does: it runs inside a store, the program's or the host's `WriteMem`
(`starter`), both of which also reach the DMA registers. `Length` takes off the flags
beside the length; `MaxLength` stands for 2^24.

What a driver has to guarantee is stated in terms of `Chain`, the least set of
descriptors that contains the first one and the successor of each. `Straight`: no
circle, and no transfer into a descriptor still to come; then the walk ends
(`DmaEnds`). `Tame`: also no transfer into a source or a destination still to
come; then each transfer is the one that was set up (`DmaCopies`). A transfer may
overwrite its own descriptor, those already walked, and its own source. Nothing
is promised about other chains, which the run also walks: the code re-reads a
descriptor that an earlier transfer has changed, and walks a circle for ever.

### Orchestrator

A sequence is its ITCM image, one word at a time (some instruction, nop,
mpause, part of a check), with the end of its mutable part. An iteration
generates an image or drops and inserts words of an archived one, runs it, files
it under a detector and, if it is kept, writes the checks of its terminal state
behind its code. The words that a mutation drops are dropped one at a time, as
the loop of `MutateSequence` does; `CheckEnds` gives the checks by where they end
behind the code, which is what the loop that writes them compares with the room
left. What a run covers is any set of detectors with any counts; the
simulation itself is external to this module. The local variables of a function
are reset when it returns.

### RandomSim

A program is a function from word addresses to instructions, which say what
their execution does (goes on, traps, pauses, fails) and name their operands.
One action is one turn of the loop of `RunRandomSimulation`: the tracker is
shown the instruction (`OnInstruction` with the three functions it calls), then
the core steps. The values of floating-point operands are reduced to the classes
that `VerifyFpPoisonPills` tells apart. `SimAssumption` says what the preamble
guarantees: word 0 and the trap handler do not trap and do not lie beside an
mpause; operands and vector states are typed. The history variable `shown` is the
part of the trace that the tracker was shown (it is not told of an instruction
that cannot be decoded). A behaviour of `orch` is one of the evolution loop or one of a
simulation; the two modules share no variable, and `Orchestrator` takes any
summary a simulation could return.

### RenodeMemory and FlatMemory

`RenodeMemory` has one action per turn of the copying loop, so an access that
crosses blocks takes several steps; a scalar access is a vector access of one
element. `FlatMemory` has no blocks and visits an element at once. The
refinement mapping counts an element whose copies have begun as copied:
`FlatByte(a)` is the byte that the running copy will have put at `a`,
`FlatAccess` the data buffer as it will be. Writes by other bus masters fall
between the accesses of the core, since Renode calls the core synchronously.
The code compares the ends of an access with the memory only where the mask is
set, so a unit-stride row that wraps around the address space behind elements
that are masked off is admitted and must be answered rightly; `FlatMemory`
therefore reduces addresses modulo `AddressSpace`, and `hosts` has such rows. The
assertions of the code are `ABSL_HARDENING_ASSERT`s; they are taken as on, and a
build that turns them off goes on where `RenodeMemory` aborts.

### LaneArith, VectorLanes, VectorUnit

`LaneArith` has each lane function for lanes of `w` bits with the casts of the
C++ code; `int` has `IntBits` bits, so that a lane may be narrower than `int` or
as wide. `VectorLanes` has the selectors (which register and element is an
operand of lane i, for slides, zips, packed and widened operands) and the loop
that all instructions share, register by register, so that a later register
reads what an earlier one has written. Elements are symbolic here: a byte of a
register is the name of where it came from, and the value of a lane the tuple of
what went into it. `VectorUnit` executes programs of such instructions, loads,
stores and convolutions on one register file; the products of a convolution are
symbolic too, and a buffer that is recycled without being written has the value
`StaleByte`.

`ProgramsAssumption` says which lane instructions a program may hold: those that
have an encoding (`Encodable`: no widening of the widest elements, slides by one
to four, horizontal slides of four registers only), with register groups that
end inside of the register file (`Placed`; `GetVRegGroup` would otherwise make up
registers beyond the last one). `WidthsAssumption` asks that lanes are at most as
wide as `int` and operands are patterns of their width.

The forms with a scalar operand (`.vx`, the `scalar` argument of the getters in
`coralnpu_vector_instructions.cc`) are left out: the second operand of every
instruction is a register. `GetVl` takes the one number by which the vector
length is bounded, where the code has the two operands rs1 and rs2.

### Bf16, Zfbfmin

`Bf16` takes the widths of exponent and fraction as constants. The three bodies
of the rounding code are kept apart where they differ. `Zfbfmin` adds the
registers, NaN boxes, modes, flags and traps. In the vector part a register is a
row of halves, the encoding gives groups by LMUL (fractional ones too), and the
base and M3 bodies are separate actions. `ScenarioAssumption` types the initial
states and asks for a vl that `vsetvl` can grant. `M3Convert` takes the mask from v0
as it was before the instruction. The code holds a span into v0's buffer
(`coralnpu_m3_instructions.cc:357`), and where vd lies on v0 the submitted result
replaces that buffer while the loop still uses the span; that the old contents
stay readable is assumed.

### V2Access

An instruction becomes a plan: which elements there are and what is asked about
each of them. `Validate` takes the fast path or visits the elements. `Touches`
is external: the bytes that mpact-riscv's instruction accesses, from the
instruction set manual. An instruction is one step; it is the case distinction,
not the interleaving, that is hard here. `FirstFault` is the least faulty element
and in it the least failing field, which is where the loops of
`ValidateVectorAccess` and of the validators stop. `HasRangePermission` keeps the
cast of the size of the range to 32 bits. The one range whose size the cast
loses is the whole address space (`WholeSpace`); the properties except it, and
section 3 says what the code does there. `WellTyped` is what the encodings give:
natural lengths and sizes, widths that divide a register, indices that are
numbers. That `jalr` clears the lowest bit of its target is not represented: it
cannot lead out of a region that starts at an even address.

## 3. Runs and what they show

| Run | Shows |
|---|---|
| `top_debug` | for a careful debugger: the pc after every stop is that of the next instruction of the undisturbed program, ebreaks in memory are exactly the active breakpoints, breakpoint stops are true, pauses are obeyed, notifications are used once, the destructor leaves no thread |
| `top_any` | under every call pattern but overwriting decoded words: exclusive use of the core, recoverable program, coherent decode cache |
| `top_live` | control-C stops a program that loops for ever; the destructor returns; `Wait()` returns for a program that halts by itself |
| `hosts` | each behaviour is that of one host. DPI, in every order of calls: accepted configurations and ranges are in effect while their handle lives, except where a region that was there before decides; no access is let through outside the regions, answers are stable. Renode agent, below the wrap: chunked stepping is exact, status is true, ids are not reused. DMA: tame chains copy what was set up and nothing else, straight ones end. Renode memory: the block-wise memory implements the flat one; every load that begins is answered |
| `orch` | over three iterations: no detector that was ever active is lost, preambles survive, checks are followed by an mpause before any padding; a simulation counts opcodes and read-after-write distances exactly, ends with its first trap or halt, and is judged by it even on the last allowed step |
| `vector` | `LanesRight`: each lane instruction gets the operands of a reference definition, also in place where the code can allow that; `OperandsFit`: no selector indexes beyond the group that the encoding made; `OrderRestored`: narrowing undoes widening and convolution; `WalkReadsBack`: a walk of loads reads what a walk of stores wrote; the arithmetic is exact against definitions over the integers |
| `execution` | memory instructions, every form at every base: nothing unchecked is touched; a vector fault reports the first element that is not permitted, masked-off elements never fault. BF16, every value and mode of a small format: correct rounding in three bodies, flags too but for the underflow of the base body, round trips, vector conversions that change exactly their elements |

Five runs check what a comment, a header or a test says and the code does not do;
`findings` in `PROJECT.json` quotes the lines:

| Run | Property | What TLC finds |
|---|---|---|
| `top_halt_v` | `PcIsArch` | `Halt()` during a breakpoint hit replaces the halt reason, and the instruction under the breakpoint is skipped |
| `dpi_range_v` | `RangesAllowed` | a load/store range inside the read-execute ITCM is accepted and cannot be stored to: the first region that contains an access decides |
| `dpi_reset_v` | `ResetKeepsConfig` | `mpact_reset` replaces the handle by one with default options, so the simulator after it is not the configured one |
| `renode_reset_v` | `ResetRestarts` | `reset` does nothing: an instance whose program has exited executes nothing when it is stepped again |
| `bf16_uf_v` | `UnderflowRaised` | the body that `fcvt.bf16.s` is bound to never raises underflow, which its test expects for a tiny subnormal |

Other places where code and text differ, met while modelling and kept here
without a run of their own:

* `stepFromBreakpoint`: after `StepPastBreakpoint` has used up the count the
  loop body is never entered, and `SetPc(pc)` stores an uninitialized local
  (`coralnpu_top.cc:381`, against the comments at 382 and 385).
* `concurrentHalt` also loses a `Halt()` that falls between `run_status_ =
  kRunning` and `halted_ = false` (`coralnpu_top.cc:410`); the caller is the
  control-C handler (`coralnpu_sim.cc:55`).
* `runBeforeWait`: `Run()` between `run_status_ = kHalted` and `Notify()`
  replaces the notification, and two threads notify the new one
  (`coralnpu_top.cc:415`, against the comment at 413).
* the Renode agent sums its chunks in a `uint32_t`, so the count of a step of
  2^32 instructions or more wraps (`renode_mpact.cc:296`, against
  `renode_mpact.h:68`); `StepExact` holds below.
* `clearAtStop`: clearing the breakpoint one is stopped at, then resuming,
  plants its ebreak again (`coralnpu_top.cc:312`).
* `breakOnPause`: `Run()` drops the halt that the instruction under the
  breakpoint asks for, since it clears `halted_` afterwards
  (`coralnpu_top.cc:410`).
* `runBeforeWait` also lets the destructor return before a thread has ended
  (`coralnpu_top.cc:118`).
* a strided vector access whose elements begin at address 0 and end at the last
  address has a range of 2^32 bytes, which the cast to `uint32_t` makes 0;
  `HasPermission` is then asked about no byte at address 0, answers yes if a
  region permits it there (the ITCM, for loads), and the elements go unchecked
  (`coralnpu_v2_instructions.cc:154`, against the comment at 124, "Returns true if
  the entire range has the required permissions").
* a handle configured for M4 reports V2 (`coralnpu_cosim_dpi_wrapper.cc:83`,
  against `coralnpu_cosim_dpi.h:92`, "Return the configured architecture of the
  simulator.").
* the first id of the Renode agent is 0 (`renode_mpact.cc:95`, against
  `renode_mpact.h:30`).
* `Run()` of the hardware simulator only sets the pc (`mpact_simulator.cc:374`,
  against `coralnpu_simulator.h:26`), and its region over all of memory ends one
  byte early (`mpact_simulator.cc:253`).
* checks that fill the ITCM exactly overwrite the mpause at 8188, which is where
  the trap handler of the preamble returns to (`orchestrator.cc:57`, `:168`);
  `ExitKept` states this as the only way to lose it.
* a child whose parent's mutable part ended in nops inherits checks of the
  parent's terminal state inside its own mutable part (`orchestrator.cc:20`).
* a sequence with a corrupted trap handler that is filed under another detector
  still gets checks (`orchestrator.cc:217`).
* reading `mtvec` counts as corrupting it, and reading `fflags` as a denormal
  operand (`execution_tracker.cc:116`, `:186`); a trap whose epc is 0 would not
  be seen (`random_simulator.cc:372`).
* vector arithmetic: `vdmulh.rn` gives the floor of x - 1/2 for a negative
  product x, one less than the nearest value in some cases; `vhsub.r` of
  the highest and the lowest value wraps; a shift by the lowest `int` fails a
  CHECK (`coralnpu_vector_instructions.cc:865`).
* `vdwconv` with an invalid sparsity traps and then goes on
  (`coralnpu_vector_convolution_instructions.cc:211`), and `adwinit` writes a
  quarter of a buffer that is not cleared
  (`coralnpu_vector_memory_instructions.cc:394`); a post-increment drops the
  magic bit of the address.
* bfloat16: the base body accepts every mode that is not reserved for widening and
  does not look at `mstatus.fs` (`coralnpu_zfbfmin_test.cc:161`,
  `TrapWhenFsDisabled`, expects a trap); `FcvtSBf16` of M3
  looks for the NaN box in the low word only; the base vector body ignores vl,
  vstart and the mask, and its widening writes one destination register.
* `fsw` is checked for 8 bytes and stores 4; a refused `jalr` still writes its
  link register; a tile access with vl = 0 at an unmapped base traps; a
  unit-stride segment is checked as one access, the others field by field.
* the Renode memory mixes bytes and units when a unit is larger than a byte
  (`coralnpu_renode_memory.cc:33`, `:161`); every caller uses one byte. A vector
  store that fails an assertion has already stored its earlier elements.

### Bounds

`top_*`: three addresses (one to stop at, one to step to, one that ends the
program), two or three runs (a run that ends while the next begins, and one
more), steps of one and two, one concurrent `Halt()`. The hazards are about
two threads and one breakpoint; the theorems are for any number.
`hosts`, for the DPI: eight addresses, overlapping and adjacent regions, one that reaches the
last address, two added ranges; for the agent: an `int` of two bits, requests of up
to three chunks, below the wrap, two instances and two calls; for the DMA:
twelve words, two descriptors, five images (two transfers in a row, one over the
second descriptor, a circle, one over its own source with a flag beside its
length followed by one over the first descriptor, one over its own successor
word) and three stores or calls, which can also break, close and lengthen a
chain; for the Renode memory: blocks of three
bytes, a last block that is partly used, accesses over up to three blocks and the
end of the address space, rows that wrap around it behind masked-off elements, two
accesses that may overlap in time. `orch`: an ITCM of nine words with
a preamble of two, checks of one, two and two words (none, some or all of them
fit, with and without room for the mpause), three detectors (two to fill a bin,
one to be lost), counts up to two, one inserted word per mutation, three
iterations (a child of a child); simulations of every program of three words
from thirteen between preamble and mpause, with a step limit of six (long enough
for a loop and a distance of three) and groups of up to two registers.
`vector`: registers of 16 bytes, so that four words and quads exist, elements of
one and two bytes, every instruction strip-mined and not, its destination apart
from and on top of each source; lanes of four bits exhaustively, and lanes of
eight bits with one operand exhaustive and the other at the boundaries. `execution`:
halves of five bits and singles of ten, in which every value, tie and overflow
occurs; eight vector registers of four halves, LMUL 1, 2, 1/2 and a reserved
one; for the memory instructions sixty-four addresses with five regions, one at address 0, two that
touch and differ in permission, one of code and one at the end of the space; up
to three elements, both signs of stride, fields, masks, vstart, and strides with
which the elements span the whole space.
Regions are disjoint: where they overlap, the first one that contains the range
and the first one that contains an element may differ.

### Fairness

`top_live` assumes weak fairness of each started thread and of a
call that has begun: the operating system schedules runnable threads, no step
between two atomics blocks, and the only blocking calls are the waits for a
notification, which are disabled until it is given. Nobody is obliged to make
a call. `hosts` assumes that a started DMA walk goes on, as it is a loop of the
running thread; programs are not assumed to halt. For the Renode memory it assumes that a call
that has begun runs to its end, being straight code, and that the clock goes on
(Renode advances the delay line every cycle).

`hosts` does not check for deadlock because the numbers of calls and requests are
bounded; `vector` and `execution` do not because their programs end.

## 4. Proofs

Each theorem below is checked by TLAPS for every value of the constants that
satisfies the module's `ASSUME` (which TLC evaluates in every run) and, where one
is named, the hypothesis of the theorem. Each names the property that a run
checks, so the run shows on a small instance what the theorem shows in general.

### Run control (`CoralNPUTopProofs`)

* `TypeCorrect`: `TypeOK` is inductive, with a lemma for the operations on memory
  (`CodeType`), one for executing an instruction (`ExecuteType`), one for what
  every thread does (`AdvanceType`) and one for the calls (`StepType`).
* `Exclusion`: `CoreExclusive`, under all call patterns. It is not inductive: it
  does not say why a thread that is being started finds the core free.
  `ExclusionInv` relates `run_status_` to the places of the threads (running from
  before the thread starts until it has left the core, the debugger thread
  outside for as long).
* `Recoverable` (`OriginalsSafe`) and `DecodingsAreCurrent` (`CacheCoherent`), if no
  client overwrites a word that was decoded or saved (`patchDecoded` is not in
  `Risky`). The invariant `Faithful` says that memory, saved words and cache are
  those of the program; the operations on memory preserve it (`FaithfulOps`) and
  so does every step (`FaithfulStep`).
* `RunsEndQuietly` (`EndsQuietly`), if each run is waited for before the next one
  (`runBeforeWait` is not in `Risky`). `EndsInv` ties `run_halted_` to the one
  thread that has not ended.
* `DebuggingIsTransparent` (`PcIsArch`), `BreakpointsAreExact` (`PlantedExactly`)
  and `StopsAreTruthful` (`StopsTruthful`), under `CarefulAlone`: a careful
  debugger, and no second caller of `Halt()`. Both parts of the hypothesis are
  needed: `top_halt_v` refutes `PcIsArch` with one such call, and the list in
  section 3 has a counterexample for every call pattern. None of the three is
  inductive. `CarefulInv` says, place by place, what a thread's locals know of
  the program: where `lpc` is the pc of the next instruction and where of the one
  just executed (`Placed`), that a thread about to start has a clean slate
  (`Starting`), what a request to halt will find (`Requesting`, `Stopping`), and
  that memory differs from the program by the planted ebreaks and at most one
  lifted one (`MemoryExact`).

### Memory regions and DPI (`CosimDpiProofs`)

`CallsAreHonored`, `GrantsAreSound` and the action property `AnswersAreStable`, for
every address space, every list of regions, overlapping or not, and every
configuration. `CallsAreHonored` is about effect: the simulator runs with the
accepted architecture and start address, and an access inside an accepted ITCM or
range is refused only where a region that was in the list before it (a default
one, for ranges also the ITCM) contains the access and withholds the permission.

It is not inductive. `DpiInv` says how the list of regions came about: a handle
that is only created has default options and nothing accepted (`Unbuilt`; without it
a lazily initialized handle could be missing a range), the regions of the
options come first and only load/store ranges behind them (`InFront`), the
configured ITCM is the last of the former (`Configured`) and every accepted range
is among the latter (`Listed`). From there `FirstDecides` and `ListedIsInEffect`
lead to answers: a region in the list is in effect up to those in front of it
with fewer permissions. `GrantedIsCovered` and `AnswerKept` are the facts about
`HasPermission` for the other two.

### Renode agent (`RenodeProofs`)

`AgentIsConsistent` and `IdsAreNotReused`, for every width of `int` and of the sum; `StepsAreExact` if no request reaches the wrap (`MaxNum < Wrap`), which
is the condition under which the code is right. `AgentInv` adds that ids are below
the counter (`IdsBelow`) and that a call in progress is the last one made
(`CallIsLast`); `TotalExact` that the sum is the number of
instructions executed so far.

### Renode memory (`RenodeProofs`)

`BlocksImplementFlat`: `Spec => ImplementsFlat`, the refinement of `FlatMemory`, for
all block and memory sizes, latencies, element counts, sizes, masks and
addresses. One lemma per action shows that it maps to a step of `FlatMemory` or
to a stutter; copying inside an element is a stutter because `FlatByte` and
`FlatAccess` already count it (`HelperStutters`). The invariant `MemInv` says that a
running copy stays inside memory and data buffer (`CallInside`), which bounds the
index into the block map, and that results in the delay line are told apart by
their ids (`LineDistinct`).

### Hardware simulator (`HwSimProofs`)

`DmaCopiesItsChain` (`DmaCopies`), for tame chains of any length, on top of the type
invariant (`HwTypes`). `WalkInv` splits the chain into the
descriptors already walked, whose transfers have happened, and the rest, whose
descriptors, sources and targets are as they were; that the next descriptor is not
among the walked ones follows from none leading back to itself.

### Orchestrator and random simulator (`FuzzerProofs`)

`NoDiscoveryLost` (`CoverageComplete`) and `ImagesStayWellFormed`
(`ImageWellFormed`), for every size of the image, number of
checks, detectors, mutations and iterations. `Covered` says why a run that is
turned away covers nothing new: a detector in no coverage has an empty bin, and
`ExtractDescriptor` prefers those. `Sound` is the shape of an image that
mutations and appended checks preserve; its part `NopsLast` (behind the mutable
part, nops are followed only by padding) is what no property states and what
makes the scan for the end of the code stop at the right word. The least-number
principle is proved from the well-foundedness of the naturals (`Least`,
`Greatest`).

`RunsAreJudged` (`RunJudged`), for every program and step limit: `RunInv` ties the
trace of executed instructions to the flags that the loop breaks on and the
verdict that follows.

`HazardsAreExact` (`HazardsExact`), for every program, trace, register file and
group size: the counters of opcodes and of read-after-write distances are the
numbers of instructions and of reads in the trace that they stand for. The
property is not inductive, as it does not say what the tracker remembers;
`HazardInv` adds that `last_written_cycle_` holds exactly the last writer of each
register in what was shown. The count of a distance is the cardinality of a set
of reads of the whole trace, and a further instruction adds to it the disjoint
set of its own reads; that `OnInstruction` adds their number is a bijection
between those reads and the registers of the operands that it visits. No
induction over the trace is needed: each step extends both sides by one
instruction.

### Memory instructions (`V2AccessProofs`)

`NothingIsUnchecked` (`NothingUnchecked`) and `FaultsArePrecise` (`FaultsPrecise`),
for every address space, number of elements, stride, size, mask, start, number of
fields and index values. They assume of the regions what `AddMemoryRegion` does not
check: none reaches over the end of the address space (`RegionsFit`, for what is
touched), which holds of all regions in the repository, and no two overlap
(`RegionsApart`), which holds of the default regions, while the program segments
that `CoralNPUSimulator` adds (`coralnpu_simulator.cc:234`) may lie inside one of
them. `TouchedIsInside` needs only the first: every byte touched lies in some region
with the permission. Without the second the region that contains a whole range
and the first region that contains a byte of it may differ, and `HasPermission`
answers by the latter.

The invariant `Judged` is simple, as an instruction is one step; the argument is in
the lemmas about the operators. `Wrapped` and `NotWrapped` are the arithmetic of
addresses. `RangeInside` shows that a range permitted by `HasRangePermission` holds
every element: they lie between the first and the last one, as multiples of a
stride of one sign are monotonic, and none wraps. It is here that the cast of the
size to 32 bits came to light. `VisitFinds` shows that `FirstFault` finds nothing only
if all checks hold, and otherwise the first that fails. `PlanSound` says of each of
the six forms of vector instruction that its checks cover what is touched
(`Covers`) and are those that the instruction set asks for (`Matches`);
`IndexGathered` that an index put together from one register of a group is that of
the group as one array.

### Conversions (`ZfbfminProofs`)

All three are for every width of exponent and fraction. `PowersOfTwo` states the
laws of powers that they use: they are true of all numbers, but the provers know
no power whose exponent is not a literal, and the induction that would give them
is out of reach. TLC evaluates the assumption for the formats of the run.

* `ConversionsAreExact` (`ConversionExact`): every body narrows every single, in
  every rounding mode, to a neighbour that the mode allows, with the right flags
  (but for the underflow that the base body never raises, see `bf16_uf_v`), and widens every half exactly. A word splits into sign, exponent and fraction
  in one way (`Splits`); the value of a pattern (`Mag`, `HalfMag`) grows with the
  pattern and is linear within a binade, across the subnormal border and into the
  infinities too, so that truncating a word gives the half below it and one more
  the half above (`Neighbours`); `Choice` compares the guard and sticky bits of
  the code with the distance to each. `BodiesAgree` and `FlagFacts` carry this
  from one body to the others, `NaNConverted` has the NaNs.
* `RoundTripExact` (`RoundTrip`): a half that was widened narrows to itself.
  `SourceInv` says what a register that a widening has written still holds.
* `ElementsAreExact` (`ElementsExact`): a vector conversion changes exactly the
  active elements of its group. The code walks registers and elements, the
  property speaks of a flat array of halves; `Counts`, `GroupInside` and
  `VlInside` relate them for every LMUL.

### Vector arithmetic and lanes (`VectorProofs`)

* `ArithmeticIsExact` (`ArithmeticExact`): every lane function that adds,
  subtracts, multiplies, compares or saturates gives the mathematical result,
  wrapped or saturated as its name says, for every width of a lane up to that of
  `int` and every operand. `HalfRange` gives the limits of a type in terms of a
  number m with m values on each side of zero; `CastUnique` says that a cast is
  the one number of the type that is congruent to its argument, `CastShift` and
  `CastCongruent` follow it through intermediate casts to `int` and to the
  unsigned type, and `ProductBounds` shows where a product can leave the wide
  type. `LanePowers` states the laws of powers, as above.
* `RoundingIsExact` (`RoundingExact`): halving additions and subtractions, the
  high halves of products and the narrowing shifts round as they say. A right
  shift is a floor (`FloorShift`), adding half before it the nearest
  (`NearestShift`), for every shift amount and beyond the width (`ShiftedBeyond`).
* `ShiftsAreExact` (`ShiftExact`, half of `ShiftsAndBitsExact`): the shift by a
  signed amount rounds to the right and saturates to the left, for every amount
  but the one whose negation overflows an `int`. `NothingLeft` is the shift by the
  width or more, which the code treats apart; `RightShift` shows that a smaller one
  stays in the lane; `SignedLeft` that shifting a negative operand as an unsigned
  number of twice the width still gives the exact product, so that comparing it
  with the limits finds every overflow.
* `OperandsAlwaysFit` (`OperandsFit`): for every register width, program and op,
  no getter reads outside of the group that the encoding gave its operand. There
  is one lemma for each family of getters; the invariant `OpInv` bounds the op
  index by the number of ops.
* `LanesAreRight` (`LanesRight`): after a lane instruction every element of its
  destination is the lane function of the elements that it names, as they were
  before, and all other registers are unchanged, for every width and number of
  registers and every program. `LanesRight` speaks of finished instructions only;
  `LanesInv` adds what holds between two ops: the registers written so far
  (`Written`) hold what the ops before computed *from the old registers*, and all
  others are untouched (`Partial`). That an op still finds its operands is the
  point: for each kind and source, either `InPlaceOK` does not let the destination
  lie on top of it, or the op reads only registers of it that no earlier op has
  written (`Careful`, `Ahead`).
  That the element it reads is the one of the reference is `Right`. Both are
  proved for each family (`BinaryExact`, `WidenExact`, `AccExact`, `PackedExact`,
  `NarrowExact`, `SlidenExact`, `SlidepExact`, `EvnOddExact`, `ZipExact`,
  `MvpExact`) and joined in `EveryKindExact`; `PartialStep` is one op,
  `PartialLast` the step from registers to elements. Without `Placed`
  an op could write a register that does not exist.

### Only model-checked

* Liveness (`HaltStops`, `CallsReturn`, `DmaEnds`, `LoadsAnswered`): fairness is out of
  the prover's reach.
* `OrderRestored` and `WalkReadsBack`: each is about what a whole program leaves
  behind, and relates data that went through several instructions of different
  kinds to the initial state. That of a single lane instruction is proved.
* The half of `ShiftsAndBitsExact` about bits counts and reverses the digits of a
  number, a recursion over the width, which takes an induction over data; its
  half about shifts is `ShiftsAreExact`.

## 5. Not modelled

* Trace files, counters, image loading and the command lines carry no control.
* Decoders, the assembler, the rest of the encodings and the database are
  tables, text processing or generated code.
* The facade `CoralNPUSimulator` and `coralnpu_renode.cc` pass calls on. MPACT-Sim
  and mpact-riscv (`DecodeCache`, `BreakpointManager`, `RiscVTop`, delay lines,
  the memory instructions themselves) are external and modelled only by what the
  code here uses of them.
* The generator in `isg/` chooses instructions at random and writes text; only
  the layout of what it builds is modelled. The log instructions format text.
* The values of convolution products, and the element types of more than eight
  bits in exhaustive runs; the fourfold narrowing shift shares its arithmetic
  with the twofold one, which is the one checked.
* Moves between register files (`FMvxh` and the like) and `mpause` of V2 are
  single assignments or calls.
* In `CoralNPUTop`, an instruction that waits for a resource is retried inside
  one step. Data races inside the external decode cache are not modelled;
  exclusive use of the core is what rules them out, except for `GetInstruction`,
  which is one atomic lookup.

## 6. Plan

What can be modelled faithfully is. Left to prove: `OrderRestored` for the programs
of two lane instructions, from `LanesAreRight`; the others need the convolutions
as sums over sets.
