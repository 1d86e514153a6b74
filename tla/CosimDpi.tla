------------------------------- MODULE CosimDpi -------------------------------
(***************************************************************************)
(* The DPI wrapper that lets an RTL testbench step the simulator           *)
(* (coralnpu_cosim_dpi_wrapper.cc): one global MpactHandle, which is       *)
(* created by mpact_init, initialized by mpact_config or, lazily and with  *)
(* the default options, by the first call that needs a simulator, and      *)
(* thrown away by mpact_fini and mpact_reset.                              *)
(*                                                                         *)
(* A call that is refused (null handle, null argument, wrong phase)        *)
(* changes nothing and is not a step.  mpact_get_architecture answers from *)
(* the options and changes nothing either.  The simulator behind the       *)
(* handle is external: of its state the pc and the memory regions are      *)
(* kept.                                                                   *)
(***************************************************************************)
EXTENDS MemoryRegions

CONSTANTS
    DefaultRegions,   (* memory_regions of CoralNPUSimulatorOptions        *)
    Configs,          (* the sim_config_t values the testbench uses        *)
    Ranges,           (* the load/store ranges it adds                     *)
    MaxRanges         (* bound: the number of ranges added to one handle   *)

Architecture == {"V2", "M3", "M4"}
Config       == [arch : Architecture, start : Address, length : Address]
DefaultArch  == "V2"
DefaultStart == 0

ASSUME DpiConstants ==
    /\ DefaultRegions \in Seq(Region)
    /\ Configs \subseteq Config
    /\ Ranges \subseteq [start : Address, length : Address]
    /\ MaxRanges \in Nat

None == [arch |-> DefaultArch, start |-> DefaultStart, length |-> 0]

VARIABLES
    handle,     (* g_mpact_handle: null, created, or ready (initialized)   *)
    options,    (* options_ of the handle                                  *)
    regions,    (* memory_regions_ of the simulator's state                *)
    pc,         (* the pc register of the simulator                        *)
    config,     (* history: the config accepted for this handle, or None   *)
    granted,    (* history: the ranges accepted for this handle            *)
    asked       (* history: the config accepted last since mpact_init, or  *)
                (* None; mpact_reset does not make the testbench forget it *)

dpivars == <<handle, options, regions, pc, config, granted, asked>>

DefaultOptions ==
    [arch |-> DefaultArch, start |-> DefaultStart, regions |-> DefaultRegions]

NewHandle ==
    /\ handle' = "created"
    /\ options' = DefaultOptions
    /\ regions' = <<>> /\ pc' = 0
    /\ config' = None /\ granted' = {}

DpiInit ==
    /\ handle = "null" /\ options = DefaultOptions
    /\ regions = <<>> /\ pc = 0
    /\ config = None /\ granted = {} /\ asked = None

--------------------------------------------------------------------------------
mpact_init ==
    /\ handle = "null"
    /\ NewHandle
    /\ asked' = None

(* MpactHandle::Init for options o: build the simulator, set its pc.       *)
InitHandle(o) ==
    /\ handle' = "ready"
    /\ options' = o
    /\ regions' = o.regions
    /\ pc' = o.start

(* The configured ITCM is added behind the default regions.                *)
ConfiguredOptions(c) ==
    [arch |-> c.arch, start |-> c.start,
     regions |-> AddMemoryRegion(options.regions, c.start, c.length,
                                 ReadWriteExecute)]

mpact_config(c) ==
    /\ handle = "created"
    /\ InitHandle(ConfiguredOptions(c))
    /\ config' = c /\ asked' = c
    /\ UNCHANGED granted

(* mpact_config(nullptr) keeps the default options.                        *)
mpact_config_null ==
    /\ handle = "created"
    /\ InitHandle(options)
    /\ asked' = None
    /\ UNCHANGED <<config, granted>>

(* Faulty variant: the range is accepted before there is a simulator.      *)
AddRangeTooEarly(start, length) ==
    /\ handle # "null" /\ Len(regions) < Len(options.regions) + MaxRanges
    /\ regions' = IF handle = "ready"
                  THEN AddMemoryRegion(regions, start, length, ReadWrite)
                  ELSE regions
    /\ granted' = granted \cup {[start |-> start, length |-> length]}
    /\ UNCHANGED <<handle, options, pc, config, asked>>

mpact_add_load_store_range(start, length) ==
    /\ handle = "ready" /\ Len(regions) < Len(options.regions) + MaxRanges
    /\ regions' = AddMemoryRegion(regions, start, length, ReadWrite)
    /\ granted' = granted \cup {[start |-> start, length |-> length]}
    /\ UNCHANGED <<handle, options, pc, config, asked>>

(* The program's words go to memory, its entry point to the pc.            *)
mpact_load_program(entry) ==
    /\ handle = "ready"
    /\ pc' = entry
    /\ UNCHANGED <<handle, options, regions, config, granted, asked>>

(* mpact_fini, when there is a handle, and mpact_init.                     *)
mpact_reset == NewHandle /\ UNCHANGED asked

mpact_fini ==
    /\ handle # "null"
    /\ handle' = "null"
    /\ UNCHANGED <<options, regions, pc, config, granted, asked>>

(* What a call that needs a simulator finds: the one there is, or one made *)
(* with the options of the handle.                                         *)
LazyInit ==
    /\ handle # "null"
    /\ handle' = "ready"
    /\ regions' = IF handle = "ready" THEN regions ELSE options.regions
    /\ UNCHANGED <<options, config, granted, asked>>

LazyPc == IF handle = "ready" THEN pc ELSE options.start

(* The instruction is stored at the pc, past the permissions, and executed *)
(* there; an instruction is one address wide here. It falls through or     *)
(* goes to some target.                                                    *)
mpact_step(jumps, target) ==
    LazyInit /\ pc' = IF jumps THEN target ELSE (LazyPc + 1) % Space

(* mpact_is_halted, mpact_get_register and mpact_get_vector_register.      *)
mpact_query == LazyInit /\ pc' = LazyPc

mpact_set_pc(value) == LazyInit /\ pc' = value

DpiNext ==
    \/ mpact_init \/ mpact_config_null \/ mpact_reset \/ mpact_fini \/ mpact_query
    \/ \E c \in Configs : mpact_config(c)
    \/ \E r \in Ranges : mpact_add_load_store_range(r.start, r.length)
    \/ \E a \in Address : mpact_load_program(a) \/ mpact_set_pc(a)
    \/ \E a \in Address, jumps \in BOOLEAN : mpact_step(jumps, a)

DpiSpec == DpiInit /\ [][DpiNext]_dpivars

--------------------------------------------------------------------------------
(* Properties.                                                             *)

(* The type invariant of the DPI wrapper.                                  *)
DpiTypeOK ==
    /\ handle \in {"null", "created", "ready"}
    /\ options \in [arch : Architecture, start : Address, regions : Seq(Region)]
    /\ regions \in Seq(Region) /\ pc \in Address
    /\ {config, asked} \subseteq Config
    /\ granted \subseteq [start : Address, length : Address]

(* No access is let through that the regions do not cover: each byte of it *)
(* lies, without wrapping around the address space, in some region with    *)
(* the wanted permissions (HasPermission).                                 *)
GrantsSound ==
    handle = "ready" =>
        \A a \in Address, n \in 1 .. Space - 1, p \in {ReadWrite, {"execute"}} :
            HasPermission(regions, a, n, p) =>
                \A b \in a .. a + n - 1 :
                    \E i \in DOMAIN regions :
                        /\ b \in regions[i].start ..
                                 regions[i].start + regions[i].length - 1
                        /\ p \subseteq regions[i].perm

(* While one simulator lives, an answer of HasPermission about an access   *)
(* some region contains never changes: a range added later cannot take     *)
(* away, nor add to, what an earlier region says (AddMemoryRegion appends  *)
(* and the first match decides).                                           *)
AnswersStay ==
    [][handle = "ready" /\ handle' = "ready" /\ Len(regions') > Len(regions) =>
          \A a \in Address, n \in 1 .. Space - 1, p \in {{"read"}, ReadWrite} :
              (\E i \in DOMAIN regions : Contains(regions[i], a, n)) =>
                  (HasPermission(regions', a, n, p)
                      <=> HasPermission(regions, a, n, p))]_dpivars

(* The range r has the permissions p: an access inside it is refused them  *)
(* only where one of the first `front' regions of the list contains the    *)
(* access and withholds them.                                              *)
InEffect(r, p, front) ==
    \A a \in Address, n \in 1 .. Space - 1 :
        (Contains(r, a, n) /\ ~HasPermission(regions, a, n, p)) =>
            \E i \in DOMAIN regions :
                i <= front /\ Contains(regions[i], a, n) /\ ~(p \subseteq regions[i].perm)

(* "This function should be called after mpact_init": a configuration for  *)
(* which mpact_config returned 0 is the one the simulator runs with, even  *)
(* if an earlier call has initialized the handle lazily, and its ITCM can  *)
(* be read, written and executed but where a default region withholds it.  *)
ConfigApplied ==
    (handle # "null" /\ config # None) =>
        /\ handle = "ready"
        /\ options.arch = config.arch /\ options.start = config.start
        /\ InEffect(config, ReadWriteExecute, Len(DefaultRegions))

(* A range for which mpact_add_load_store_range returned 0 can be loaded   *)
(* and stored, whichever calls came before or after it, but for accesses   *)
(* that a region of the options - a default one or the configured ITCM,    *)
(* which come first in the list - contains and withholds: no other range   *)
(* ever takes it away.                                                     *)
RangesKept ==
    handle # "null" =>
        \A r \in granted : InEffect(r, ReadWrite, Len(options.regions))

(* What a call of the testbench was answered with 0 for is in effect while *)
(* the handle lives, in any order of the calls, except where a region that *)
(* was there before it decides otherwise.                                  *)
CallsHonored == DpiTypeOK /\ ConfigApplied /\ RangesKept

--------------------------------------------------------------------------------
(* What the header promises without those exceptions.                      *)

(* "Configure the MPACT simulator to allow LOAD/STORE access to a memory   *)
(* range.  Return 0 on success": every access inside a range that was      *)
(* answered with 0 is allowed (mpact_add_load_store_range).                *)
RangesAllowed ==
    handle # "null" =>
        \A r \in granted, a \in Address, n \in 1 .. Space - 1 :
            Contains(r, a, n) => HasPermission(regions, a, n, ReadWrite)

(* "Reset the MPACT simulator's architectural state": mpact_reset leaves   *)
(* the configuration alone, so a simulator that runs after it is still the *)
(* one that was asked for, until another configuration is.                 *)
ResetKeepsConfig ==
    (handle = "ready" /\ asked # None) =>
        options.arch = asked.arch /\ options.start = asked.start

================================================================================
