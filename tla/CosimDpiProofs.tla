---------------------------- MODULE CosimDpiProofs ----------------------------
(***************************************************************************)
(* Proofs about the DPI wrapper and the memory regions behind it, for      *)
(* every address space, every set of configurations and ranges, and any    *)
(* number of calls in any order.                                           *)
(***************************************************************************)
EXTENDS CosimDpi, WellFoundedInduction, TLAPS

(* An added region goes behind the ones there are and moves none of them   *)
(* (AddMemoryRegion).                                                      *)
LEMMA AddedLast ==
    ASSUME NEW s \in Seq(Region), NEW start \in Address, NEW length \in Address,
           NEW perm \in Permission
    PROVE  LET r == [start |-> start, length |-> length, perm |-> perm]
               t == AddMemoryRegion(s, start, length, perm)
           IN  /\ t \in Seq(Region) /\ Len(t) = Len(s) + 1
               /\ DOMAIN t = 1 .. Len(s) + 1 /\ DOMAIN s = 1 .. Len(s)
               /\ \A i \in DOMAIN s : t[i] = s[i]
               /\ t[Len(s) + 1] = r
<1> DEFINE r == [start |-> start, length |-> length, perm |-> perm]
<1>1. r \in Region
  BY DEF Region
<1>2. AddMemoryRegion(s, start, length, perm) = Append(s, r)
  BY DEF AddMemoryRegion
<1>3. QED
  BY <1>1, <1>2

(* A granted access lies, without wrapping around, in one region that has  *)
(* the permissions (HasPermission).                                        *)
LEMMA GrantedIsCovered ==
    ASSUME NEW s \in Seq(Region), NEW a \in Address, NEW n \in 1 .. Space - 1,
           NEW p, HasPermission(s, a, n, p)
    PROVE  \E i \in DOMAIN s :
               /\ p \subseteq s[i].perm
               /\ \A b \in a .. a + n - 1 :
                      b \in s[i].start .. s[i].start + s[i].length - 1
<1>1. PICK i \in DOMAIN s : Decides(s, i, a, n) /\ p \subseteq s[i].perm
  BY DEF HasPermission
<1>2. s[i] \in Region
  BY <1>1
<1>3. s[i].start \in Int /\ s[i].length \in Int /\ a \in Int /\ n \in Int
  BY <1>2, SpaceIsPositive DEF Region, Address
<1>4. a >= s[i].start /\ a + n <= s[i].start + s[i].length
  BY <1>1 DEF Decides, Contains
<1>5. \A b \in a .. a + n - 1 : b \in s[i].start .. s[i].start + s[i].length - 1
  BY <1>3, <1>4
<1>6. QED
  BY <1>1, <1>5

(* Appending a region leaves the answer about every access that an earlier *)
(* region contains: the one that decides is still the first.               *)
LEMMA AnswerKept ==
    ASSUME NEW s \in Seq(Region), NEW t \in Seq(Region),
           Len(t) > Len(s), \A i \in DOMAIN s : t[i] = s[i],
           NEW a, NEW n, NEW p,
           \E i \in DOMAIN s : Contains(s[i], a, n)
    PROVE  HasPermission(t, a, n, p) <=> HasPermission(s, a, n, p)
<1>1. /\ DOMAIN s = 1 .. Len(s) /\ DOMAIN t = 1 .. Len(t)
      /\ Len(s) \in Nat /\ Len(t) \in Nat
  OBVIOUS
<1>2. DOMAIN s \subseteq DOMAIN t
  BY <1>1
<1>3. ASSUME HasPermission(s, a, n, p)
      PROVE  HasPermission(t, a, n, p)
  <2>1. PICK i \in DOMAIN s : Decides(s, i, a, n) /\ p \subseteq s[i].perm
    BY <1>3 DEF HasPermission
  <2>2. \A j \in DOMAIN t : j < i => j \in DOMAIN s
    BY <1>1
  <2>3. Decides(t, i, a, n)
    BY <1>2, <2>1, <2>2 DEF Decides
  <2>4. QED
    BY <1>2, <2>1, <2>3 DEF HasPermission
<1>4. ASSUME HasPermission(t, a, n, p)
      PROVE  HasPermission(s, a, n, p)
  <2>1. PICK i \in DOMAIN t : Decides(t, i, a, n) /\ p \subseteq t[i].perm
    BY <1>4 DEF HasPermission
  <2>2. PICK k \in DOMAIN s : Contains(s[k], a, n)
    OBVIOUS
  <2>3. k \in DOMAIN t /\ Contains(t[k], a, n)
    BY <1>2, <2>2
  <2>4. ~(k < i)
    BY <2>1, <2>3 DEF Decides
  <2>5. i \in DOMAIN s
    BY <1>1, <2>1, <2>2, <2>4
  <2>6. Decides(s, i, a, n)
    BY <1>2, <2>1, <2>5 DEF Decides
  <2>7. QED
    BY <2>1, <2>5, <2>6 DEF HasPermission
<1>5. QED
  BY <1>3, <1>4

(* An access that some region contains has one that decides about it, and  *)
(* none that comes later in the list.                                      *)
LEMMA FirstDecides ==
    ASSUME NEW s \in Seq(Region), NEW a, NEW n, NEW k \in DOMAIN s,
           Contains(s[k], a, n)
    PROVE  \E i \in DOMAIN s : i <= k /\ Decides(s, i, a, n)
<1> DEFINE T == {j \in DOMAIN s : Contains(s[j], a, n)}
<1>1. T \subseteq Nat /\ T # {} /\ k \in T
  OBVIOUS
<1>2. PICK i \in T : \A j \in T : ~(<<j, i>> \in OpToRel(<, Nat))
  BY <1>1, NatLessThanWellFounded, WFMin
<1>3. \A j \in T : ~(j < i)
  BY <1>1, <1>2 DEF OpToRel
<1>4. i \in DOMAIN s /\ i <= k
  BY <1>1, <1>3
<1>5. \A j \in DOMAIN s : j < i => ~Contains(s[j], a, n)
  BY <1>3
<1>6. QED
  BY <1>4, <1>5 DEF Decides

(* A region of the list has the permissions of its range but where one of  *)
(* the first `front' regions withholds them, if every region after those   *)
(* and up to it has them (HasPermission).                                  *)
LEMMA ListedIsInEffect ==
    ASSUME regions \in Seq(Region), NEW r, NEW p, NEW front \in Nat,
           NEW k \in DOMAIN regions,
           regions[k].start = r.start, regions[k].length = r.length,
           \A i \in DOMAIN regions : front < i /\ i <= k => p \subseteq regions[i].perm
    PROVE  InEffect(r, p, front)
<1> SUFFICES ASSUME NEW a \in Address, NEW n \in 1 .. Space - 1,
                    Contains(r, a, n), ~HasPermission(regions, a, n, p)
             PROVE  \E i \in DOMAIN regions :
                      /\ i <= front /\ Contains(regions[i], a, n)
                      /\ ~(p \subseteq regions[i].perm)
  BY Zenon DEF InEffect
<1>1. Contains(regions[k], a, n)
  BY DEF Contains
<1>2. PICK i \in DOMAIN regions : i <= k /\ Decides(regions, i, a, n)
  BY <1>1, FirstDecides
<1>3. ~(p \subseteq regions[i].perm)
  BY <1>2 DEF HasPermission
<1>4. i \in Nat /\ i <= front
  BY <1>2, <1>3
<1>5. QED
  BY <1>2, <1>3, <1>4 DEF Decides

--------------------------------------------------------------------------------
(* What CallsHonored needs to be inductive.  Until the simulator is built  *)
(* nothing has been accepted and the options are the default ones;         *)
Unbuilt ==
    handle = "created" => config = None /\ granted = {} /\ options = DefaultOptions

(* the list begins with the regions of the options, of which a configured  *)
(* ITCM is the last one, and goes on with ranges for loads and stores;     *)
InFront ==
    handle = "ready" =>
        /\ Len(options.regions) <= Len(regions)
        /\ \A i \in DOMAIN options.regions : regions[i] = options.regions[i]
        /\ \A i \in DOMAIN regions :
              i > Len(options.regions) => regions[i].perm = ReadWrite

Configured ==
    (handle # "null" /\ config # None) =>
        /\ handle = "ready"
        /\ options.arch = config.arch /\ options.start = config.start
        /\ Len(options.regions) = Len(DefaultRegions) + 1
        /\ options.regions[Len(DefaultRegions) + 1] =
              [start |-> config.start, length |-> config.length, perm |-> ReadWriteExecute]

(* and every range that was accepted is in it.                             *)
Listed ==
    handle # "null" =>
        \A r \in granted : \E i \in DOMAIN regions :
            regions[i] = [start |-> r.start, length |-> r.length, perm |-> ReadWrite]

DpiInv == DpiTypeOK /\ Unbuilt /\ InFront /\ Configured /\ Listed

(* The invariant holds before the first call.                              *)
LEMMA DpiInvInit == DpiInit => DpiInv
<1> SUFFICES ASSUME DpiInit PROVE DpiInv
  OBVIOUS
<1>1. DefaultStart \in Address /\ 0 \in Address
  BY SpaceIsPositive DEF Address, DefaultStart
<1>2. DpiTypeOK
  BY <1>1, DpiConstants DEF DpiInit, DpiTypeOK, DefaultOptions, DefaultArch, Architecture,
     None, Config
<1>3. QED
  BY <1>2 DEF DpiInit, DpiInv, Unbuilt, InFront, Configured, Listed

(* mpact_add_load_store_range puts the new region last and leaves the      *)
(* others alone.                                                           *)
LEMMA RangeAppended ==
    ASSUME DpiTypeOK, NEW r \in Ranges,
           mpact_add_load_store_range(r.start, r.length)
    PROVE  /\ regions' \in Seq(Region) /\ Len(regions') = Len(regions) + 1
           /\ DOMAIN regions = 1 .. Len(regions)
           /\ DOMAIN regions' = 1 .. Len(regions) + 1
           /\ \A i \in DOMAIN regions : regions'[i] = regions[i]
           /\ regions'[Len(regions) + 1] =
                 [start |-> r.start, length |-> r.length, perm |-> ReadWrite]
<1>1. r \in [start : Address, length : Address] /\ ReadWrite \in Permission
  BY DpiConstants DEF ReadWrite, Permission
<1>2. r.start \in Address /\ r.length \in Address
  BY <1>1
<1>3. regions' = AddMemoryRegion(regions, r.start, r.length, ReadWrite)
  BY DEF mpact_add_load_store_range
<1>4. QED
  BY <1>1, <1>2, <1>3, AddedLast DEF DpiTypeOK

(* Every call keeps the invariant.                                         *)
LEMMA DpiInvStep == DpiInv /\ [DpiNext]_dpivars => DpiInv'
<1> SUFFICES ASSUME DpiInv, [DpiNext]_dpivars PROVE DpiInv'
  OBVIOUS
<1> USE DEF DpiInv
<1>0. /\ DefaultStart \in Address /\ 0 \in Address
      /\ DefaultOptions \in [arch : Architecture, start : Address, regions : Seq(Region)]
      /\ None \in Config /\ <<>> \in Seq(Region)
  BY SpaceIsPositive, DpiConstants
     DEF Address, DefaultStart, DefaultOptions, DefaultArch, Architecture, None, Config
<1>1. CASE mpact_init \/ mpact_reset
  <2>1. NewHandle
    BY <1>1 DEF mpact_init, mpact_reset
  <2>2. asked' \in {None, asked}
    BY <1>1 DEF mpact_init, mpact_reset
  <2>3. DpiTypeOK'
    BY <1>0, <2>1, <2>2 DEF NewHandle, DpiTypeOK
  <2>4. QED
    BY <2>1, <2>3 DEF NewHandle, Unbuilt, InFront, Configured, Listed
<1>2. CASE mpact_config_null
  <2>1. DpiTypeOK'
    BY <1>0, <1>2 DEF mpact_config_null, InitHandle, DpiTypeOK
  <2>2. config' = None /\ granted' = {}
    BY <1>2 DEF mpact_config_null, Unbuilt
  <2>3. QED
    BY <1>2, <2>1, <2>2
       DEF mpact_config_null, InitHandle, Unbuilt, InFront, Configured, Listed,
           DpiTypeOK
<1>3. CASE mpact_fini
  <2>1. DpiTypeOK'
    BY <1>3 DEF mpact_fini, DpiTypeOK
  <2>2. QED
    BY <1>3, <2>1 DEF mpact_fini, Unbuilt, InFront, Configured, Listed
<1>4. ASSUME LazyInit, pc' \in Address
      PROVE  DpiInv'
  <2>1. DpiTypeOK'
    BY <1>4 DEF LazyInit, DpiTypeOK
  <2>2. CASE handle = "ready"
    BY <1>4, <2>1, <2>2 DEF LazyInit, Unbuilt, InFront, Configured, Listed
  <2>3. CASE handle = "created"
    <3>1. config' = None /\ granted' = {} /\ regions' = options.regions
      BY <1>4, <2>3 DEF LazyInit, Unbuilt
    <3>2. QED
      BY <1>4, <2>1, <3>1
         DEF LazyInit, Unbuilt, InFront, Configured, Listed, DpiTypeOK
  <2>4. QED
    BY <1>4, <2>2, <2>3 DEF LazyInit, DpiTypeOK
<1>5. LazyPc \in Address /\ (LazyPc + 1) % Space \in Address
  <2>1. LazyPc \in Address
    BY DEF LazyPc, DpiTypeOK
  <2>2. LazyPc \in Int /\ Space \in Nat /\ Space > 0
    BY <2>1, SpaceIsPositive DEF Address
  <2>3. QED
    BY <2>1, <2>2 DEF Address
<1>6. CASE mpact_query
  BY <1>4, <1>5, <1>6 DEF mpact_query
<1>7. ASSUME NEW a \in Address, mpact_set_pc(a) PROVE DpiInv'
  BY <1>4, <1>7 DEF mpact_set_pc
<1>8. ASSUME NEW a \in Address, NEW jumps \in BOOLEAN, mpact_step(jumps, a)
      PROVE  DpiInv'
  BY <1>4, <1>5, <1>8 DEF mpact_step
<1>9. ASSUME NEW a \in Address, mpact_load_program(a) PROVE DpiInv'
  <2>1. DpiTypeOK'
    BY <1>9 DEF mpact_load_program, DpiTypeOK
  <2>2. QED
    BY <1>9, <2>1 DEF mpact_load_program, Unbuilt, InFront, Configured, Listed
<1>10. ASSUME NEW c \in Configs, mpact_config(c) PROVE DpiInv'
  <2>1. c \in Config /\ ReadWriteExecute \in Permission
    BY DpiConstants DEF ReadWriteExecute, Permission
  <2>2. c.start \in Address /\ c.length \in Address /\ c.arch \in Architecture
    BY <2>1 DEF Config
  <2>3. ConfiguredOptions(c) \in [arch : Architecture, start : Address, regions : Seq(Region)]
    BY <2>1, <2>2, AddedLast DEF ConfiguredOptions, DpiTypeOK
  <2>4. /\ handle' = "ready" /\ options' = ConfiguredOptions(c) /\ config' = c
        /\ asked' = c /\ regions' = options'.regions /\ pc' = options'.start /\ granted' = {}
    BY <1>10 DEF mpact_config, InitHandle, Unbuilt
  <2>5. DpiTypeOK'
    BY <2>1, <2>3, <2>4 DEF DpiTypeOK
  <2>6. options'.arch = config'.arch /\ options'.start = config'.start
    BY <2>4 DEF ConfiguredOptions
  <2>7. /\ options.regions = DefaultRegions
        /\ options'.regions =
              AddMemoryRegion(DefaultRegions, c.start, c.length, ReadWriteExecute)
    BY <1>10, <2>4 DEF mpact_config, Unbuilt, ConfiguredOptions, DefaultOptions
  <2>8. /\ Len(options'.regions) = Len(DefaultRegions) + 1
        /\ options'.regions[Len(DefaultRegions) + 1] =
              [start |-> c.start, length |-> c.length, perm |-> ReadWriteExecute]
    BY <2>1, <2>2, <2>7, DpiConstants, AddedLast
  <2>9. Configured'
    BY <2>4, <2>6, <2>8 DEF Configured
  <2>10. Unbuilt' /\ Listed'
    BY <2>4 DEF Unbuilt, Listed
  <2>11. InFront'
    <3>1. options'.regions \in Seq(Region)
      BY <2>5 DEF DpiTypeOK
    <3>2. Len(options'.regions) \in Nat
          /\ DOMAIN options'.regions = 1 .. Len(options'.regions)
      BY <3>1
    <3>3. QED
      BY <2>4, <3>2 DEF InFront
  <2>12. QED
    BY <2>5, <2>9, <2>10, <2>11
<1>11. ASSUME NEW r \in Ranges, mpact_add_load_store_range(r.start, r.length)
       PROVE  DpiInv'
  <2> DEFINE new == [start |-> r.start, length |-> r.length, perm |-> ReadWrite]
  <2>1. r \in [start : Address, length : Address] /\ ReadWrite \in Permission
    BY DpiConstants DEF ReadWrite, Permission
  <2>2. r.start \in Address /\ r.length \in Address
    BY <2>1
  <2>3. /\ handle = "ready" /\ UNCHANGED <<handle, options, pc, config, asked>>
        /\ regions' = AddMemoryRegion(regions, r.start, r.length, ReadWrite)
        /\ granted' = granted \cup {[start |-> r.start, length |-> r.length]}
    BY <1>11 DEF mpact_add_load_store_range
  <2>4. /\ regions' \in Seq(Region) /\ Len(regions') = Len(regions) + 1
        /\ DOMAIN regions = 1 .. Len(regions) /\ DOMAIN regions' = 1 .. Len(regions) + 1
        /\ \A i \in DOMAIN regions : regions'[i] = regions[i]
        /\ regions'[Len(regions) + 1] = new
    BY <1>11, RangeAppended
  <2>5. DpiTypeOK'
    BY <2>1, <2>2, <2>3, <2>4 DEF DpiTypeOK
  <2>6. Len(regions) \in Nat /\ DOMAIN regions \subseteq DOMAIN regions'
    BY <2>4 DEF DpiTypeOK
  <2>7. options.regions \in Seq(Region)
    BY DEF DpiTypeOK
  <2>8. DOMAIN options.regions \subseteq DOMAIN regions
    BY <2>3, <2>4, <2>6, <2>7 DEF InFront
  <2>9. InFront'
    BY <2>3, <2>4, <2>6, <2>7, <2>8 DEF InFront
  <2>10. Configured'
    BY <2>3, <2>9 DEF InFront, Configured
  <2>11. Listed'
    <3> SUFFICES ASSUME NEW g \in granted'
                 PROVE  \E i \in DOMAIN regions' : regions'[i] =
                          [start |-> g.start, length |-> g.length, perm |-> ReadWrite]
      BY DEF Listed
    <3>1. CASE g \in granted
      BY <2>3, <2>4, <2>6, <3>1 DEF Listed
    <3>2. CASE g = [start |-> r.start, length |-> r.length]
      BY <2>4, <2>6, <3>2
    <3>3. QED
      BY <2>3, <3>1, <3>2
  <2>12. QED
    BY <2>3, <2>5, <2>9, <2>10, <2>11 DEF Unbuilt
<1>12. CASE UNCHANGED dpivars
  BY <1>12 DEF dpivars, DpiTypeOK, Unbuilt, InFront, Configured, Listed
<1>13. QED
  BY <1>1, <1>2, <1>3, <1>6, <1>7, <1>8, <1>9, <1>10, <1>11, <1>12 DEF DpiNext

(* The invariant holds in every state.                                     *)
LEMMA DpiInvariant == DpiSpec => []DpiInv
  BY DpiInvInit, DpiInvStep, PTL DEF DpiSpec

(* While its handle lives, what a call of the testbench was answered with  *)
(* 0 for is in effect: the accepted configuration is the one the simulator *)
(* runs with, and an access inside its ITCM or inside an accepted range is *)
(* refused only where a region that was there before decides about it,     *)
(* in any order and number of init, config, add_load_store_range, step,    *)
(* reset and fini.                                                         *)
THEOREM CallsAreHonored == DpiSpec => []CallsHonored
<1>1. ASSUME DpiInv PROVE ConfigApplied
  <2> SUFFICES ASSUME handle # "null", config # None
               PROVE  /\ handle = "ready"
                      /\ options.arch = config.arch /\ options.start = config.start
                      /\ InEffect(config, ReadWriteExecute, Len(DefaultRegions))
    BY DEF ConfigApplied
  <2> DEFINE front == Len(DefaultRegions)
             itcm  == [start |-> config.start, length |-> config.length,
                       perm |-> ReadWriteExecute]
  <2>1. /\ handle = "ready" /\ Len(options.regions) = front + 1
        /\ options.arch = config.arch /\ options.start = config.start
        /\ options.regions[front + 1] = itcm
    BY <1>1 DEF DpiInv, Configured
  <2>2. /\ regions \in Seq(Region) /\ options.regions \in Seq(Region) /\ front \in Nat
        /\ Len(regions) \in Nat
    BY <1>1, DpiConstants DEF DpiInv, DpiTypeOK
  <2>3. Len(options.regions) <= Len(regions) /\ regions[front + 1] = itcm
    BY <1>1, <2>1, <2>2 DEF DpiInv, InFront
  <2>4. front + 1 \in DOMAIN regions
    BY <2>1, <2>2, <2>3
  <2>5. \A i \in DOMAIN regions : front < i /\ i <= front + 1 => i = front + 1
    BY <2>2
  <2>6. \A i \in DOMAIN regions :
          front < i /\ i <= front + 1 => ReadWriteExecute \subseteq regions[i].perm
    BY <2>3, <2>5
  <2>7. regions[front + 1].start = config.start /\ regions[front + 1].length = config.length
    BY <2>3
  <2>8. InEffect(config, ReadWriteExecute, front)
    BY <2>2, <2>4, <2>6, <2>7, ListedIsInEffect, Zenon
  <2>9. QED
    BY <2>1, <2>8
<1>2. ASSUME DpiInv PROVE RangesKept
  <2> SUFFICES ASSUME handle # "null", NEW r \in granted
               PROVE  InEffect(r, ReadWrite, Len(options.regions))
    BY DEF RangesKept
  <2>1. handle = "ready" /\ regions \in Seq(Region) /\ Len(options.regions) \in Nat
    BY <1>2 DEF DpiInv, DpiTypeOK, Unbuilt
  <2>2. PICK k \in DOMAIN regions :
          regions[k] = [start |-> r.start, length |-> r.length, perm |-> ReadWrite]
    BY <1>2 DEF DpiInv, Listed
  <2>3. regions[k].start = r.start /\ regions[k].length = r.length
    BY <2>2
  <2>4. \A i \in DOMAIN regions :
          Len(options.regions) < i /\ i <= k => ReadWrite \subseteq regions[i].perm
    BY <1>2, <2>1 DEF DpiInv, InFront
  <2>5. QED
    BY <2>1, <2>2, <2>3, <2>4, ListedIsInEffect, Zenon
<1>3. DpiInv => CallsHonored
  BY <1>1, <1>2 DEF DpiInv, CallsHonored
<1>4. QED
  BY <1>3, DpiInvariant, PTL

(* No access is let through whose bytes a region with the wanted           *)
(* permissions does not cover, whatever regions overlap, touch or end at   *)
(* the last address.                                                       *)
THEOREM GrantsAreSound == DpiSpec => []GrantsSound
<1>1. DpiInv => GrantsSound
  <2> SUFFICES ASSUME DpiInv, NEW a \in Address, NEW n \in 1 .. Space - 1,
                      NEW p, HasPermission(regions, a, n, p)
               PROVE  \A b \in a .. a + n - 1 : \E i \in DOMAIN regions :
                        /\ b \in regions[i].start ..
                                 regions[i].start + regions[i].length - 1
                        /\ p \subseteq regions[i].perm
    BY DEF GrantsSound
  <2>1. regions \in Seq(Region)
    BY DEF DpiInv, DpiTypeOK
  <2>2. QED
    BY <2>1, GrantedIsCovered
<1>2. QED
  BY <1>1, DpiInvariant, PTL

(* While one simulator lives, no call changes the answer about an access   *)
(* that some region contains: a step that lengthens the list appends.      *)
THEOREM AnswersAreStable == DpiSpec => AnswersStay
<1> DEFINE Stays ==
      handle = "ready" /\ handle' = "ready" /\ Len(regions') > Len(regions) =>
          \A a \in Address, n \in 1 .. Space - 1, p \in {{"read"}, ReadWrite} :
              (\E i \in DOMAIN regions : Contains(regions[i], a, n)) =>
                  (HasPermission(regions', a, n, p)
                      <=> HasPermission(regions, a, n, p))
<1>1. DpiInv /\ DpiInv' /\ [DpiNext]_dpivars => Stays
  <2> SUFFICES ASSUME DpiInv, DpiInv', [DpiNext]_dpivars, handle = "ready", handle' = "ready",
                      Len(regions') > Len(regions)
               PROVE  \A a \in Address, n \in 1 .. Space - 1, p \in {{"read"}, ReadWrite} :
                        (\E i \in DOMAIN regions : Contains(regions[i], a, n)) =>
                            (HasPermission(regions', a, n, p)
                                <=> HasPermission(regions, a, n, p))
    OBVIOUS
  <2>1. regions \in Seq(Region) /\ regions' \in Seq(Region)
    BY DEF DpiInv, DpiTypeOK
  <2>2. regions' # regions
    BY <2>1
  <2>3. PICK r \in Ranges : mpact_add_load_store_range(r.start, r.length)
    BY <2>2 DEF DpiNext, dpivars, mpact_init, mpact_config_null, mpact_config, mpact_reset,
       NewHandle, mpact_fini, mpact_query, mpact_load_program, mpact_set_pc, mpact_step,
       LazyInit
  <2>4. \A i \in DOMAIN regions : regions'[i] = regions[i]
    BY <2>3, RangeAppended DEF DpiInv
  <2>5. QED
    BY <2>1, <2>4, AnswerKept
<1>2. QED
  BY <1>1, DpiInvariant, PTL DEF DpiSpec, AnswersStay
================================================================================
