------------------------------ MODULE MCCosimDpi ------------------------------
(* A small address space: a read-only ITCM, a gap, and a DTCM.             *)
EXTENDS CosimDpi

MCDefaultRegions ==
    <<[start |-> 0, length |-> 2, perm |-> ReadExecute],
      [start |-> 4, length |-> 2, perm |-> ReadWrite]>>

(* An ITCM that lies in the default one, and one that does not.            *)
MCConfigs ==
    {[arch |-> "M3", start |-> 1, length |-> 1],
     [arch |-> "M4", start |-> 2, length |-> 2]}

(* Inside a default region, across two of them, and to the last address.   *)
MCRanges ==
    {[start |-> 0, length |-> 2], [start |-> 3, length |-> 2],
     [start |-> 6, length |-> 2]}
================================================================================
