-------------------------------- MODULE MCHosts --------------------------------
(* The four ways into the simulator from outside: an RTL testbench that     *)
(* calls the DPI wrapper, Renode's calls of the agent, the accesses to the  *)
(* memory it shares with the agent's instances, and the host of the         *)
(* hardware simulator.  They share no state, and a process has one of them: *)
(* each behaviour is that of one host.                                      *)
EXTENDS MCCosimDpi, MCRenodeAgent, MCRenodeMemory, MCHwSim

VARIABLE host

allvars == <<host, dpivars, agentvars, vars, hwvars>>

(* Only the hardware simulator's host chooses a memory image.               *)
InitAll ==
    /\ host \in {"testbench", "renode", "memory", "hardware"}
    /\ DpiInit /\ AgentInit /\ Init /\ HwInit
    /\ host # "hardware" => mem = CHOOSE m \in Images : TRUE

NextAll ==
    \/ host = "testbench" /\ DpiNext   /\ UNCHANGED <<host, agentvars, vars, hwvars>>
    \/ host = "renode"    /\ AgentNext /\ UNCHANGED <<host, dpivars, vars, hwvars>>
    \/ host = "memory"    /\ Next      /\ UNCHANGED <<host, dpivars, agentvars, hwvars>>
    \/ host = "hardware"  /\ HwNext    /\ UNCHANGED <<host, dpivars, agentvars, vars>>

(* The fairness of RenodeMemory and of HwSim, for the host there is.        *)
FairnessAll ==
    /\ WF_vars(host = "memory" /\ Working /\ UNCHANGED <<host, dpivars, agentvars, hwvars>>)
    /\ WF_vars(host = "memory" /\ Advance /\ UNCHANGED <<host, dpivars, agentvars, hwvars>>)
    /\ WF_hwvars(/\ host = "hardware" /\ (DmaTransfer \/ DmaDone)
                 /\ UNCHANGED <<host, dpivars, agentvars, vars>>)

SpecAll == InitAll /\ [][NextAll]_allvars /\ FairnessAll
================================================================================
