-------------------------------- MODULE MCHwSim --------------------------------
(* Twelve words: the mailbox, two descriptors and three words of data.     *)
EXTENDS HwSim, Sequences

Memory(first, second) ==
    LET words == <<0>> \o first \o second \o <<7, 8, 11>>
    IN  [a \in Cell |-> words[a + 1]]

(* Two transfers in a row; one into the second descriptor; two descriptors *)
(* in a circle; one, with a flag beside its length, over its own source    *)
(* and one over the first, already walked descriptor; and one over its own *)
(* successor word.                                                         *)
MCImages ==
    {Memory(<<9, 10, 1, 5>>, <<9, 11, 1, 0>>),
     Memory(<<9, 7, 2, 5>>, <<9, 0, 1, 0>>),
     Memory(<<9, 10, 2, 5>>, <<9, 11, 1, 1>>),
     Memory(<<9, 10, 6, 5>>, <<9, 2, 1, 0>>),
     Memory(<<0, 4, 1, 5>>, <<10, 11, 1, 0>>)}

(* Break the chain, close it, and lengthen a transfer.                     *)
MCPokes == {<<4, 0>>, <<8, 1>>, <<3, 2>>, <<0, 3>>}
================================================================================
