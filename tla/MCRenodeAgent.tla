----------------------------- MODULE MCRenodeAgent -----------------------------
(* RenodeAgent with an int of two bits: chunks of at most three, and a     *)
(* total that wraps at eight, as INT_MAX = 2^31 - 1 goes with 2^32.        *)
EXTENDS RenodeAgent

MCIntMax == 3
MCWrap   == 2 * (MCIntMax + 1)
================================================================================
