----------------------------- MODULE MCJournal -----------------------------
(***************************************************************************)
(* An instance of Journal for TLC: slices of three different lengths, so   *)
(* that a short one can be written over a long one and the reverse.        *)
(***************************************************************************)
EXTENDS Journal, TLC

CONSTANTS empty, short, long, i1, i2, i3, w1, w2

ThreeLengths == (empty :> 1) @@ (short :> 2) @@ (long :> 3)
=============================================================================
