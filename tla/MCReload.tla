------------------------------ MODULE MCReload ------------------------------
(***************************************************************************)
(* Instances of Reload for TLC: one subscriber, at most one reload, and    *)
(* three daemons, started by it or by hand.                                *)
(***************************************************************************)
EXTENDS Reload

CONSTANT a

ThreeDaemons == 1..3
=============================================================================
