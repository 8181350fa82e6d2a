---------------------------- MODULE MCClaimWait ----------------------------
(***************************************************************************)
(* An instance of ClaimWait for TLC: two guards of different sessions,     *)
(* and a `claim acquire` command of the first guard's session.             *)
(***************************************************************************)
EXTENDS ClaimWait, TLC

CONSTANTS g1, g2, w1, s1, s2

ChosenSessions == (g1 :> s1) @@ (g2 :> s2) @@ (w1 :> s1)
=============================================================================
