------------------------------ MODULE MCLanes -------------------------------
(* Instances of Lanes for TLC. *)
EXTENDS Lanes, TLC

CONSTANTS a, b
MCStream == {a, b}
Streams  == Permutations(MCStream)
=============================================================================
