----------------------------- MODULE MCFailover -----------------------------
(***************************************************************************)
(* Instances of Failover for TLC: two pipes, with and without a fate group, *)
(* and with a pipe that either application may remove.                     *)
(***************************************************************************)
EXTENDS Failover

CONSTANTS P0, P2

Two      == {P0, P2}
NoPipe   == {}
OnlyP2   == {P2}
NoGroup  == [p \in Pipe |-> 0]
SameFate == [p \in Pipe |-> 5]
=============================================================================
