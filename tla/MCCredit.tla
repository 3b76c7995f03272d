------------------------------ MODULE MCCredit ------------------------------
(***************************************************************************)
(* An instance of Credit for TLC: two streams, one of which is read, and   *)
(* one given up by the applications.                                       *)
(***************************************************************************)
EXTENDS Credit

CONSTANTS S0, S4

Streams == {S0, S4}
OnlyS0  == {S0}
OnlyS4  == {S4}
=============================================================================
