------------------------------ MODULE MCStatus ------------------------------
(***************************************************************************)
(* An instance of Status for TLC: a pipe is used at will, or kept for      *)
(* standby at another priority.                                            *)
(***************************************************************************)
EXTENDS Status

CONSTANTS P0, P1

MCPipe == {P0, P1}
MCSetting == {[standby |-> FALSE, request |-> Default],
              [standby |-> TRUE, request |-> [standby |-> TRUE, priority |-> 1]]}
=============================================================================
