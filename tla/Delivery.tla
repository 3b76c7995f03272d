------------------------------ MODULE Delivery ------------------------------
(***************************************************************************)
(* What a multipath session promises about one direction of one stream,    *)
(* without any pipe: the chunks the sender has accepted arrive in any      *)
(* order, the application reads them once and in order, and the sender     *)
(* forgets a chunk only after it has arrived.  Failover implements this    *)
(* module; Lanes, without multipath, does so for each stream.              *)
(***************************************************************************)
EXTENDS Naturals

CONSTANT N                 \* number of chunks the application writes

VARIABLES sent,            \* chunks 1..sent have been taken by the sender
          arrived,         \* chunks held by the receiver
          released,        \* chunks the sender no longer retains
          read             \* chunks 1..read have been given to the reader

avars == <<sent, arrived, released, read>>

Init == sent = 0 /\ arrived = {} /\ released = {} /\ read = 0

Take == /\ sent < N
        /\ sent' = sent + 1
        /\ UNCHANGED <<arrived, released, read>>

Arrive == /\ \E c \in (1..sent) \ arrived : arrived' = arrived \union {c}
          /\ UNCHANGED <<sent, released, read>>

\* One acknowledgement may release several chunks, all of which have arrived.
Release == /\ \E C \in SUBSET arrived : released' = released \union C
           /\ UNCHANGED <<sent, arrived, read>>

Read == /\ read + 1 \in arrived
        /\ read' = read + 1
        /\ UNCHANGED <<sent, arrived, released>>

Next == Take \/ Arrive \/ Release \/ Read

Spec == Init /\ [][Next]_avars
=============================================================================
