------------------------------ MODULE MCResume ------------------------------
(* Constants of the TLC instance of Resume. *)
EXTENDS Resume

CONSTANTS s1, s2, s3, s4, s5

Slots == {s1, s2, s3, s4, s5}
Pairs == {"bidi"}
PairsAndUplinks == {"up", "bidi"}
=============================================================================
