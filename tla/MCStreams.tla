----------------------------- MODULE MCStreams -----------------------------
(***************************************************************************)
(* Instances of Streams for TLC are given by its constants alone; every    *)
(* run leaves more streams to open than the limit admits at a time.        *)
(***************************************************************************)
EXTENDS Streams

ASSUME MoreThanLimit == MaxId > Limit
=============================================================================
