------------------------------ MODULE MCCodec -------------------------------
(***************************************************************************)
(* The codec as a whole, with the constants of MCRecordPipe: either a pipe  *)
(* carries records (RecordPipe) or a parameter block is built and decoded   *)
(* (TpBlock).  The two share the codec and nothing else, so a behaviour is  *)
(* one of the two.  The default record size of 5 leaves a preamble that     *)
(* just fits it.                                                            *)
(***************************************************************************)
EXTENDS MCRecordPipe, TpBlock

P(id, value) == [id |-> id, value |-> value]

MCParams ==
  {P(1, 3), P(2, 3), P(3, 6), P(4, <<>>), P(5, 3), P(6, <<0, 7, 1, 9>>), P(7, 2),
   P(8, <<2, 9>>), P(9, <<2, 5>>), P(10, 1), P(11, <<>>), P(20, <<1>>)}

CodecInit == PipeInit /\ BlockInit

PipeStep == block = <<>> /\ PipeNext /\ UNCHANGED block
(* The pipe's mode means nothing to a block: one of them will do. *)
BlockStep ==
  /\ wire = <<>> /\ verdict = "open" /\ enabled = Gates
  /\ BlockNext /\ UNCHANGED pipeVars

CodecSpec == CodecInit /\ [][PipeStep \/ BlockStep]_<<pipeVars, block>>
=============================================================================
