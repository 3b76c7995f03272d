------------------------------ MODULE TpBlock -------------------------------
(***************************************************************************)
(* An endpoint builds its transport-parameter block one parameter at a time *)
(* and the peer decodes what it was sent, whole or cut short.               *)
(***************************************************************************)
EXTENDS TransportParams

CONSTANTS
  Params,          \* the parameters that may be put into the block
  MaxParams        \* bound on how many

ASSUME ParamsAssumption == \A p \in Params : TpFits(p)

VARIABLE block     \* the parameters in the order they are encoded

BlockInit == block = <<>>

Add(p) == Len(block) < MaxParams /\ block' = Append(block, p)

BlockNext == \E p \in Params : Add(p)

BlockSpec == BlockInit /\ [][BlockNext]_block

-----------------------------------------------------------------------------
(* A block whose values are in range, without duplicates or prohibited       *)
(* parameters and with its companions present, in whatever order, decodes to  *)
(* exactly what was encoded; any other block is refused: limits, companions   *)
(* and duplicates are judged over the whole block.  Cut short, it is never    *)
(* taken for a whole one: what is accepted of it ends where a parameter ends. *)
DecodesBack ==
  LET bytes == encode_tps(block)
      d == decode_tps(bytes)
      ends == {Len(encode_tps(SubSeq(block, 1, i))) : i \in 0..Len(block)}
  IN  /\ d.ok = Acceptable(block) /\ (d.ok => d.params = block)
      /\ \A n \in 0..Len(bytes) : decode_tps(SubSeq(bytes, 1, n)).ok => n \in ends
=============================================================================
