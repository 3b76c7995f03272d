------------------------------- MODULE Varint -------------------------------
(***************************************************************************)
(* QUIC variable-length integers (tools/zmuxwire/varint.py) and the helpers *)
(* every decoder of the codec is built from.  A byte is a number below      *)
(* 4 * Radix: its two top bits give the width and the rest is the first     *)
(* digit.  Radix is 64 in the code; a smaller one keeps the arithmetic, the *)
(* four widths and every boundary between them within TLC's integers.       *)
(* Positions count consumed bytes, as the code's do: byte pos is buf[pos+1]. *)
(***************************************************************************)
EXTENDS Naturals, Sequences, SequencesExt

CONSTANT Radix          \* digits a one-byte varint holds (64 in the code)

ASSUME RadixAssumption == Radix \in Nat \ {0}

Base == 4 * Radix
Byte == 0 .. Base - 1
Widths == {1, 2, 4, 8}

capacity[w \in 1..8] == IF w = 1 THEN Radix ELSE Base * capacity[w - 1]
Capacity(w) == capacity[w]
MAX_VARINT == Capacity(8) - 1

varint_len(v) ==
  CHOOSE w \in Widths :
    v < Capacity(w) /\ \A u \in Widths : v < Capacity(u) => w <= u

\* The width that prefix bits 0, 1, 2, 3 stand for, and back.
Width == <<1, 2, 4, 8>>
Prefix(w) == CHOOSE e \in 0..3 : Width[e + 1] = w
WidthOf(byte) == Width[(byte \div Radix) + 1]

\* v without its last 0, 1, .. 7 digits.
Shifted(v) == LET s[k \in 0..7] == IF k = 0 THEN v ELSE s[k - 1] \div Base IN s

encode_varint(v, w) ==
  [i \in 1..w |-> (IF i = 1 THEN Prefix(w) * Radix ELSE 0) + (Shifted(v)[w - i] % Base)]

V(v) == encode_varint(v, varint_len(v))

\* The number a varint's bytes stand for.
Number(bytes) ==
  LET n[i \in 1..Len(bytes)] ==
        IF i = 1 THEN bytes[1] % Radix ELSE (Base * n[i - 1]) + bytes[i]
  IN  n[Len(bytes)]

(* [ok, val, pos, width]; ok is FALSE when the bytes end inside it. *)
decode_varint(buf, pos) ==
  LET width == WidthOf(buf[pos + 1])
  IN  IF pos >= Len(buf) \/ (pos < Len(buf) /\ pos + width > Len(buf))
      THEN [ok |-> FALSE, val |-> 0, pos |-> pos, width |-> 0]
      ELSE [ok |-> TRUE, pos |-> pos + width, width |-> width,
            val |-> Number(SubSeq(buf, pos + 1, pos + width))]

-----------------------------------------------------------------------------
(* Errors: the transport error code a DecodeError carries. *)
OK == "none"
FE == "FRAME_ENCODING_ERROR"
PV == "PROTOCOL_VIOLATION"
TPE == "TRANSPORT_PARAMETER_ERROR"

(* A loop of the code: what its variables hold after 0, 1, .. n rounds.  Step *)
(* changes nothing once the loop has ended.                                    *)
Rounds(Step(_, _), p, n) ==
  LET after[i \in 0..n] == IF i = 0 THEN p ELSE Step(after[i - 1], i) IN after
=============================================================================
