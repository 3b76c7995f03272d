-------------------------- MODULE TransportParams ---------------------------
(***************************************************************************)
(* The transport-parameter block of QX_TRANSPORT_PARAMETERS: encode_tps,    *)
(* decode_tps and validate_tps of tools/zmuxwire/frames.py.  A parameter is *)
(* [id, value]; its value is what decode_tp_value returns for its format.   *)
(* Every failure carries TRANSPORT_PARAMETER_ERROR, so only whether a block *)
(* is accepted is kept.                                                     *)
(***************************************************************************)
EXTENDS Varint

CONSTANTS
  TransportParameters, \* registry rows [name, id, format, prohibited]
  KeyBytes,            \* bytes of a nonce, lane key or token (16 in the code)
  RoleNonceBytes,      \* bytes of the zmux_role nonce (8 in the code)
  MaxLocatorBytes,     \* 16 in the code
  DefaultMaxRecordSize,\* 16382 in the code
  PreambleOverhead,    \* max_preamble_tp_overhead, 32 in the code
  MinAckThreshold      \* 1024 in the code

ASSUME SizesAssumption == KeyBytes \in Nat /\ RoleNonceBytes \in Nat /\ MaxLocatorBytes \in Byte

STREAM_COUNT_LIMIT == (MAX_VARINT + 1) \div 4      \* 1 << 60
MAX_ACK_DELAY_LIMIT == Capacity(2)                 \* 1 << 14

tp_by_id == [i \in {row.id : row \in TransportParameters} |->
               CHOOSE row \in TransportParameters : row.id = i]

Format(id) == IF id \in DOMAIN tp_by_id THEN tp_by_id[id].format ELSE "opaque"

encode_tp_value(fmt, val) ==
  CASE fmt = "varint"             -> V(val)
    [] fmt \in {"role", "lanes"}  -> V(Head(val)) \o Tail(val)
    [] OTHER                      -> val

EncodeTp(p) ==
  LET val == encode_tp_value(Format(p.id), p.value) IN V(p.id) \o V(Len(val)) \o val

encode_tps(params) == FlattenSeq([i \in DOMAIN params |-> EncodeTp(params[i])])

(* A parameter that can be encoded: its numbers fit a varint, the rest of its *)
(* value is bytes.                                                             *)
TpFits(p) ==
  LET fmt == Format(p.id)
  IN  /\ p = [id |-> p.id, value |-> p.value] /\ p.id \in 0..MAX_VARINT
      /\ fmt = "varint" => p.value \in 0..MAX_VARINT
      /\ fmt \in {"role", "lanes"} =>
           /\ p.value \in Seq(Nat) \ {<<>>}
           /\ Head(p.value) \in 0..MAX_VARINT /\ Tail(p.value) \in Seq(Byte)
      /\ fmt \notin {"varint", "role", "lanes"} => p.value \in Seq(Byte)
      /\ Len(encode_tp_value(fmt, p.value)) <= MAX_VARINT

(* [ok, value] of one parameter's bytes; d is the varint they start with. *)
Accept(cond, val) == [ok |-> cond, value |-> val]

ValueFrom(fmt, raw, d) ==
  LET rest == SubSeq(raw, d.pos + 1, Len(raw))
      no   == Accept(FALSE, raw)
  IN  CASE fmt = "varint" -> IF d.ok THEN Accept(rest = <<>>, d.val) ELSE no
        [] fmt = "empty"  -> Accept(raw = <<>>, <<>>)
        [] fmt = "role"   ->
             IF d.ok THEN Accept(/\ d.val \in 0..2
                                 /\ Len(rest) = IF d.val = 2 THEN RoleNonceBytes ELSE 0,
                                 <<d.val>> \o rest)
             ELSE no
        [] fmt = "multipath" ->
             IF Len(raw) >= KeyBytes + 2
             THEN LET ln == raw[KeyBytes + 2]
                  IN  Accept(ln <= MaxLocatorBytes /\ Len(raw) = KeyBytes + 2 + ln, raw)
             ELSE no
        [] fmt = "lanes"  ->
             IF d.ok THEN Accept(Len(rest) = KeyBytes /\ d.val # 0, <<d.val>> \o rest)
             ELSE no
        [] OTHER          -> Accept(TRUE, raw)

decode_tp_value(fmt, raw) == ValueFrom(fmt, raw, decode_varint(raw, 0))

-----------------------------------------------------------------------------
Named(params, name) ==
  {p \in ToSet(params) : p.id \in DOMAIN tp_by_id /\ tp_by_id[p.id].name = name}
Has(params, name) == Named(params, name) # {}
Get(params, name, default) ==
  IF Has(params, name) THEN (CHOOSE p \in Named(params, name) : TRUE).value ELSE default

validate_tps(params) ==
  LET has(n)    == Has(params, n)
      get(n, d) == Get(params, n, d)
      acks      == has("zmux_multipath") \/ has("zmux_pipe_ack")
      preamble  == get("zmux_preamble", 1)
  IN  /\ get("max_record_size", DefaultMaxRecordSize) >= DefaultMaxRecordSize
      /\ get("initial_max_streams_bidi", 0) <= STREAM_COUNT_LIMIT
      /\ get("initial_max_streams_uni", 0) <= STREAM_COUNT_LIMIT
      /\ has("zmux_preamble") =>
           /\ has("reset_stream_at")
           /\ preamble >= 1
           /\ preamble + PreambleOverhead <= get("max_record_size", DefaultMaxRecordSize)
           /\ preamble <= get("initial_max_stream_data_bidi_remote", 0)
           /\ preamble <= get("initial_max_stream_data_uni", 0)
      /\ (has("zmux_ack_threshold") \/ has("zmux_max_ack_delay") \/ has("zmux_max_lanes"))
           => acks
      /\ has("zmux_resume") => has("zmux_multipath") /\ get("zmux_resume", 1) >= 1
      /\ get("zmux_ack_threshold", MinAckThreshold) >= MinAckThreshold
      /\ get("zmux_max_ack_delay", 0) < MAX_ACK_DELAY_LIMIT

Distinct(params) == \A i, j \in DOMAIN params : i # j => params[i].id # params[j].id
ProhibitedId(id) == id \in DOMAIN tp_by_id /\ tp_by_id[id].prohibited

(* A block that the peer accepts: judged as a whole, in whatever order. *)
Acceptable(params) ==
  /\ Distinct(params) /\ validate_tps(params)
  /\ \A p \in ToSet(params) :
       /\ ~ProhibitedId(p.id)
       /\ decode_tp_value(Format(p.id), encode_tp_value(Format(p.id), p.value)).ok

(* The parameter that starts at pos: its number, its length, its value.  It   *)
(* is whole if the block holds all of it.                                      *)
TpRest(buf, num, ln) ==
  LET end   == ln.pos + ln.val
      whole == num.ok /\ ln.ok /\ end <= Len(buf)
  IN  [whole |-> whole, id |-> num.val, pos |-> end,
       val |-> IF whole THEN decode_tp_value(Format(num.val), SubSeq(buf, ln.pos + 1, end))
               ELSE Accept(FALSE, <<>>)]
TpAfter(buf, num) == TpRest(buf, num, decode_varint(buf, num.pos))
TpFrom(buf, pos) == TpAfter(buf, decode_varint(buf, pos))

(* [pos, out, ok] after it, unless it is refused. *)
Took(p, t, refused) ==
  IF refused THEN [p EXCEPT !.ok = FALSE]
  ELSE [pos |-> t.pos, ok |-> TRUE,
        out |-> Append(p.out, [id |-> t.id, value |-> t.val.value])]

SeenId(p, id) == \E q \in ToSet(p.out) : q.id = id

\* Faulty variant: companions and ranges are judged as each parameter arrives.
TakeTpEagerly(p, t) ==
  LET q == Took(p, t, ~t.whole \/ SeenId(p, t.id) \/ ProhibitedId(t.id) \/ ~t.val.ok)
  IN  [q EXCEPT !.ok = @ /\ validate_tps(q.out)]

TakeTp(p, t) == Took(p, t, ~t.whole \/ SeenId(p, t.id) \/ ProhibitedId(t.id) \/ ~t.val.ok)

DecodeTp(buf, p) ==
  IF ~p.ok \/ p.pos >= Len(buf) THEN p ELSE TakeTp(p, TpFrom(buf, p.pos))

Validated(p) == [ok |-> p.ok /\ validate_tps(p.out), params |-> p.out]
NoTps == [pos |-> 0, out |-> <<>>, ok |-> TRUE]

TpRounds(buf) == Rounds(LAMBDA q, i : DecodeTp(buf, q), NoTps, Len(buf))
decode_tps(buf) == Validated(TpRounds(buf)[Len(buf)])
=============================================================================
