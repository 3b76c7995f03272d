------------------------------- MODULE Frames -------------------------------
(***************************************************************************)
(* Frames and records: the encoder and decoder of tools/zmuxwire/frames.py. *)
(* A frame is [type, bits, f]: its name, its type code minus the first code *)
(* of the name (the STREAM flags, bidi/uni, app/transport, with or without  *)
(* Length, request/response), and its fields in wire order.                 *)
(***************************************************************************)
EXTENDS TransportParams

CONSTANTS
  FrameTypes,      \* registry rows [name, first, last, prohibited, gates]
  MaxJoinBytes,    \* max_join_frame_bytes, 64 in the code
  NoLimit          \* no max_datagram_frame_size in force

(* The registry: a type code belongs to one row and a name to one, and the    *)
(* frames that a pipe may start with are there.                                *)
ASSUME FrameTypesAssumption ==
  /\ \A row \in FrameTypes :
       /\ row.first \in 0..MAX_VARINT /\ row.last \in row.first .. MAX_VARINT
       /\ row.name # "PADDING" => row.first # 0
  /\ \A row, other \in FrameTypes :
       \/ row = other
       \/ row.name # other.name /\ row.first .. row.last \cap other.first .. other.last = {}
  /\ {"QX_TRANSPORT_PARAMETERS", "PIPE_JOIN", "PIPE_LANE"} \subseteq {row.name : row \in FrameTypes}

frame_by_type ==
  [c \in UNION {row.first .. row.last : row \in FrameTypes} |->
     CHOOSE row \in FrameTypes : c \in row.first .. row.last]

frame_by_name ==
  [n \in {row.name : row \in FrameTypes} |-> CHOOSE row \in FrameTypes : row.name = n]

type_code(frame) == frame_by_name[frame.type].first + frame.bits

(* The fields of a frame, in wire order: "v" a varint, "data" and "params"  *)
(* bytes behind their length, "rest" bytes up to the end of the record,     *)
(* "byte" one byte, "key" KeyBytes bytes, "loc" a locator behind a length   *)
(* byte, "entries" a count and four varints for each.                       *)
Layout(type, bits) ==
  CASE type = "STREAM" -> <<"v">> \o (IF bits >= 4 THEN <<"v">> ELSE <<>>)
                          \o (IF (bits \div 2) % 2 = 1 THEN <<"data">> ELSE <<"rest">>)
    [] type \in {"MAX_DATA", "MAX_STREAMS", "DATA_BLOCKED", "STREAMS_BLOCKED", "QX_PING"}
         -> <<"v">>
    [] type \in {"STOP_SENDING", "MAX_STREAM_DATA", "STREAM_DATA_BLOCKED", "PIPE_ABANDON"}
         -> <<"v", "v">>
    [] type \in {"RESET_STREAM", "GOAWAY"} -> <<"v", "v", "v">>
    [] type \in {"RESET_STREAM_AT", "PIPE_STATUS"} -> <<"v", "v", "v", "v">>
    [] type = "CONNECTION_CLOSE" -> IF bits = 1 THEN <<"v", "data">> ELSE <<"v", "v", "data">>
    [] type = "DATAGRAM" -> IF bits = 1 THEN <<"data">> ELSE <<"rest">>
    [] type = "QX_TRANSPORT_PARAMETERS" -> <<"params">>
    [] type = "PRIORITY_UPDATE" -> <<"v", "v", "byte">>
    [] type = "PIPE_JOIN" -> <<"loc", "v", "byte", "v", "v", "key">>
    [] type = "PIPE_ACK" -> <<"entries">>
    [] type = "PIPE_LANE" -> <<"key", "v", "v">>
    [] type = "PIPE_PING" -> <<>>

EncodeEntry(e) == V(e[1]) \o V(e[2]) \o V(e[3]) \o V(e[4])

EncodeField(kind, x) ==
  CASE kind = "v"       -> V(x)
    [] kind = "data"    -> V(Len(x)) \o x
    [] kind = "params"  -> LET body == encode_tps(x) IN V(Len(body)) \o body
    [] kind = "byte"    -> <<x>>
    [] kind = "loc"     -> <<Len(x)>> \o x
    [] kind = "entries" -> V(Len(x)) \o FlattenSeq([i \in DOMAIN x |-> EncodeEntry(x[i])])
    [] OTHER            -> x

encode_frame(frame) ==
  CASE frame.type = "RAW"     -> frame.f
    [] frame.type = "PADDING" -> [i \in 1..frame.bits |-> 0]
    [] OTHER -> LET kinds == Layout(frame.type, frame.bits)
                IN  V(type_code(frame))
                      \o FlattenSeq([i \in DOMAIN kinds |-> EncodeField(kinds[i], frame.f[i])])

encode_frames(frames) == FlattenSeq([i \in DOMAIN frames |-> encode_frame(frames[i])])

(* The Size may take more bytes than it needs. *)
encode_record(frames, width) ==
  LET body == encode_frames(frames) IN encode_varint(Len(body), width) \o body

-----------------------------------------------------------------------------
(* What a frame's fields must satisfy; size is the frame's whole length. *)
Valid(type, bits, f, size) ==
  CASE type = "STREAM"          -> IF bits >= 4 THEN f[2] + Len(f[3]) <= MAX_VARINT ELSE TRUE
    [] type = "RESET_STREAM_AT" -> f[4] <= f[3]
    [] type \in {"MAX_STREAMS", "STREAMS_BLOCKED"} -> f[1] <= STREAM_COUNT_LIMIT
    [] type = "GOAWAY"          -> f[1] <= STREAM_COUNT_LIMIT /\ f[2] <= STREAM_COUNT_LIMIT
    [] type = "PRIORITY_UPDATE" -> f[3] % 16 = 0
    [] type = "PIPE_JOIN"       -> f[3] % 4 # 3 /\ f[3] < 16 /\ size <= MaxJoinBytes
    [] type = "PIPE_STATUS"     -> f[3] \in {0, 1}
    [] OTHER                    -> TRUE

(* What can be encoded so that it can be told apart again: fields that fit    *)
(* their kind, a field without a length at the very end of the record, one    *)
(* PADDING for each run of zero bytes.                                         *)
EntriesFit(x) ==
  /\ x \in Seq(Seq(0..MAX_VARINT)) /\ Len(x) \in 1..MAX_VARINT
  /\ \A i \in DOMAIN x : Len(x[i]) = 4
  /\ \A i \in 1 .. Len(x) - 1 :
       x[i][1] < x[i + 1][1] \/ (x[i][1] = x[i + 1][1] /\ x[i][2] < x[i + 1][2])

ParamsFit(x) ==
  /\ x = [i \in 1..Len(x) |-> x[i]] /\ Len(x) \in Nat
  /\ \A i \in 1..Len(x) : TpFits(x[i])
  /\ Acceptable(x) /\ Len(encode_tps(x)) <= MAX_VARINT

FieldFits(kind, x) ==
  CASE kind = "v"       -> x \in 0..MAX_VARINT
    [] kind = "byte"    -> x \in Byte
    [] kind = "entries" -> EntriesFit(x)
    [] kind = "params"  -> ParamsFit(x)
    [] OTHER            -> /\ x \in Seq(Byte) /\ Len(x) <= MAX_VARINT
                           /\ kind = "key" => Len(x) = KeyBytes
                           /\ kind = "loc" => Len(x) \in 1..MaxLocatorBytes

Kinds == {"v", "data", "rest", "key", "entries", "byte", "loc", "params"}

FrameFits(frame) ==
  LET kinds == Layout(frame.type, frame.bits)
      row   == frame_by_name[frame.type]
  IN  /\ frame = [type |-> frame.type, bits |-> frame.bits, f |-> frame.f]
      /\ frame.type # "RAW" /\ frame.bits \in Nat
      /\ frame.type = "PADDING" => frame.bits > 0 /\ frame.f = <<>>
      /\ frame.type # "PADDING" =>
           /\ frame.type \in DOMAIN frame_by_name /\ ~row.prohibited
           /\ frame.bits <= row.last - row.first
           /\ kinds \in Seq(Kinds) /\ frame.f = [i \in DOMAIN kinds |-> frame.f[i]]
           /\ \A i \in DOMAIN kinds :
                FieldFits(kinds[i], frame.f[i]) /\ (kinds[i] = "rest" => i = Len(kinds))
           /\ Valid(frame.type, frame.bits, frame.f, Len(encode_frame(frame)))

EndsItself(frame) ==
  frame.type # "PADDING" => "rest" \notin ToSet(Layout(frame.type, frame.bits))

RecordFits(frames) ==
  /\ frames = [i \in 1..Len(frames) |-> frames[i]] /\ Len(frames) \in Nat
  /\ \A i \in 1..Len(frames) : FrameFits(frames[i])
  /\ \A i \in 1 .. Len(frames) - 1 :
       /\ EndsItself(frames[i])
       /\ frames[i].type = "PADDING" => frames[i + 1].type # "PADDING"

-----------------------------------------------------------------------------
(* The decoder's state inside a frame: position, fields so far, error. *)
FailWith(p, code) == [p EXCEPT !.err = code]

(* Each step below takes what was just decoded as its argument. *)
Push(p, d) ==
  CASE p.err # OK -> p
    [] p.err = OK /\ ~d.ok -> FailWith(p, FE)
    [] OTHER -> [p EXCEPT !.pos = d.pos, !.f = Append(@, d.val)]

TakeVarint(buf, p) == Push(p, decode_varint(buf, p.pos))

TakeBytes(buf, p, n) ==
  IF p.err # OK THEN p
  ELSE IF p.pos + n > Len(buf) THEN FailWith(p, FE)
  ELSE [p EXCEPT !.pos = p.pos + n, !.f = Append(@, SubSeq(buf, p.pos + 1, p.pos + n))]

(* Bytes behind their length: the length is read (q), then that many bytes. *)
AfterSize(buf, p, q) ==
  IF q.err # OK THEN q ELSE TakeBytes(buf, [q EXCEPT !.f = p.f], Last(q.f))
TakeSized(buf, p) == AfterSize(buf, p, TakeVarint(buf, p))

(* One entry of a PIPE_ACK; the entries ascend in <<pipe, lane>>. *)
Increasing(entries, e) ==
  entries # <<>> =>
    LET last == Last(entries) IN last[1] < e[1] \/ (last[1] = e[1] /\ last[2] < e[2])
AddEntry(p, q) ==
  IF q.err # OK THEN q
  ELSE IF ~Increasing(p.f, q.f) THEN FailWith(p, FE)
  ELSE [q EXCEPT !.f = Append(p.f, q.f)]
TakeEntry(buf, p) ==
  AddEntry(p, TakeVarint(buf, TakeVarint(buf, TakeVarint(buf, TakeVarint(buf,
                [p EXCEPT !.f = <<>>])))))
EntryRounds(buf, q, n) == Rounds(LAMBDA s, i : TakeEntry(buf, s), [q EXCEPT !.f = <<>>], n)

(* PIPE_ACK: a count the record cannot hold fails like the entry it lacks. *)
CloseEntries(p, r) == IF r.err # OK THEN r ELSE [r EXCEPT !.f = Append(p.f, r.f)]
AfterCount(buf, p, q) ==
  IF q.err # OK THEN q
  ELSE IF Last(q.f) \notin 1 .. Len(buf) - q.pos THEN FailWith(q, FE)
  ELSE CloseEntries(p, EntryRounds(buf, q, Last(q.f))[Last(q.f)])
TakeEntries(buf, p) == AfterCount(buf, p, TakeVarint(buf, p))

(* One byte, and a block of parameters, in place of the bytes read (q). *)
AsByte(q) == IF q.err # OK THEN q ELSE [q EXCEPT !.f[Len(q.f)] = Head(@)]
AsParams(q, tp) ==
  IF q.err # OK THEN q
  ELSE IF ~tp.ok THEN FailWith(q, TPE)
  ELSE [q EXCEPT !.f[Len(q.f)] = tp.params]
DecodeParams(q) == AsParams(q, decode_tps(Last(q.f)))

TakeField(buf, p, kind) ==
  IF p.err # OK THEN p
  ELSE CASE kind = "v"       -> TakeVarint(buf, p)
         [] kind = "data"    -> TakeSized(buf, p)
         [] kind = "rest"    -> TakeBytes(buf, p, Len(buf) - p.pos)
         [] kind = "key"     -> TakeBytes(buf, p, KeyBytes)
         [] kind = "entries" -> TakeEntries(buf, p)
         [] kind = "byte"    -> AsByte(TakeBytes(buf, p, 1))
         [] kind = "loc"     ->
              IF p.pos >= Len(buf) \/ buf[p.pos + 1] \notin 1..MaxLocatorBytes
              THEN FailWith(p, FE)
              ELSE TakeBytes(buf, [p EXCEPT !.pos = @ + 1], buf[p.pos + 1])
         [] kind = "params"  -> DecodeParams(TakeSized(buf, p))

PaddingRun(buf, pos) ==
  LET ends == {e \in pos + 1 .. Len(buf) : e = Len(buf) \/ buf[e + 1] # 0}
  IN  CHOOSE e \in ends : \A u \in ends : e <= u

(* [err, frame, pos] of the frame that starts at pos of a record's body: its *)
(* type t, then its registry row, then its fields p.                          *)
Error(e, pos) == [err |-> e, frame |-> [type |-> "none"], pos |-> pos]
Decoded(n, b, f, end) == [err |-> OK, frame |-> [type |-> n, bits |-> b, f |-> f], pos |-> end]

Checked(name, bits, p, pos, limit) ==
  IF p.err # OK THEN Error(p.err, pos)
  ELSE IF ~Valid(name, bits, p.f, p.pos - pos) THEN Error(FE, pos)
  ELSE IF name = "DATAGRAM" /\ limit # NoLimit /\ p.pos - pos > limit THEN Error(PV, pos)
  ELSE Decoded(name, bits, p.f, p.pos)

FieldRounds(buf, at, kinds) ==
  Rounds(LAMBDA q, i : TakeField(buf, q, kinds[i]), [pos |-> at, f |-> <<>>, err |-> OK],
         Len(kinds))
TakeFields(buf, at, kinds) == FieldRounds(buf, at, kinds)[Len(kinds)]

DecodeFields(buf, pos, t, row, limit) ==
  Checked(row.name, t.val - row.first,
          TakeFields(buf, t.pos, Layout(row.name, t.val - row.first)), pos, limit)

DecodeKnown(buf, pos, t, row, enabled, limit) ==
  IF row.prohibited THEN Error(FE, pos)
  ELSE IF row.gates # {} /\ row.gates \cap enabled = {}
       THEN Error(IF row.name = "DATAGRAM" THEN PV ELSE FE, pos)
  ELSE DecodeFields(buf, pos, t, row, limit)

DecodeTyped(buf, pos, t, enabled, limit) ==
  IF ~t.ok THEN Error(FE, pos)
  ELSE IF t.width # varint_len(t.val) THEN Error(PV, pos)
  ELSE IF t.val = 0
       THEN LET e == PaddingRun(buf, pos) IN Decoded("PADDING", e - pos, <<>>, e)
  ELSE IF t.val \notin DOMAIN frame_by_type THEN Error(FE, pos)
  ELSE DecodeKnown(buf, pos, t, frame_by_type[t.val], enabled, limit)

decode_frame(buf, pos, enabled, limit) ==
  DecodeTyped(buf, pos, decode_varint(buf, pos), enabled, limit)

(* What a loop over items has after the item d: position, items, error. *)
Collect(p, d, item) ==
  IF d.err # OK THEN FailWith(p, d.err) ELSE [p EXCEPT !.pos = d.pos, !.f = Append(@, item)]

NextFrame(p, d) == Collect(p, d, d.frame)

(* [pos, f, err]: every frame of a body, or the error of the first bad one. *)
NoItems == [pos |-> 0, f |-> <<>>, err |-> OK]

FrameRound(body, enabled, limit, p) ==
  IF p.err # OK \/ p.pos >= Len(body) THEN p
  ELSE NextFrame(p, decode_frame(body, p.pos, enabled, limit))

FrameRounds(body, enabled, limit) ==
  Rounds(LAMBDA p, i : FrameRound(body, enabled, limit, p), NoItems, Len(body))

decode_frames(body, enabled, limit) == FrameRounds(body, enabled, limit)[Len(body)]

(* [err, done, frames, pos]; neither done nor in error while incomplete. *)
Result(e, d, fs, at) == [err |-> e, done |-> d, frames |-> fs, pos |-> at]

Whole(body, from, end) ==
  IF body.err # OK THEN Result(body.err, FALSE, <<>>, from)
  ELSE Result(OK, TRUE, body.f, end)

Body(buf, from, end, enabled) ==
  Whole(decode_frames(SubSeq(buf, from + 1, end), enabled, NoLimit), from, end)

\* Faulty variant: what has arrived of the record is taken for all of it.
DecodeSizedEarly(buf, pos, size, max, enabled) ==
  IF ~size.ok THEN Result(OK, FALSE, <<>>, pos)
  ELSE IF size.val = 0 \/ size.val > max THEN Result(FE, FALSE, <<>>, pos)
  ELSE Body(buf, size.pos, IF size.pos + size.val <= Len(buf) THEN size.pos + size.val
                           ELSE Len(buf), enabled)

\* Faulty variant: the record is taken to have a Size of minimal width.
DecodeSizedMinimal(buf, pos, size, max, enabled) ==
  IF ~size.ok THEN Result(OK, FALSE, <<>>, pos)
  ELSE IF size.val = 0 \/ size.val > max THEN Result(FE, FALSE, <<>>, pos)
  ELSE IF size.pos + size.val > Len(buf) THEN Result(OK, FALSE, <<>>, pos)
  ELSE [Body(buf, size.pos, size.pos + size.val, enabled) EXCEPT
          !.pos = IF @ = size.pos THEN @ ELSE pos + varint_len(size.val) + size.val]

DecodeSized(buf, pos, size, max, enabled) ==
  IF ~size.ok THEN Result(OK, FALSE, <<>>, pos)
  ELSE IF size.val = 0 \/ size.val > max THEN Result(FE, FALSE, <<>>, pos)
  ELSE IF size.pos + size.val > Len(buf) THEN Result(OK, FALSE, <<>>, pos)
  ELSE Body(buf, size.pos, size.pos + size.val, enabled)

decode_record(buf, pos, max, enabled) ==
  DecodeSized(buf, pos, decode_varint(buf, pos), max, enabled)

NextRecord(p, r) == IF r.err = OK /\ ~r.done THEN p ELSE Collect(p, r, r.frames)

RecordRound(buf, max, enabled, p) ==
  IF p.err # OK \/ p.pos >= Len(buf) THEN p
  ELSE NextRecord(p, decode_record(buf, p.pos, max, enabled))

RecordRounds(buf, max, enabled) ==
  Rounds(LAMBDA p, i : RecordRound(buf, max, enabled, p), NoItems, Len(buf))

Ended(p, buf, requireComplete) ==
  IF requireComplete /\ p.err = OK /\ p.pos < Len(buf) THEN FailWith(p, FE) ELSE p

decode_stream(buf, max, enabled, requireComplete) ==
  Ended(RecordRounds(buf, max, enabled)[Len(buf)], buf, requireComplete)

(* A message of a message-framed carrier counts as its byte-stream form.     *)
message_position(msg) == Len(msg) + Len(V(Len(msg)))

-----------------------------------------------------------------------------
QX_TP_PREFIX == V(frame_by_name["QX_TRANSPORT_PARAMETERS"].first)
PIPE_JOIN_PREFIX == V(frame_by_name["PIPE_JOIN"].first)
PIPE_LANE_PREFIX == V(frame_by_name["PIPE_LANE"].first)
MIN_TP_RECORD == Len(QX_TP_PREFIX) + 1
MIN_JOIN_RECORD == Len(PIPE_JOIN_PREFIX) + 6 + KeyBytes
MIN_LANE_RECORD == Len(PIPE_LANE_PREFIX) + KeyBytes + 2

(* The incremental check of a pipe's first bytes: the kinds of first record  *)
(* whose smallest size, and the receiver's limit, allow this Size.           *)
Candidates(size, acceptJoin, acceptLane, max) ==
  {c \in {[kind |-> "session", marker |-> QX_TP_PREFIX, min |-> MIN_TP_RECORD, ok |-> TRUE],
          [kind |-> "join", marker |-> PIPE_JOIN_PREFIX, min |-> MIN_JOIN_RECORD,
           ok |-> acceptJoin],
          [kind |-> "lane", marker |-> PIPE_LANE_PREFIX, min |-> MIN_LANE_RECORD,
           ok |-> acceptLane]} : c.ok /\ size \in c.min .. max}

Decide(size, rest, alive) ==
  LET decided == {c \in alive : Len(rest) >= Len(c.marker)}
  IN  IF ~size.ok THEN "need-more"
      ELSE IF alive = {} THEN "reject"
      ELSE IF decided = {} THEN "need-more"
      ELSE (CHOOSE c \in decided : TRUE).kind

\* Faulty variant: a type that has not arrived in full is compared as if it had.
classify_first_bytesWhole(prefix, acceptJoin, acceptLane, max) ==
  LET size == decode_varint(prefix, 0)
      rest == SubSeq(prefix, size.pos + 1, Len(prefix))
  IN  Decide(size, rest, {c \in Candidates(size.val, acceptJoin, acceptLane, max) :
                            IsPrefix(c.marker, rest)})

classify_first_bytes(prefix, acceptJoin, acceptLane, max) ==
  LET size == decode_varint(prefix, 0)
      rest == SubSeq(prefix, size.pos + 1, Len(prefix))
  IN  Decide(size, rest, {c \in Candidates(size.val, acceptJoin, acceptLane, max) :
                            IsPrefix(rest, c.marker) \/ IsPrefix(c.marker, rest)})
=============================================================================
