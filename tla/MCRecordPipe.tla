---------------------------- MODULE MCRecordPipe ----------------------------
(***************************************************************************)
(* RecordPipe with Radix 4: a byte is below 16, one, two, four and eight    *)
(* bytes hold values below 4, 64, 2^14 and 2^30.  Core frames keep their    *)
(* real codes (all below 64); zmux frames have codes of four bytes and      *)
(* QX_TRANSPORT_PARAMETERS one of eight, as in the registry.                *)
(***************************************************************************)
EXTENDS RecordPipe

Row(name, first, last, gates) ==
  [name |-> name, first |-> first, last |-> last, prohibited |-> FALSE, gates |-> gates]

FrameRows ==
  {Row("PADDING", 0, 0, {}), [Row("ACK", 2, 3, {}) EXCEPT !.prohibited = TRUE],
   Row("STREAM", 8, 15, {}), Row("MAX_DATA", 16, 16, {}), Row("MAX_STREAM_DATA", 17, 17, {}),
   Row("MAX_STREAMS", 18, 19, {}), Row("CONNECTION_CLOSE", 28, 29, {}),
   Row("RESET_STREAM_AT", 36, 36, {"reset_stream_at"}),
   Row("DATAGRAM", 48, 49, {"max_datagram_frame_size"}),
   Row("QX_TRANSPORT_PARAMETERS", 20000, 20000, {}),
   Row("PRIORITY_UPDATE", 4000, 4000, {"zmux_priority"}),
   Row("PIPE_JOIN", 5000, 5000, {"zmux_multipath"}),
   Row("PIPE_LANE", 6000, 6000, {"zmux_max_lanes"}),
   Row("PIPE_ACK", 7000, 7000, {"zmux_multipath", "zmux_pipe_ack"})}

Parameter(id, name, format) == [id |-> id, name |-> name, format |-> format, prohibited |-> FALSE]

(* Every companion rule has the parameter that needs it and the one it needs. *)
ParameterRows ==
  {Parameter(1, "initial_max_stream_data_bidi_remote", "varint"),
   Parameter(2, "initial_max_stream_data_uni", "varint"),
   Parameter(3, "max_record_size", "varint"),
   Parameter(4, "reset_stream_at", "empty"),
   Parameter(5, "zmux_preamble", "varint"),
   Parameter(6, "zmux_multipath", "multipath"),
   Parameter(7, "zmux_ack_threshold", "varint"),
   Parameter(8, "zmux_max_lanes", "lanes"),
   Parameter(9, "zmux_role", "role"),
   Parameter(10, "zmux_resume", "varint"),
   [Parameter(11, "original_destination_connection_id", "opaque") EXCEPT !.prohibited = TRUE]}

MCFrameTypes == FrameRows
MCTransportParameters == ParameterRows

Gates == UNION {row.gates : row \in FrameTypes}
NoDatagrams == Gates \ {"max_datagram_frame_size"}
(* TLC evaluates a definition a constant is set to at each use, the ones it  *)
(* refers to only once: hence the two levels, here and below.                 *)
TwoModes == {<<Gates, <<TRUE, TRUE>>>>, <<NoDatagrams, <<FALSE, FALSE>>>>}
Narrow == {<<NoDatagrams, <<TRUE, FALSE>>>>}
MCModes == TwoModes
OneMode == Narrow

Frame(type, bits, f) == [type |-> type, bits |-> bits, f |-> f]

TP == Frame("QX_TRANSPORT_PARAMETERS", 0, <<<<[id |-> 1, value |-> 9]>>>>)
TPEmpty == Frame("QX_TRANSPORT_PARAMETERS", 0, <<<<>>>>)
Join == Frame("PIPE_JOIN", 0, <<<<7>>, 2, 1, 0, 0, <<9>>>>)
Lane == Frame("PIPE_LANE", 0, <<<<9>>, 0, 1>>)
MaxData == Frame("MAX_DATA", 0, <<5>>)
Stream == Frame("STREAM", 7, <<1, 4, <<7, 0>>>>)
StreamRest == Frame("STREAM", 1, <<1, <<0>>>>)
Ack == Frame("PIPE_ACK", 0, <<<<<<0, 0, 5, 1>>, <<0, 1, 0, 1>>>>>>)

Written ==
  {<<TPEmpty>>, <<TP, MaxData>>, <<Join>>, <<Lane>>, <<Ack>>, <<Stream>>, <<MaxData, StreamRest>>,
   <<Frame("PADDING", 2, <<>>), Frame("DATAGRAM", 0, <<<<1>>>>)>>,
   <<Frame("RESET_STREAM_AT", 0, <<1, 2, 5, 5>>), Frame("CONNECTION_CLOSE", 0, <<1, 16, <<>>>>)>>,
   <<Frame("PRIORITY_UPDATE", 0, <<0, 4, 0>>), Frame("MAX_STREAMS", 1, <<3>>)>>}

(* What a peer that is not compliant writes: mostly a malformed body behind  *)
(* its Size, or the start of another protocol.                                *)
Raw(body) == V(Len(body)) \o body

NonMinimalField == Raw(V(17) \o encode_varint(3, 2) \o encode_varint(4, 4))
DatagramPastEnd == Raw(V(49) \o V(3))
Malformed ==
  {<<0>>,                                               \* a Size of 0
   Raw(V(2)),                                           \* a prohibited type
   Raw(V(16)),                                          \* a field is missing
   Raw(encode_varint(16, 4) \o V(1)),                   \* a type of the wrong width
   Raw(V(36) \o V(1) \o V(0) \o V(1) \o V(2)),          \* reliable beyond final size
   Raw(V(7000) \o <<2>> \o <<0, 0, 0, 0, 0, 0, 0, 0>>), \* entries not increasing
   DatagramPastEnd, NonMinimalField}
Foreign == {<<15, 1, 2, 3, 4, 5, 6, 7>>, <<4, 0>>, Raw(V(5000))}
NonMinimal == {NonMinimalField}
PastEnd == {DatagramPastEnd}

Both == Malformed \cup Foreign
AllRaw == Both
NonMinimalRaw == NonMinimal
TruncatedDatagram == PastEnd
AllRecords == Written
OneRecord == {<<MaxData>>}
=============================================================================
