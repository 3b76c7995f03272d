----------------------------- MODULE RecordPipe -----------------------------
(***************************************************************************)
(* One byte-stream pipe: a peer that writes records, a carrier that hands   *)
(* their bytes over in pieces of any size and may end between any two of    *)
(* them, and the reader, which classifies the first bytes and decodes one   *)
(* record after another (decode_stream, tools/zmuxwire/frames.py).          *)
(***************************************************************************)
EXTENDS Frames

CONSTANTS
  Records,         \* the frame sequences the peer writes as records
  RawWrites,       \* byte sequences it may write instead of a record
  SizeWidths,      \* widths it gives the Size, where the Size fits
  Modes,           \* pairs of the gates in effect and <<joins, lanes are acceptable>>
  MaxRecordSize,   \* the reader's own limit
  MaxWrites        \* bound on the writes

ASSUME PipeAssumption ==
  /\ \A r \in Records : RecordFits(r)
  /\ RawWrites \subseteq Seq(Byte) /\ SizeWidths \subseteq Widths /\ MaxRecordSize \in Nat

VARIABLES
  wire,            \* every byte written to the pipe
  written,         \* the writes: [frames, end, good]
  got,             \* how many bytes of wire the carrier has delivered
  pos,             \* how many of them the reader has processed
  recs,            \* the records it has returned
  verdict,         \* "open", "ended", or the error the reader failed with
  enabled,         \* the gates in effect
  accept           \* <<a join is acceptable, a lane is acceptable>>

pipeVars == <<wire, written, got, pos, recs, verdict, enabled, accept>>

buf == SubSeq(wire, 1, got)
Head1 == decode_record(buf, pos, MaxRecordSize, enabled)
class == classify_first_bytes(buf, accept[1], accept[2], MaxRecordSize)

PipeInit ==
  /\ wire = <<>> /\ written = <<>> /\ got = 0 /\ pos = 0 /\ recs = <<>>
  /\ verdict = "open"
  /\ \E m \in Modes : enabled = m[1] /\ accept = m[2]

MayWrite == verdict = "open" /\ Len(written) < MaxWrites

Put(bytes, frames, good) ==
  /\ wire' = wire \o bytes
  /\ written' = Append(written, [frames |-> frames, end |-> Len(wire) + Len(bytes),
                                 good |-> good])
  /\ UNCHANGED <<got, pos, recs, verdict, enabled, accept>>

(* encode_record: a compliant peer stays within the reader's limit. *)
Write(frames, width) ==
  LET size == Len(encode_frames(frames))
  IN  /\ MayWrite
      /\ size \in 1..MaxRecordSize
      /\ size < Capacity(width)
      /\ Put(encode_record(frames, width), frames, TRUE)

(* A peer that is not compliant, or speaks another protocol. *)
WriteRaw(bytes) == MayWrite /\ Put(bytes, <<>>, FALSE)

(* The carrier hands over the next byte; a larger piece is several of these  *)
(* before the reader's next turn.                                            *)
Deliver ==
  /\ verdict = "open" /\ got < Len(wire)
  /\ got' = got + 1
  /\ UNCHANGED <<wire, written, pos, recs, verdict, enabled, accept>>

(* One turn of the reader's loop: a complete record, or an error. *)
Return(r) ==
  /\ r.done \/ r.err # OK
  /\ IF r.done THEN recs' = Append(recs, r.frames) /\ pos' = r.pos /\ UNCHANGED verdict
               ELSE verdict' = r.err /\ UNCHANGED <<recs, pos>>
  /\ UNCHANGED <<wire, written, got, enabled, accept>>

Read == verdict = "open" /\ pos < got /\ Return(Head1)

(* The carrier ends, with or without the bytes still under way; the reader  *)
(* first processes every complete record it has.                            *)
Incomplete(r) == ~r.done /\ r.err = OK

End ==
  /\ verdict = "open"
  /\ pos = got \/ Incomplete(Head1)
  /\ verdict' = IF pos < got THEN FE ELSE "ended"
  /\ UNCHANGED <<wire, written, got, pos, recs, enabled, accept>>

PipeNext ==
  \/ \E r \in Records, w \in SizeWidths : Write(r, w)
  \/ \E b \in RawWrites : WriteRaw(b)
  \/ Deliver
  \/ Read
  \/ End

PipeSpec == PipeInit /\ [][PipeNext]_pipeVars

-----------------------------------------------------------------------------
(* Writes before the first one that is not a well-formed record whose frames *)
(* are all negotiated.                                                        *)
Understood(i) ==
  \A j \in 1..i :
    /\ written[j].good
    /\ \A k \in DOMAIN written[j].frames :
         LET gates == frame_by_name[written[j].frames[k].type].gates
         IN  gates = {} \/ gates \cap enabled # {}

(* However the carrier cuts the bytes up, the reader returns what one pass   *)
(* over all of them returns: its records are the first ones of that pass,    *)
(* and an error it stopped with, unless the carrier ended inside a record,   *)
(* is the error of that pass (decode_record returning None until complete).  *)
IsWholePass(whole) ==
  /\ IsPrefix(recs, whole.f)
  /\ verdict \in {FE, PV, TPE} =>
       \/ recs = whole.f /\ verdict = whole.err
       \/ pos < got /\ Incomplete(Head1) /\ verdict = FE

ChunkIndependent == IsWholePass(decode_stream(wire, MaxRecordSize, enabled, FALSE))

(* Every record of compliant, negotiated frames is returned as it was        *)
(* written, and the reader fails inside one only because the carrier ended   *)
(* there: the decoder inverts the encoder, whatever the width of the Size.   *)
(* A Size of minimal width moves the reader as far as the same record would   *)
(* as a message of a message-framed carrier (message_position), so that both  *)
(* ends of either count the same positions.                                   *)
ReadsWhatWasWritten ==
  /\ \A i \in DOMAIN recs :
       Understood(i) => recs[i] = written[i].frames /\ (i = Len(recs) => pos = written[i].end)
  /\ verdict \in {FE, PV, TPE} /\ Len(recs) < Len(written) /\ Understood(Len(recs) + 1)
       => pos < got /\ got < written[Len(recs) + 1].end
  /\ \A i \in DOMAIN recs :
       LET begin == IF i = 1 THEN 0 ELSE written[i - 1].end
           size  == decode_varint(wire, begin)
       IN  Understood(i) /\ size.width = varint_len(size.val)
             => written[i].end = begin + message_position(encode_frames(recs[i]))

(* The first-bytes check decides once: more bytes never change a decision,   *)
(* so a listener may hand the carrier over, or close it, at that byte.       *)
ClassifyDecidesOnce == [][class # "need-more" => class' = class]_pipeVars

-----------------------------------------------------------------------------
(* frames.py:4-5: "Every decode result re-encodes to the identical bytes".   *)
ReencodesIdentical ==
  \A i \in DOMAIN recs :
    LET begin == IF i = 1 THEN 0 ELSE written[i - 1].end
        body  == encode_frames(recs[i])
    IN  Len(written) >= i =>
          SubSeq(wire, begin + 1, written[i].end) = encode_record(recs[i], varint_len(Len(body)))

(* frames.py:340: "Decode errors are raised before semantic ones": a body    *)
(* whose DATAGRAM, were it negotiated, would fail to decode is a decode      *)
(* error and not the PROTOCOL_VIOLATION of an unnegotiated DATAGRAM.         *)
DecodeErrorsFirst ==
  LET size == decode_varint(buf, pos)
      body == SubSeq(buf, size.pos + 1, size.pos + size.val)
      open == decode_frames(body, enabled \cup {"max_datagram_frame_size"}, NoLimit)
  IN  verdict = PV => open.err \notin {FE, TPE}
=============================================================================
