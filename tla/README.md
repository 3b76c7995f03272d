# A TLA+ model of zmux

zmux multiplexes streams over one carrier, or over several carriers ("pipes") at
once. The repository holds the protocol documents, a wire codec
(`tools/zmuxwire/`), and `tools/build_traces.py`: some 330 executable traces
that an endpoint must reproduce step by step. There is no endpoint in the
repository; the traces are its contract, and every definition here is read from
the trace that fixes it (or from the codec, where the codec computes it).

A trace is one schedule of one endpoint against a scripted peer. The modules put
two conforming endpoints together, with the carriers between them, and let TLC
run every schedule; that is what the traces cannot do.

## The system

| part | state | operations | what is hard | what makes it correct |
|---|---|---|---|---|
| pipe acknowledgement, failover (`build_traces.py` 2447-3455) | state of each pipe, positions sent and acknowledged, what waits for reinjection | join, send, acknowledge, suspect, fail, probe, reinject, drain, remove | carriers cut between any two steps, snapshots that overtake, timers that race acknowledgements, removal racing failure | nothing lost, nothing forgotten early, reinjected at most once, removal final, progress |
| data flow control (713-970, 1821-1846, 2914-2961) | limits known and advertised, highest offsets, released and held credit | send, block, reset, stop, release, update | copies after resets, falling Reliable Sizes, thresholds below which updates are withheld, the buffer cap | limits kept, each byte released once, bounded memory, no mutual wait |
| streams and GOAWAY (477-712, 904-953, 1388-1511) | identifiers, what was offered, watermarks, concurrency credit | open, pin, cancel, offer, accept, decline, release, shut down | first frames and ends that overtake each other and the GOAWAYs | rejected means never processed; bounded concurrency; every stream answered |
| resume (4818-5187) | state of each attachment at each end, suspended session, grace | suspend, rejoin, displace, refuse, retire, complete snapshot, expire | the ends disagree on what is alive; failed attachments fill the cap when their retirement cannot complete | the session resumes or its grace ends; bounded attachments; nothing lost across a suspension |
| attachments and joins (2426-2760, 3538-3790) | replay window, PIPE_ABANDON exchange of both sides, retirement, backoff | join, verify, refuse, abandon, answer, retire | joins and abandons that arrive late, again, or before each other | one attachment per identifier, both sides retire, no conforming end fatal |
| close, idle, keep-alive (1197-1338, 1821-1987, 3457-3537) | close sent and received, linger, idle timer | close, linger, keep alive, time out | crossing closes, timers that race traffic, carriers that fall silent | the peer's reason is reported, no end without reason, both ends end |
| budget and QX_PING (971-1196, 3538-3560) | budget, last sequence numbers | charge, refill, answer | pings of applications and keep-alives that cross | a conforming peer is never cut off |
| codec (`zmuxwire/frames.py`, `varint.py`, `preamble.py`) | bytes received, position | encode, decode, validate, classify | non-minimal integers, lengths at the limits, unknown types | decode accepts what encode writes and nothing ambiguous |
| handshake and first bytes (42-475) | features, role, early data | classify, exchange parameters | other protocols on the port, data before parameters | both ends agree on role and features; rejected data was not processed |
| lanes (2088-2314) | lanes of a pipe, positions of each, the lane of each stream | open, confirm, refuse, move, close | lanes have no order between them | streams in order, the close comes last, no unused lane costs anything |
| datagrams, priority, status, tiers (1515-1820, 3417-3445, 4000-4650) | queues, requests and their sequence numbers, takeovers | enqueue, drop, request, take over, restore, select | requests that overtake each other and the join, restorations lost with a pipe | the newest request is followed, takeovers end, queues bounded |
| asset tools, renderings, registry | files | generate, compare | none | the files are reproducible |

The parts of one session interact through the pipes (every frame is a record on
one), through the credit that streams draw from the session, and through the
release of streams by the application, which gives back both kinds of credit.

## Modules

| module | what it is |
|---|---|
| `Delivery` | what one direction of a multipath session promises: reliable, ordered, exactly once |
| `Failover` | the same direction over pipes that stall, fail and are removed |
| `FailoverProofs` | its inductive invariant, its safety properties, and that it implements `Delivery` |
| `Credit` | data flow control of a multipath session, one direction |
| `CreditProofs` | limits are kept, credit is released once, memory is bounded |
| `Streams` | streams of one type from opener to acceptor, and the GOAWAY of the acceptor |
| `StreamsProofs` | its inductive invariant and its safety properties |
| `Attach` | pipe IDs from the joiner's first byte to retirement at both ends |
| `Resume` | suspension, rejoining, displacement and retirement of attachments, from both ends |
| `ResumeProofs` | the cap holds, and no accepted join costs a direction |
| `Handshake` | what an endpoint decides from the two parameter blocks: role, early data, errors |
| `Session` | two endpoints on one carrier from the first record to the end, with time |
| `SessionProofs` | every safety property of `Session`: roles, early data, pings, reported reasons, keep-alives |
| `Lanes` | one direction of a pipe without multipath, over several lanes |
| `LanesProofs` | streams in order across lanes, the close last, only faults lose the session, and each stream implements `Delivery` |
| `Status` | how one end asks the other to use its side of each pipe, and standby takeover |
| `StatusProofs` | whoever has the last request number has the last request |
| `Varint` | variable-length integers (`varint.py`) |
| `TransportParams` | the parameter block: encode, decode, validate (`frames.py` 62-218) |
| `Frames` | frames, records, messages, the first-bytes check (`frames.py` 225-641) |
| `RecordPipe` | a writer, a carrier that cuts its bytes up, and the reader's loop over `Frames` |
| `TpBlock` | blocks of parameters built one at a time |
| `PipeProofs` | what is proved of one pipe: its bytes (`RecordPipe`, `TpBlock`) and its ID (`Attach`) |
| `MCFailover`, `MCCredit`, `MCStreams`, `MCAttach`, `MCResume`, `MCSession`, `MCLanes`, `MCStatus` | constants of the TLC instances |
| `MCRecordPipe`, `MCCodec` | constants of the codec; `MCCodec` runs `RecordPipe` and `TpBlock` side by side |

### Failover

A record carries one frame: a chunk of the stream, or a control frame (a join, a
probe). `log[p]` is everything handed to the carrier of pipe p; its length is the
position the sender has sent, `rpos[p]` the position the receiver has applied,
`acked[p]` the position the sender knows of. The traces count bytes of complete
records; the model counts records, and a cut inside a record is a cut before its
end (`ack.pipe_ends_mid_record`). `rev[q]` holds the PIPE_ACK snapshots on their
way back on q; each is the whole of `rpos`, sent on one pipe and copied on a
second when there is one (`ack.lowest_delay_pipe_and_copy`).

Outbound pipes are NONE, JOINING, ACTIVE, SUSPECT, DRAINING, CLOSED or FAILED as
in STATE_MACHINE.md 3.1. Time is abstracted: a timer is an action that may happen
whenever its pipe is in the state in which it runs. `Suspect` distinguishes a real
stall (nothing can move the position any more) from a pause of the peer, and a
bound limits the second kind. The PIPE_ABANDON that the sender sends is its pipe
state, which the receiver may read at any later time; the one the receiver sends
is `pab`. Both travel reliably over whatever pipe is left.

### Credit

Two endpoints again: `Stream` carries bytes 1..Size, the first `Preamble` of which
must be sent whole. What the sender has sent is `off`, and the receiver may see the
bytes of it in any order, late copies included. The receiver counts a released byte
of session credit when the byte arrives, unless its buffer is at the cap, in which
case it is held; a reset releases what it makes unnecessary. Limits are advertised
in `lim` and `slim`; the frames that carry them are read at the moment they arrive,
since an overtaken limit is ignored. What the code keeps as sums of offsets are
numbers of bytes here (`Spent`, `Used`, `Accounted` are sets of bytes or count them),
because that is what can be proved about.

### Streams

A stream is its index. `alloc` identifiers are assigned, `sent` first frames were
emitted, and those between are pinned (the application read the identifier of a
stream that sent nothing). The acceptor keeps what its application did with each
stream; that a stream is rejected follows from the watermarks it sent (`gw`). The
initial state chooses `ordered`: a single pipe, where frames arrive in the order sent,
or a multipath session, where they do not. One run checks both.

### Resume

J dials and A accepts. `dir[s]` and `net[s]` are the direction and the carrier of
attachment s (a pair or a one-way pipe), `st[e][s]` what end e knows of it: nothing,
joining, live, or failed and not yet retired. `sus` are the suspended ends; an end
suspends when no pipe of a direction is left, a joining one included, and leaves
SUSPENDED when one of each direction is confirmed. Every step ends in `Judge`, since
the traces expect the event in the step that causes it. A slot stands for one pipe ID
after another and is taken again once neither end remembers the last one, because an
ID is never accepted twice (`resume.rejoin.old_pipe_id_replay_rejected`).

`Arrive` is the acceptor's decision: attach below the cap, refuse at the cap, but while
suspended displace instead, a failed attachment first and a live one only for a join
that provides a direction it lacks. Which of several is oldest is left open. There are
no clocks. `Stalled`, `Silent`, `JoinTimeout` and `CarrierError` may happen when their
cause is real, and `Mute` keeps a timer from expiring while a join that would bring
the answer is on its way, as it takes far less time than any of them; a timer that
expires although the peer was only slow is a `Pause`. The exchange of PIPE_ABANDON is
its outcome: `Abandoned` at the end that hears of it, `Retire` once acknowledgements
can travel both ways. `Expire` ends the model.

### Attach

J joins and A accepts, as either end may do with IDs of its own parity; the IDs are
counted 1, 2, ... `st` is what each end knows of an ID, `high` and `bits` are the
acceptor's replay window (the highest verified ID and the bitmap around it), `ab` the
PIPE_ABANDON of each end and `entries` what J listed in PIPE_ACKs. Nothing is a queue:
once J has taken an ID its PIPE_JOIN may arrive at any time and any number of times,
and so may a PIPE_ABANDON once sent and a PIPE_ACK once written, which is at least what
carriers that are cut, hold back and replay can do. `Retire` is one action for the
answered and the unanswered exchange: what the peer's frame adds is only that the
end need not wait for max(2 s, 3 PTO). What is authentication in the traces (tickets,
keys) is left out: `Fresh` is what comes after it.

### Handshake, Session

`Handshake` has the decisions of core.handshake, ext.role and compat: `Resolve` takes
the role from both `zmux_role`s and the transport role, `Objections` is the set of errors
an end finds in its peer's parameters, of which it reports one. A configuration of an
end says what it announces, its timeouts, and what its application does.

`Session` puts two ends on one carrier. `chan[e]` holds the frames e sent that its
peer has not read, in order, each with the ticks it may still take. `Tick` is time: it
is disabled while an end has something due, so that timers fire on time, but a frame
that arrives in the same instant may come before or after. `Do` is a step of an end of
its own, `Reads` one on its next frame; `Over` is what an end keeps when it is over
(the report to the application, and that it lingers). The acknowledgement of
multipath appears as `Acks`: whether PIPE_ACK is in use decides what counts as activity,
whether an idle end says why, and what a graceful end without CONNECTION_CLOSE means.

Without an idle timeout the timer of an open end stops where no keep-alive can be waiting
for it any more (`Rests`), which only bounds it.

Abstractions: jitter of the keep-alive is 0; a request is given up (`GiveUp`) only when
the carrier is stalled, that is, a round trip is taken to be shorter than max(1 s, 3 SRTT),
and `NeverCutOff` is to be read so: a request that is given up although its answer is
still to come, and whose retry then costs a token that comes back, is not covered; after the last
request is answered the sequence numbers of both ends start again, when no frame of the
exchange is under way, which keeps them bounded; `MaxData` bounds how often an end
writes.

`TimeAssumption` says what a carrier that is up is faster than. A frame takes less than the
handshake timeout (10 s) and less than lingering (3 SRTT, between 250 ms and 2 s), and two
round trips fit into an idle timeout (30 s by default), if there is one. The first two are
needed for `TrueReason`: an end that is done with lingering closes the carrier, and what its
peer then has not read of it is lost pipes, not a reason. The last is needed for `KeptAlive`:
the period is capped at half the idle timeout, and the other half must hold the request and
its answer. An idle timeout or a carrier for which this is false is not covered.
`MaxPings` is at least 1, or no keep-alive would be sent.

### Lanes

One direction of a session without multipath whose carrier connection offers further
streams. `written[l]` is the record stream of lane l, `read[l]` and `ack[l]` what the
receiver has read and acknowledged, `acked[l]` what the sender knows; `home[s]` is the
lane of a stream's data. The sender opens lanes in turn (`OpenLane`), a stream moves when
all of it on the old lane is acknowledged (`MayCarry`), and the close waits for every lane
(`SendClose`) until the linger timeout (`Linger`). `failed` are the lanes that are cut
off, `broken` those the carrier itself failed; an error on a lane that is not `InUse` is
none of the session. With a conforming sender lane 0 ends behind the CLOSE, so that the
"lost" branch of `LaneEnds` is never taken: the code has it for a sender that forgets it.

### Status

M asks F; F asks M in the same way, and neither affects the other. `out` is M's side of each
pipe with only the states that matter here, `conf` what M's application configured, `over` the
standby pipes whose takeover M announced, and `Wanted` follows from the two. `said` and `seq`
are the request M last stated and its number, `via` the pipe that carries it; `seen` is what F
follows. Every step of M ends in `Settle`: a takeover whose cause is gone ends, a request that
is no longer the one stated gets the next number, and the last one is sent again if the pipe
that carried it is lost. Because of that it does not matter in which step the cause arose, in
the API call, the failure or the end of a probation. A carrier keeps the order of its frames;
different carriers have none. A request that F's own settings override is still followed here:
those settings are F's alone. A pipe that is gone leaves nothing behind, since its ID is never
used again.

### The codec: Varint, TransportParams, Frames, RecordPipe, TpBlock

The codec is pure, so its functions are operators of the same names; what is
stateful is the loop around them. `RecordPipe` keeps the bytes a peer wrote
(`wire`), how many the carrier has handed over (`got`), how many the reader has
processed (`pos`) and what it returned (`recs`). `Deliver` hands over one byte;
since the reader need not run in between, every way of cutting the bytes into
pieces is a behaviour. `End` is the end of the carrier, inside a record or between
two. What a byte string means is computed by the decoder operators in every state.

Two abstractions. A byte is a number below 4 * `Radix`; `Radix` is 64 in the code
and 4 in the runs, so that a varint of 8 bytes stays within TLC's integers. The four
widths, the prefix bits, the boundaries between widths and the difference between
minimal and other encodings are all there. The keys and limits that the code takes
from the registry are constants (`KeyBytes`, `MaxLocatorBytes`, `MaxJoinBytes`, ...),
and so are the registry's rows; the runs give core frames their codes, zmux frames
codes of four bytes and QX_TRANSPORT_PARAMETERS one of eight, as in the registry. A
frame is its name, the bits of its type code and its fields in wire order (`Layout`
is the field order that `encode_frame` and `decode_frame` share); JSON names of
fields are left out. A loop of the code is `Rounds`: a function from the number of
rounds to what the loop's variables then hold, which after its end stay as they are
(`TpRounds`, `EntryRounds`, `FieldRounds`, `FrameRounds`, `RecordRounds`); no module here
declares a RECURSIVE operator. A step of a decoder takes what was just decoded as its
argument (`TakeVarint` is `Push` of a decoded varint).

What the encoder is given in the runs and the proofs is what it can encode so that it can be
told apart again: numbers that fit a varint, keys and locators of their sizes, a STREAM or
DATAGRAM without a length at the end of its record, one PADDING for a run of zero bytes,
strictly increasing PIPE_ACK entries (`FrameFits`, `RecordFits`, `TpFits`). Whatever else a
peer writes is one of `RawWrites`.

Two docstrings of `frames.py` say something else than the code does; each is a
run that TLC must find violated:

- `pipe_reencode`: "Every decode result re-encodes to the identical bytes". Not when
  a field or the Size is wider than it needs to be, which is legal. What holds is
  that the frames are the same.
- `pipe_precedence`: "Decode errors are raised before semantic ones". An unnegotiated
  DATAGRAM fails with PROTOCOL_VIOLATION before its fields are read; the body `31 05`
  should fail with FRAME_ENCODING_ERROR.

## Runs

| run | instance | shows |
|---|---|---|
| `failover_two` | 2 pipes, 2 chunks, 1 spurious stall | NoChunkLost, OneOwner, NoFalseAlarm, implements `Delivery` |
| `failover_remove` | one fate group of 2 pipes, 1 chunk, one pipe removable by either side, fairness | EndIsExpected, RemovalStands, Completes, Settles |
| `credit` | 2 streams, one given up at will and never read, preamble of 2, session window 3, cap 1, limits sent only when due, fairness | MemoryBound, WithinLimits, ReleasedOnce, ReadersFinish, WindowReturned |
| `streams` | 3 streams, limit 2, ordered or not, fairness | NotProcessed, BoundedConcurrency, FenceCovers, EveryStreamAnswered, CreditReturns |
| `attach` | 4 IDs, window 1, cap 1, fairness | NeverFatal, UsedOnce, Retires |
| `resume` | 5 slots, cap 2, pairs and uplinks, 1 fault (cut, silence, pause or removal), fairness | CapHolds, JoinCostsNoDirection, Resumes |
| `session` | 19 pairs of configurations, delay 1, idle timeouts 5, 6 or none, keep-alive 4, fairness | RolesOpposed, RejectedIsUnread, NeverCutOff, TrueReason, KeptAlive, Ends |
| `lanes` | 3 lanes, 2 streams of 2 pieces, 1 fault | InOrder, CloseComesLast, LostByFaultOnly |
| `status` | 2 pipes, 2 settings, 2 changes or 1 suspicion, fairness | Agreed, Follows, Restored |
| `codec` | 2 records of 10 kinds or 11 malformed or foreign starts, 2 widths of the Size, everything negotiated and acceptable or not; blocks of up to 4 of 12 parameters, one prohibited, one unknown | ChunkIndependent, ReadsWhatWasWritten, ClassifyDecidesOnce, DecodesBack |
| `pipe_reencode`, `pipe_precedence` | one record | the two disagreements above, violated |

The type invariants are in no run: they are theorems, and each is a conjunct of an invariant
that was checked with TLC before it was proved. So are `AckedIsReceived` of `Failover` and
`FirstGoawayRefusesNothing` of `Streams`, which are properties without a run.

Why the bounds are enough.

- Failover: two pipes are the least with which a chunk can be reinjected while its
  first copy is still under way; a third changes the choice of a pipe, not what happens to
  a chunk, and the proofs are for any number. Two chunks are the least that can arrive
  out of order. One spurious stall is enough for a chunk to be delivered and
  reinjected. One snapshot per pipe in transit still lets two overtake each other on
  two pipes.
- Credit: the session window is smaller than the two streams together and the stream
  window smaller than a stream, so that both limits bind, and a preamble of 2 in a window
  of 3 leaves a rest in which no preamble fits. What nobody reads of the stream at the cap
  stays held, which `WindowReturned` allows for.
- Streams: one more stream than the limit is the least with which credit must return.
- Attach: with a window of 1 and 4 IDs the bitmap moves past an ID twice, and with a
  cap of 1 an ID must retire before the next is attached; a window and a cap of 2 were
  checked as well (701,302 states).
- Resume: a cap of 2 is the least that the claim of `JoinCostsNoDirection` is about, 5 slots
  leave a free pipe ID when both ends are at the cap, and one fault is only the first
  failure: uplinks and joins that time out because the peer cannot answer supply the
  others. With two faults the liveness check no longer finishes in the time of a run.
- Session: the pairs of `Handshakes` reach every outcome of the handshake; those of
  `Sessions` let data, pings, keep-alives and closes of one or both ends cross on carriers
  with and without acknowledgement. One frame may take 0 or 1 ticks, so that
  everything can be early or late by one with respect to every timer.
  In two pairs neither end has an idle timeout, so that only the keep-alive uses the timer.
- Lanes: three lanes are the least with which a stream can leave a lane that another is
  on, and with which one lane is refused while another is in use. Beyond the bounds,
  the proofs hold for any number of lanes, streams and pieces.
- Status: two pipes are the least on which a request overtakes another or the join, and on which
  a takeover has something to take over from. `MaxTrouble` counts a change once and a
  suspicion twice; two changes let three requests be under way, and one suspicion starts and
  ends a takeover. A change together with a suspicion was checked apart (886,708 states), and
  the proof holds for any number.
- Codec: a record only affects the next one through the position it leaves, so two
  records are enough, and four parameters hold every companion rule with all it needs
  and one more.

## Fairness

The liveness runs assume what every conforming endpoint and carrier does: a carrier
that is not cut delivers, endpoints process what arrives and write what they owe
(acknowledgements within max_ack_delay, limits when they are due), and a timer whose
condition lasts expires. Weak fairness suffices everywhere: a handler whose input
is there stays enabled until it runs. Nothing makes the application open, remove,
reset, stop or shut down, nothing cuts a carrier and nothing pauses.

- `credit`: only the streams in `Readers` are read.
- `streams`: the opening application never has to end a stream. Steps of several
  streams share one fairness condition where each is taken finitely often, so that
  fairness to all is fairness to each; so do those of `Attach`. Properties about what changes
  only finitely often (`EveryStreamAnswered`, `Retires`) are stated as `[]<>`.
- `failover_remove` accepts the end of the session as an outcome, because without resume
  losing the last pipe ends it (`remove.last_*`).
- `attach`: a join need not arrive, nor the PIPE_ABANDON of an ID that was refused: for
  neither does an end wait with state.
- `session`: time passes, and each end does what is due. A stalled carrier reports
  nothing, so that only the timers end the session, and without an idle timeout none does
  (`Ends`).
- `status`: M sends what it owes, a carrier that M does not suspect delivers, a join is
  confirmed or given up, and suspicions and probations end. Requests change finitely often.
- `resume`: J keeps joining pairs while it is suspended, as a conforming dialler does
  until the grace period ends; `Resumes` accepts that end as an outcome. A J that has only
  one-way carriers must join both directions within one timeout (RESUME.md 4.3), which
  no untimed fairness expresses, so `RejoinDirs` holds pairs only.

## What is proved

All theorems hold for every value of the constants under the assumptions stated
with them (pipes of any number, any fate groups, any bounds).

`FailoverProofs`. The invariant `IInv` is inductive. Besides the types it says:
acknowledged <= applied <= sent on every pipe (`PositionsOrdered`); a snapshot in
transit is never ahead of the receiver (`SnapshotsBehind`), which is why an
acknowledgement can be trusted whatever overtook it; a counted record has been
applied (`CountedIsApplied`); only what was sent is anywhere (`OnlySent`); and a
chunk is in one place until it is reinjected (`OneOwner`). None of the properties
is inductive alone: NoChunkLost needs OnlySent for new chunks, AckedIsReceived needs
all of the first three. The refinement maps sent to `next`, arrived to `got`,
released to what the acknowledged positions cover; `Apply` of a control record or a
copy is a stutter, an acknowledgement is a `Release` because what it covers was
received. EndIsExpected has an invariant of its own, that an abandon received was
an abandon sent. RemovalStands needs the types only: of all steps only
the failure of a pipe takes it from DRAINING to FAILED, and then without its group.

`CreditProofs`. The accounting is that of finite sets of bytes, so that no induction
is needed. `Limited`: what was sent is within the limit known, which is behind the limit
advertised, which is behind what was granted; `KeepsWithinLimits` is a consequence.
`Agrees`: the receiver's final and Reliable Sizes are those of the sender, which is
why two resets in any order release the bytes between them once. `ReleasesOnce` is its
own invariant with these: each step adds to `credit` and `held` what it adds to
`Accounted`. `MemoryIsBounded`: at the cap a byte is held, and held bytes are within a
window of the released ones, as their sender never exceeded the limit.

`StreamsProofs`. The invariant ties the opener's counters to the acceptor's:
what the opener was granted is what the acceptor granted (`Credited`), what the
acceptor saw was emitted (`Seen`), watermarks are those of the phases of the
shutdown (`Phases`: the first is the granted limit, the second the highest offered
index + 1), and every report of a rejection has its reason (`Refused`). Rejected
means never processed follows because a final watermark is above everything offered
and nothing at or above it is offered later.

`ResumeProofs`. For any cap of at least 2 and any number of slots above twice the
cap. `CapHolds` is inductive with the types: of all steps only `Join` and
`Arrive` make an end remember more, by one, and only below the cap or in the
place of an attachment it drops (`OneMore`, `InPlaceOf`). `JoinCostsNoDirection`
follows from it: if a failed attachment makes room, everything live stays; if none
failed, the acceptor is at the cap with nothing but live ones, so at least two, and
since it is suspended it lacks the one direction the join provides; what it had is the
other direction, which another live attachment still serves (`LiveDisplaced`).

`PipeProofs`, the bytes of a pipe. For any `Radix`, registry, sizes, records and writes:
`SizesAssumption` (keys and nonces have a size, a locator's length is a byte),
`FrameTypesAssumption` (a code belongs to one row and a name to one, only PADDING has code 0,
and the three frames a pipe may start with are there), `ParamsAssumption` and `PipeAssumption`
(parameters and records are ones the encoder accepts). TLC evaluates all of them.

Decoding is a matter of loops, so each argument is an induction on the rounds of a loop. The
induction theorems of the library take a predicate, which the provers here cannot instantiate;
`Induction` and `InductionTo` have a set in its place, and rest on `Smallest`, that a set of
numbers has a least one, which is a case of the library's `WFMin`. That a recursive definition
defines a function is proved for each of them by building it value by value
(`CapacityIs`, `ShiftedIs`, `NumberIs`, `TpRoundsAre`, `FrameRoundsAre`, ...).

- `ReadsVarint`: a number is read as it was written, in any width that holds it, wherever it
  stands: each digit is the rest of a division (`Encodes`). `ContinuesVarint`: more bytes
  change nothing about a varint that is whole, and make only one whole that was cut off.
- `BlocksDecodeBack`. The bytes of a block are those of its parameters, one behind another
  (`BlockParts`), and a round reads the next (`DecodeTpStep`), or is the first to refuse one.
  Over the first n bytes the loop therefore ends refused or with some first parameters that
  are exactly those bytes (`TpLoop`), and it refuses nothing acceptable (`TakesIs`).
- `DecidesOnce`. More bytes exclude no fewer candidates, and a type that has arrived whole
  stays whole; it excludes the others, since markers are varints of different numbers, none of
  which starts another (`MarkersDiffer`).
- `ReadsInAnyPieces`, with the invariant `PassInv`: after n records the reader is where
  one pass over everything written is after n rounds, and what it has failed with is what that
  pass fails with. A step keeps it because a record that is done or in error stays so whatever
  follows (`ContinuesRecord`), hence so does every round (`ContinuesLoop`). It says nothing
  about who wrote the bytes.
- `ReadsBack`, with `ReadInv` besides: every good write stands in the bytes where the
  one before it ends (`WritesOk`), and as long as everything before was understood, the reader
  is at the beginning of the next write and has returned what was written (`ReadOk`). What is
  read there is what was written (`RecordBack`): fields are read one after another
  (`FieldsLoop`), a frame is found under the row its code belongs to and passes its own
  checks (`FrameBack`), PADDING ends where a byte is not zero, and no other frame starts
  with one (`PaddingBack`, `NonZero`). Neither invariant is enough alone: where the reader is
  in a buffer that is still growing is `PassInv`'s.

`PipeProofs`, the ID of a pipe. For any number of IDs, any window and any cap.
`Remembered`: A remembers every ID it has used, by its bit or because it is stale,
although it forgets the attachment; a verified join moves the bitmap up only (`VerifiedRemembers`), so that what is
stale stays stale. Hence a join that comes again is never fresh (`UsedOnce`). `Known`: what
either end says of an ID is about one that J has taken, and J's PIPE_ACKs list only what A
has seen, so that `NeverFatal` holds.

`SessionProofs`. Four invariants, each of which uses those before it. Every one is about
both ends and what is under way in both directions, which is why none of the properties is
inductive alone.

- `IInv`, for any set of configurations and any timers. An end has the role it resolves or
  none (`Roles`), and what two ends resolve from the same two parameters is opposite or a
  conflict for both (`Resolution`); opposite roles follow without looking at time. Rejected
  early data is unread because it is behind its fence in the channel until the reader has
  gone past the fence, which it does only with acknowledgement, or has given up
  (`Channels`); then whoever rejects has a reason (`Rejects`) for which the reader took
  nothing (`Processed`).
- `Pings`, for any timers. `Exchange`: a request is under way, owed, or its answer is under
  way, never two of these, and all carry the number of the request that waits; when none
  waits nothing is left, which is also why the numbers may start again. It is `Loose` once
  the asking end is over or the carrier stalls, since an answer may then come to nobody. So
  no request is outdated and no answer is unexpected, and `NeverCutOff` follows
  (`NobodyIsCutOff`).
- `Reasons`, under `TimeAssumption`. Queues are in the order of arrival (`Sorted`), and
  nothing is written behind an end (`Own`). To a peer that has not ended, the end of the
  stream comes behind the CONNECTION_CLOSE, or without one from an end that idled out
  without acknowledgement (`Announced`); on a carrier that is up it arrives before lingering
  ends (`Parting`), as the parameters arrive before the handshake times out (`Greeted`).
  Hence nobody closes a carrier on which a reason is awaited (`Gone`), and what is
  reported is true (`ReasonsAreTrue`).
- `Lasting`, under `TimeAssumption`, with P the period of an end with keep-alive. Such an end
  is silent for at most P before it asks, and then what it hears comes before its timer is
  beyond P + 2 Delay (`Kept`): the request is under way to a peer that will answer, or owed,
  or answered, or the peer has ended. Its peer hears in time too (`Fed`): something is under
  way, or it has been silent for hardly longer than the asking end, or that end owes an
  acknowledgement or an answer. Both need that an end answers at once and restarts its own
  timer as it does (`Swift`), and that a request that waits is somewhere (`Answerable`), so
  that a keep-alive that joins an outstanding request is answered as well. P is at most half
  of every idle timeout and that is more than 4 Delay, so no idle timer comes due
  (`PeriodShort`, `NeverSilent`), and nobody tells a peer that it did (`NobodyIdlesOut`).

`LanesProofs`. For any number of lanes and streams. What is to be read of a stream is on
one lane, in order and without a gap (`Unread`, `Sorted`), because a stream moves only when
all of it was acknowledged, hence read. A close that waited leaves nothing to read elsewhere
(`Behind`) and comes last on lane 0 (`Closing`). Every lane that is cut off was broken,
refused or rejected unread (`CutOff`), and a lane that is not confirmed holds only the record
that opens it (`Opening`), so that it is never in use. `Promise(s)` maps what the lanes do for
one stream to `Delivery`: a piece arrives when its record is read, which is what a PIPE_ACK
covers (`Received`); what the application reads is left out. It needs a stream as a parameter,
so it is in no run; TLC checked it for one of the streams of `lanes`.

`StatusProofs`. For any number of pipes, settings, changes and suspicions. `Behind`: no frame
and no state of F has a number above M's, and what has M's number is what M stated;
`Settle` keeps it because a new request takes a new number. `Quiet`: before a pipe is attached
nothing is said about it but the request of the join. With `Stated`, that M has stated what it
wants of every attached pipe, `RequestsAgree` follows.

Only model-checked: liveness, as TLAPS proves nothing of fairness or ENABLED
(`Completes`, `Settles`, `ReadersFinish`, `WindowReturned`, `EveryStreamAnswered`,
`CreditReturns`, `Retires`, `Resumes`, `Ends`, `Follows`, `Restored`). Every safety property
that a passing run checks is also a theorem.

## What is not modelled

- Datagrams: queues with a policy per endpoint, on which no other state depends.
- Which tier takes the data, its overflow, and how long a probation is: the scheduler is a
  free choice in every module, so that no property depends on it. PRIORITY_UPDATE, which
  asks it for an order of streams.
- Positions across a suspension (complete snapshots, checks that fail closed): `Resume`
  ends where the session resumes, and `Failover` knows no suspension.
- The close of a session with several pipes, and the inbound-silence limit.
- The budget for frames other than pings, and backoff after a refusal: numeric
  policy; the traces give the numbers.
- Lanes of the pipes of a multipath session, where the failure of a lane reinjects.
- The stream preamble (`preamble.py`) and the JSON form of frames.
- Key derivation and tokens, scheduler estimates, the registry, renderings and the
  fixture tools keep no protocol state or only compute constants.
- Faulty peers, except where the reaction to them is a guard that a conforming pair must
  never trigger (`NoFalseAlarm`, `WithinLimits`, `NeverFatal`, `NeverCutOff`, `InOrder`).

What would come next, in this order: positions across a suspension, on `Failover` and
`Resume`, with the theorem that resuming preserves the invariant of `Failover`; the close on
several pipes; sequencing of PRIORITY_UPDATE.
