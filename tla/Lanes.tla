------------------------------- MODULE Lanes --------------------------------
(***************************************************************************)
(* One direction of the pipe of a session without multipath, over lanes:    *)
(* further streams of the carrier connection, each a record stream of its   *)
(* own (the core.lanes traces of tools/build_traces.py).  The sender opens  *)
(* lanes and decides what goes where, the receiver reads every lane for     *)
(* itself, and the PIPE_ACKs of the other direction, which has one lane,    *)
(* tell the sender how far.                                                *)
(*                                                                         *)
(* There is no order between lanes: a carrier hands over the records of     *)
(* each when it likes.  It may fail a lane, an end may reset one, and the   *)
(* other sees that later, whatever it still reads before.                   *)
(***************************************************************************)
EXTENDS Integers, Sequences, FiniteSets

CONSTANTS
  MaxLanes,   \* Max Lanes that the receiver announced
  Stream,     \* streams the sender writes
  MaxUnits    \* bound: pieces of data of each stream

ASSUME LanesAssumption == MaxLanes \in Nat \ {0} /\ MaxUnits \in Nat

Lane  == 0..(MaxLanes - 1)
Extra == Lane \ {0}

\* A record holds the PIPE_LANE that opens its lane, the next piece of a stream, or the
\* CONNECTION_CLOSE.
PIPE_LANE == [type |-> "PIPE_LANE"]
CLOSE     == [type |-> "CONNECTION_CLOSE"]
STREAM(s, n) == [type |-> "STREAM", id |-> s, piece |-> n]
Record == {PIPE_LANE, CLOSE} \union {STREAM(s, n) : s \in Stream, n \in 1..MaxUnits}

VARIABLES
  \* the sender
  lane,      \* lane[l]: "none", "opened" and not confirmed, "confirmed", "refused"
  written,   \* written[l]: the records written on it
  acked,     \* acked[l]: how many of them PIPE_ACKs cover
  home,      \* home[s]: the lane of the data of s
  sent,      \* sent[s]: pieces of s written
  closing,   \* the application's close: "no", "wanted", "sent", "lingered" (sent without
             \* waiting any longer)
  sview,     \* its session: "open", "closed", "lost"
  \* the receiver
  read,      \* read[l]: how many records of the lane it has read
  got,       \* got[s]: pieces of s received
  ended,     \* lanes that have ended for it, gracefully or rejected
  rview,     \* its session: "open", "closed", "lost", "violation"
  \* the carrier
  ack,       \* the positions in the last PIPE_ACK sent
  failed,    \* lanes cut off by a fault, by a reset or as refused
  broken     \* lanes cut off by a fault

svars == <<lane, written, acked, home, sent, closing, sview>>
rvars == <<read, got, ended, rview>>
cvars == <<ack, failed, broken>>
vars  == <<svars, rvars, cvars>>

\* One type invariant: the shape of every variable, and positions in their order.
TypeOK ==
  /\ lane \in [Lane -> {"none", "opened", "confirmed", "refused"}]
  /\ written \in [Lane -> Seq(Record)]
  /\ acked \in [Lane -> Nat] /\ ack \in [Lane -> Nat] /\ read \in [Lane -> Nat]
  /\ \A l \in Lane : /\ acked[l] <= ack[l] /\ ack[l] <= read[l]
                     /\ read[l] <= Len(written[l])
  /\ home \in [Stream -> Lane]
  /\ sent \in [Stream -> 0..MaxUnits] /\ got \in [Stream -> 0..MaxUnits]
  /\ closing \in {"no", "wanted", "sent", "lingered"}
  /\ sview \in {"open", "closed", "lost"}
  /\ rview \in {"open", "closed", "lost", "violation"}
  /\ ended \subseteq Lane /\ failed \subseteq Lane /\ broken \subseteq failed

Init ==
  /\ lane = [l \in Lane |-> IF l = 0 THEN "confirmed" ELSE "none"]
  /\ written = [l \in Lane |-> <<>>]
  /\ acked = [l \in Lane |-> 0] /\ read = acked /\ ack = acked
  /\ home = [s \in Stream |-> 0]
  /\ sent = [s \in Stream |-> 0] /\ got = sent
  /\ closing = "no" /\ sview = "open" /\ rview = "open"
  /\ ended = {} /\ failed = {} /\ broken = {}

-----------------------------------------------------------------------------
(* The sender.                                                             *)

\* Faulty variant: a stream moves as soon as the lane is confirmed.
MayCarryConfirmed(s, l) == lane[l] = "confirmed"

\* The data of s may go on l: on its lane, or on a confirmed one once a PIPE_ACK covers
\* all of it on the other.
MayCarry(s, l) ==
  /\ lane[l] = "confirmed"
  /\ \/ l = home[s]
     \/ \A i \in (acked[home[s]] + 1)..Len(written[home[s]]) :
          \A n \in 1..MaxUnits : written[home[s]][i] # STREAM(s, n)

Write(s, l) ==
  /\ sview = "open" /\ closing = "no"
  /\ sent[s] < MaxUnits
  /\ MayCarry(s, l)
  /\ sent' = [sent EXCEPT ![s] = @ + 1]
  /\ written' = [written EXCEPT ![l] = Append(@, STREAM(s, sent[s] + 1))]
  /\ home' = [home EXCEPT ![s] = l]
  /\ UNCHANGED <<lane, acked, closing, sview, rvars, cvars>>

\* A lane is opened once lane 0 has an acknowledged position, in the order of the numbers,
\* one at a time, and none after one was refused.
OpenLane(l) ==
  /\ sview = "open" /\ closing = "no"
  /\ acked[0] > 0
  /\ lane[l] = "none" /\ \A k \in 0..(l - 1) : lane[k] = "confirmed"
  /\ lane' = [lane EXCEPT ![l] = "opened"]
  /\ written' = [written EXCEPT ![l] = <<PIPE_LANE>>]
  /\ UNCHANGED <<acked, home, sent, closing, sview, rvars, cvars>>

\* A PIPE_ACK arrives: the first position on a lane confirms it; those of a refused lane
\* are ignored.
RecvAck ==
  /\ sview = "open" /\ ack # acked
  /\ acked' = [l \in Lane |-> IF lane[l] = "refused" THEN acked[l] ELSE ack[l]]
  /\ lane' = [l \in Lane |-> IF lane[l] = "opened" /\ ack[l] > 0 THEN "confirmed" ELSE lane[l]]
  /\ <<acked', lane'>> # <<acked, lane>>
  /\ UNCHANGED <<written, home, sent, closing, sview, rvars, cvars>>

\* A lane that is cut off before it is confirmed is refused: no event of the pipe.
Refused(l) ==
  /\ sview = "open" /\ lane[l] = "opened" /\ l \in failed
  /\ lane' = [lane EXCEPT ![l] = "refused"]
  /\ UNCHANGED <<written, acked, home, sent, closing, sview, rvars, cvars>>

\* So is one that is not confirmed within the handshake timeout; the sender resets it.
Unconfirmed(l) ==
  /\ sview = "open" /\ lane[l] = "opened" /\ l \notin failed
  /\ lane' = [lane EXCEPT ![l] = "refused"]
  /\ failed' = failed \union {l}
  /\ UNCHANGED <<written, acked, home, sent, closing, sview, rvars, ack, broken>>

\* The end of a confirmed lane is the end of the pipe, and of the session.
LaneFails(l) ==
  /\ sview = "open" /\ lane[l] = "confirmed" /\ l \in failed
  /\ sview' = "lost"
  /\ failed' = Lane
  /\ UNCHANGED <<lane, written, acked, home, sent, closing, rvars, ack, broken>>

Close ==
  /\ sview = "open" /\ closing = "no"
  /\ closing' = "wanted"
  /\ UNCHANGED <<lane, written, acked, home, sent, sview, rvars, cvars>>

\* The CONNECTION_CLOSE goes on lane 0, and every lane ends gracefully behind what was
\* written on it.
EndWith(how) ==
  /\ sview = "open" /\ closing = "wanted"
  /\ closing' = how
  /\ written' = [written EXCEPT ![0] = Append(@, CLOSE)]
  /\ sview' = "closed"
  /\ UNCHANGED <<lane, acked, home, sent, rvars, cvars>>

\* Faulty variant: the close does not wait for the other lanes.
SendCloseAtOnce == EndWith("sent")

\* The close waits until PIPE_ACKs cover every record on the other lanes,
SendClose ==
  /\ \A l \in Extra : lane[l] # "refused" => acked[l] = Len(written[l])
  /\ EndWith("sent")

\* or until the linger timeout.
Linger == EndWith("lingered")

-----------------------------------------------------------------------------
(* The receiver.                                                           *)

\* The next record of a lane.  The data of a stream comes in its order.
Read(l) ==
  LET record == written[l][read[l] + 1] IN
  /\ rview = "open" /\ read[l] < Len(written[l]) /\ l \notin ended
  /\ read' = [read EXCEPT ![l] = @ + 1]
  /\ \/ /\ record.type = "PIPE_LANE"
        /\ UNCHANGED <<got, rview>>
     \/ /\ record.type = "STREAM" /\ record.piece = got[record.id] + 1
        /\ got' = [got EXCEPT ![record.id] = @ + 1]
        /\ UNCHANGED rview
     \/ /\ record.type = "STREAM" /\ record.piece # got[record.id] + 1
        /\ rview' = "violation"
        /\ UNCHANGED got
     \/ /\ record.type = "CONNECTION_CLOSE"
        /\ rview' = "closed"
        /\ UNCHANGED got
  /\ UNCHANGED <<svars, ended, cvars>>

\* A PIPE_ACK lists every lane that was read.
SendAck ==
  /\ rview = "open" /\ read # ack
  /\ ack' = read
  /\ UNCHANGED <<svars, rvars, failed, broken>>

\* A new lane whose key or connection is not the pipe's is closed; nothing else happens.
RejectLane(l) ==
  /\ rview = "open" /\ written[l] # <<>> /\ read[l] = 0 /\ l \in Extra \ failed
  /\ ended' = ended \union {l}
  /\ failed' = failed \union {l}
  /\ UNCHANGED <<svars, read, got, rview, ack, broken>>

\* Lanes that are of the pipe: those on which a record came after the first.
InUse(l) == l = 0 \/ read[l] > 1

\* Faulty variant: an error on a lane that is not in use counts, too.
LaneErrorUnused(l) ==
  /\ rview = "open" /\ l \in failed
  /\ rview' = "lost"
  /\ failed' = Lane
  /\ UNCHANGED <<svars, read, got, ended, ack, broken>>

\* An error on a lane fails the pipe, and ends the session, only if it is in use.
LaneError(l) ==
  /\ rview = "open" /\ l \in failed /\ InUse(l)
  /\ rview' = "lost"
  /\ failed' = Lane
  /\ UNCHANGED <<svars, read, got, ended, ack, broken>>

\* A lane ends gracefully behind its last record.  The pipe ends when all of them have, in
\* any order; without a CONNECTION_CLOSE its end is a failure.
LaneEnds(l) ==
  /\ rview = "open" /\ sview = "closed" /\ l \notin failed \union ended
  /\ read[l] = Len(written[l]) /\ (l = 0 \/ read[l] > 0)
  /\ ended' = ended \union {l}
  /\ rview' = IF \A k \in Lane : InUse(k) => k \in ended' THEN "lost" ELSE rview
  /\ UNCHANGED <<svars, read, got, cvars>>

-----------------------------------------------------------------------------
\* One fault of the carrier: it fails a lane.
Fault(l) ==
  /\ broken = {} /\ l \notin failed /\ (l = 0 \/ written[l] # <<>>)
  /\ failed' = failed \union {l} /\ broken' = {l}
  /\ UNCHANGED <<svars, rvars, ack>>

Next ==
  \/ RecvAck \/ Close \/ SendClose \/ Linger \/ SendAck
  \/ \E l \in Lane :
       \/ \E s \in Stream : Write(s, l)
       \/ Refused(l) \/ Unconfirmed(l) \/ LaneFails(l)
       \/ Read(l) \/ RejectLane(l) \/ LaneError(l) \/ LaneEnds(l) \/ Fault(l)
  \/ \E l \in Extra : OpenLane(l)

Spec == Init /\ [][Next]_vars

-----------------------------------------------------------------------------
(* Properties.                                                             *)

\* Whatever lanes its data takes, a stream arrives in order: no conforming sender is
\* closed for a gap, which without multipath is a violation (local_opens_after_ack,
\* local_lane_refused, late_ack_after_refusal).
InOrder == rview # "violation"

\* A close that did not give up waiting comes behind all data of every lane, so that the
\* receiver has read it all (close_waits_for_lane_ack).
CloseComesLast == (rview = "closed" /\ closing = "sent") => got = sent

\* The session is lost only when the carrier fails lane 0 or a confirmed lane: no lane
\* that is refused, not confirmed in time, unused, or ends before another, costs the
\* session anything (local_lane_refused, peer_lane_ends_unused, graceful_end_every_lane).
LostByFaultOnly ==
  "lost" \in {sview, rview} => \E l \in broken : lane[l] = "confirmed"

-----------------------------------------------------------------------------
(* What Delivery promises, the lanes keep for each stream: a piece arrives    *)
(* when its record is read, and the sender has no more use for it once a      *)
(* PIPE_ACK covers the record.  What the application reads is left out.        *)

Covered(s) == {n \in 1..MaxUnits :
                 \E l \in Lane : \E i \in 1..acked[l] : written[l][i] = STREAM(s, n)}

Promise(s) == INSTANCE Delivery WITH
  N <- MaxUnits, sent <- sent[s], arrived <- 1..got[s], released <- Covered(s), read <- 0
=============================================================================
