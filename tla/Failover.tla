------------------------------ MODULE Failover ------------------------------
(***************************************************************************)
(* One direction of a multipath session: a sender spreads the chunks of a  *)
(* stream over pipes, each on a carrier of its own that delivers in order  *)
(* until it is cut, and keeps every chunk until a PIPE_ACK covers it.  The *)
(* model is the contract of the traces of tools/build_traces.py on pipe    *)
(* acknowledgement, failover and removal: positions and PIPE_ACK,          *)
(* suspicion, failure, fate groups, reinjection, graceful removal.         *)
(*                                                                         *)
(* Data.  A record holds one frame: chunk c in 1..N (STREAM), or Control,  *)
(* an ack-eliciting frame that is never reinjected (PIPE_JOIN, PIPE_PING). *)
(* A position counts records where the code counts their bytes; the cut of *)
(* a carrier inside a record is a cut before that record's end.            *)
(*                                                                         *)
(* Time.  A timer is an action that may happen.  The stall timer of a pipe *)
(* whose acknowledgement is still on its way (a pause of the peer or the   *)
(* network longer than T_suspect) may fire at most MaxSpurious times.      *)
(***************************************************************************)
EXTENDS Naturals, Sequences, FiniteSets

CONSTANTS Pipe,            \* pipe IDs, all of them pairs joined by the sender
          Boot,            \* the bootstrap pipe (pipe 0), ACTIVE from the start
          N,               \* number of chunks
          FateGroup,       \* fate group of each pipe, 0 for none
          Removable,       \* bound: pipes that either application may remove
          MaxSpurious,     \* bound: stalls that were only pauses
          MaxAcks          \* bound: PIPE_ACKs in transit on one pipe

ASSUME BootAssumption  == Boot \in Pipe
ASSUME NAssumption     == N \in Nat
ASSUME BoundAssumption == MaxSpurious \in Nat /\ MaxAcks \in Nat
ASSUME FateAssumption  == FateGroup \in [Pipe -> Nat]
ASSUME RemoveAssumption == Removable \subseteq Pipe

Chunk   == 1..N
Control == 0
Frame   == 0..N

VARIABLES
  \* the sender
  pst,       \* state of each outbound pipe (STATE_MACHINE 3.1)
  log,       \* the records handed to each pipe's carrier, in order
  acked,     \* acknowledged position of each pipe
  reinj,     \* information up to this position was already reinjected from the pipe
  next,      \* chunks 1..next have been sent for the first time
  lost,      \* reinjected chunks waiting for a pipe
  exch,      \* the peer's PIPE_ABANDON(NO_ERROR) has been received
  fatal,     \* the session was closed with PROTOCOL_VIOLATION
  spurious,  \* stalls so far that were only pauses
  \* the carriers
  cut,       \* the carrier delivers nothing more
  rev,       \* PIPE_ACK snapshots in transit to the sender on each pipe
  \* the receiver
  rst,       \* state of each inbound pipe (STATE_MACHINE 3.2)
  rpos,      \* position: complete records received and applied
  got,       \* chunks received
  read,      \* chunks 1..read have been read by the application
  owed,      \* a PIPE_ACK is due
  pab        \* PIPE_ABANDON the receiver has sent for each pipe

svars == <<pst, log, acked, reinj, next, lost, exch, fatal, spurious>>
cvars == <<cut, rev>>
rvars == <<rst, rpos, got, read, owed, pab>>
vars  == <<svars, cvars, rvars>>

OutState == {"NONE", "JOINING", "ACTIVE", "SUSPECT", "DRAINING", "CLOSED", "FAILED"}
InState  == {"NONE", "OPEN", "ENDED"}
Abandon  == {"none", "ok", "failed", "limit"}

\* One type invariant: the shape of every variable.
TypeOK ==
  /\ pst \in [Pipe -> OutState]
  /\ log \in [Pipe -> Seq(Frame)]
  /\ acked \in [Pipe -> Nat]
  /\ reinj \in [Pipe -> Nat]
  /\ next \in 0..N
  /\ lost \in SUBSET Chunk
  /\ exch \in [Pipe -> BOOLEAN]
  /\ fatal \in BOOLEAN
  /\ spurious \in Nat
  /\ cut \in [Pipe -> BOOLEAN]
  /\ rev \in [Pipe -> Seq([Pipe -> Nat])]
  /\ rst \in [Pipe -> InState]
  /\ rpos \in [Pipe -> Nat]
  /\ got \in SUBSET Chunk
  /\ read \in 0..N
  /\ owed \in BOOLEAN
  /\ pab \in [Pipe -> Abandon]

-----------------------------------------------------------------------------
(* What the sender knows.                                                  *)

LiveState == {"JOINING", "ACTIVE", "SUSPECT", "DRAINING"}
Live      == {p \in Pipe : pst[p] \in LiveState}
RLive     == {p \in Pipe : rst[p] = "OPEN"}

\* The session runs while both ends have a live pipe and no error was found.
\* Without resume, an end that loses its last pipe ends the session.
Running == Live # {} /\ RLive # {} /\ ~fatal

\* A pipe whose join was acknowledged, or that needed no join.
Confirmed(p) == p = Boot \/ acked[p] > 0

Outstanding(p) == acked[p] < Len(log[p])

\* Chunks covered by the positions pos of the pipes' logs.
Covered(pos) == {c \in Chunk : \E p \in Pipe : \E i \in 1..Len(log[p]) :
                                  i <= pos[p] /\ log[p][i] = c}
Acked == Covered(acked)

\* c was sent on p and is neither acknowledged nor already reinjected there.
Holds(p, c) == \E i \in 1..Len(log[p]) :
                  i > acked[p] /\ i > reinj[p] /\ log[p][i] = c

\* c was sent on p and is not acknowledged there.
Pending(p, c) == \E i \in 1..Len(log[p]) : i > acked[p] /\ log[p][i] = c

\* A JOINING pipe takes stream data only while no pipe is usable.
MayCarryData(p) ==
  \/ pst[p] = "ACTIVE"
  \/ pst[p] = "JOINING" /\ \A q \in Pipe : pst[q] # "ACTIVE"

\* Faulty variants, used to test the properties: the first unacknowledged record
\* of a pipe is left out; the mark that stops a second reinjection is forgotten.
ReinjectSkipsFirst(S) ==
  /\ lost' = lost \union {c \in Chunk \ Acked :
        \E p \in S : \E i \in 1..Len(log[p]) :
           i > acked[p] + 1 /\ i > reinj[p] /\ log[p][i] = c}
  /\ reinj' = [p \in Pipe |-> IF p \in S THEN Len(log[p]) ELSE reinj[p]]
ReinjectUnmarked(S) ==
  /\ lost' = lost \union {c \in Chunk \ Acked : \E p \in S : Holds(p, c)}
  /\ reinj' = reinj

\* Reinject the information of the pipes S beyond their acknowledged positions,
\* from each pipe at most once; what is already acknowledged is not re-sent.
Reinject(S) ==
  /\ lost' = lost \union {c \in Chunk \ Acked : \E p \in S : Holds(p, c)}
  /\ reinj' = [p \in Pipe |-> IF p \in S THEN Len(log[p]) ELSE reinj[p]]

\* Nothing can move the acknowledged position of p any more: its records have
\* arrived or are lost, and no acknowledgement is due or in transit.
Stalled(p) == /\ rpos[p] = Len(log[p]) \/ cut[p] \/ rst[p] = "ENDED"
              /\ ~owed
              /\ \A q \in Pipe : rev[q] = <<>>

Probe(S) == log' = [p \in Pipe |-> IF p \in S THEN Append(log[p], Control) ELSE log[p]]

-----------------------------------------------------------------------------
(* The sender.                                                             *)

Init ==
  /\ pst = [p \in Pipe |-> IF p = Boot THEN "ACTIVE" ELSE "NONE"]
  /\ log = [p \in Pipe |-> <<>>]
  /\ acked = [p \in Pipe |-> 0]
  /\ reinj = [p \in Pipe |-> 0]
  /\ next = 0
  /\ lost = {}
  /\ exch = [p \in Pipe |-> FALSE]
  /\ fatal = FALSE
  /\ spurious = 0
  /\ cut = [p \in Pipe |-> FALSE]
  /\ rev = [p \in Pipe |-> <<>>]
  /\ rst = [p \in Pipe |-> IF p = Boot THEN "OPEN" ELSE "NONE"]
  /\ rpos = [p \in Pipe |-> 0]
  /\ got = {}
  /\ read = 0
  /\ owed = FALSE
  /\ pab = [p \in Pipe |-> "none"]

\* The joiner opens a carrier; its first record is the PIPE_JOIN.
Join(p) ==
  /\ pst[p] = "NONE"
  /\ pst' = [pst EXCEPT ![p] = "JOINING"]
  /\ log' = [log EXCEPT ![p] = Append(@, Control)]
  /\ UNCHANGED <<acked, reinj, next, lost, exch, fatal, spurious, cvars, rvars>>

\* The scheduler puts the next chunk on a pipe; on a JOINING one only after
\* what waits for reinjection.
SendNew(p) ==
  /\ next < N
  /\ MayCarryData(p)
  /\ pst[p] = "JOINING" => lost = {}
  /\ next' = next + 1
  /\ log' = [log EXCEPT ![p] = Append(@, next + 1)]
  /\ UNCHANGED <<pst, acked, reinj, lost, exch, fatal, spurious, cvars, rvars>>

\* The scheduler re-sends a reinjected chunk on another pipe.
ReSend(c, p) ==
  /\ c \in lost
  /\ MayCarryData(p)
  /\ ~Pending(p, c)
  /\ lost' = lost \ {c}
  /\ log' = [log EXCEPT ![p] = Append(@, c)]
  /\ UNCHANGED <<pst, acked, reinj, next, exch, fatal, spurious, cvars, rvars>>

\* The stall of p reaches T_suspect: the pipe stops taking new data, its
\* information is reinjected and it is probed.
Suspect(p) ==
  /\ pst[p] \in {"JOINING", "ACTIVE"}
  /\ Outstanding(p)
  /\ IF Stalled(p) THEN spurious' = spurious
     ELSE spurious < MaxSpurious /\ spurious' = spurious + 1
  /\ pst' = [pst EXCEPT ![p] = "SUSPECT"]
  /\ Reinject({p})
  /\ Probe({p})
  /\ UNCHANGED <<acked, next, exch, fatal, cvars, rvars>>

\* The stall of a DRAINING pipe reaches T_suspect: it is only marked, and its
\* information is reinjected, once.
MarkDraining(p) ==
  /\ pst[p] = "DRAINING"
  /\ Outstanding(p)
  /\ reinj[p] < Len(log[p])
  /\ Reinject({p})
  /\ UNCHANGED <<pst, log, acked, next, exch, fatal, spurious, cvars, rvars>>

\* Faulty variant: the drain does not wait for the peer's PIPE_ABANDON.
DrainedAlone(p, a, e) == \A i \in 1..Len(log[p]) : i > a[p] => log[p][i] = Control

\* Drained(p, a, e): with acknowledged positions a and abandons e received, the
\* drain of p is complete.
Drained(p, a, e) ==
  /\ e[p]
  /\ \A i \in 1..Len(log[p]) : i > a[p] => log[p][i] = Control

\* Faulty variant: what is acknowledged late takes a removal back.
RevivedDraining(p) == pst[p] \in {"JOINING", "SUSPECT", "DRAINING"}

\* An acknowledged record confirms a JOINING pipe and revives a SUSPECT one.
Revived(p) == pst[p] \in {"JOINING", "SUSPECT"}

\* A PIPE_ACK arrives on the inbound direction of q.  A position that was never
\* sent closes the session; an older one is ignored.  An advance may also
\* complete a drain.
RecvAck(q) ==
  /\ pst[q] \notin {"NONE", "FAILED"}
  /\ rev[q] # <<>>
  /\ rev' = [rev EXCEPT ![q] = Tail(@)]
  /\ LET pos   == Head(rev[q])
         ahead == \E p \in Pipe : pos[p] > Len(log[p])
         new   == [p \in Pipe |-> IF ~ahead /\ pos[p] > acked[p] THEN pos[p] ELSE acked[p]]
     IN /\ fatal' = ahead
        /\ acked' = new
        /\ lost' = lost \ Covered(new)
        /\ pst' = [p \in Pipe |->
                     IF new[p] > acked[p] /\ Revived(p) THEN "ACTIVE"
                     ELSE IF pst[p] = "DRAINING" /\ Drained(p, new, exch) THEN "CLOSED"
                     ELSE pst[p]]
  /\ UNCHANGED <<log, reinj, next, exch, spurious, cut, rvars>>

\* The attachment p fails: its information is reinjected, its carrier closed
\* and the peer told (its state FAILED stands for that PIPE_ABANDON).  When
\* spread holds, the ACTIVE pipes of its fate group are suspected at once if
\* they have something unacknowledged, and all of them are probed.
Mates(p)     == {q \in Pipe \ {p} : /\ pst[q] = "ACTIVE"
                                    /\ FateGroup[q] # 0
                                    /\ FateGroup[q] = FateGroup[p]}
FailPipe(p, spread) ==
  LET mates == IF spread THEN Mates(p) ELSE {}
      sus   == {q \in mates : Outstanding(q)}
  IN /\ pst' = [q \in Pipe |-> IF q = p THEN "FAILED"
                                ELSE IF q \in sus THEN "SUSPECT" ELSE pst[q]]
     /\ Reinject({p} \union sus)
     /\ Probe(mates)
     /\ rev' = [rev EXCEPT ![p] = <<>>]
     /\ UNCHANGED <<acked, next, exch, fatal, spurious, cut, rvars>>

\* Faulty variant: a draining pipe takes its fate group with it.
CarrierErrorSpreads(p) == p \in Live /\ cut[p] /\ FailPipe(p, TRUE)

\* The carrier reports an error.  A pipe whose removal has started affects no
\* other attachment.
CarrierError(p) == /\ p \in Live
                   /\ cut[p]
                   /\ FailPipe(p, pst[p] # "DRAINING")

\* A join that is not confirmed within the handshake timeout.
JoinTimeout(p)  == /\ pst[p] \in {"JOINING", "SUSPECT"}
                   /\ ~Confirmed(p)
                   /\ FailPipe(p, TRUE)

\* T_fail, with another pipe ACTIVE.
StallFail(p)    == /\ pst[p] = "SUSPECT"
                   /\ Confirmed(p)
                   /\ \E q \in Pipe \ {p} : pst[q] = "ACTIVE"
                   /\ FailPipe(p, TRUE)

\* T_dead, for the last pipe.
DeadTimeout(p)  == /\ pst[p] = "SUSPECT"
                   /\ Confirmed(p)
                   /\ \A q \in Pipe \ {p} : pst[q] # "ACTIVE"
                   /\ FailPipe(p, TRUE)

\* The application removes the attachment abruptly.
RemoveAbrupt(p) == /\ p \in Live \intersect Removable
                   /\ FailPipe(p, pst[p] # "DRAINING")

\* Faulty variant: the deadline waits for another usable pipe, as T_fail does for
\* a suspect one.
DrainDeadlineWaits(p) == /\ pst[p] = "DRAINING"
                         /\ \E q \in Pipe \ {p} : pst[q] = "ACTIVE"
                         /\ FailPipe(p, FALSE)

\* The drain is not complete T_fail after the removal.
DrainDeadline(p) == /\ pst[p] = "DRAINING"
                    /\ FailPipe(p, FALSE)

\* The peer abandons the attachment with an error; ZMUX_PIPE_RESOURCE_LIMIT
\* says nothing about the path.
RecvAbandonError(p) == /\ p \in Live
                       /\ pab[p] \in {"failed", "limit"}
                       /\ FailPipe(p, pab[p] = "failed" /\ pst[p] # "DRAINING")

\* The application removes the attachment gracefully.
Remove(p) ==
  /\ p \in Removable
  /\ pst[p] \in {"JOINING", "ACTIVE", "SUSPECT"}
  /\ pst' = [pst EXCEPT ![p] = "DRAINING"]
  /\ UNCHANGED <<log, acked, reinj, next, lost, exch, fatal, spurious, cvars, rvars>>

\* The peer's PIPE_ABANDON(NO_ERROR): the pipe drains, and its drain completes
\* at once when nothing on it is unacknowledged.
RecvAbandon(p) ==
  /\ p \in Live
  /\ pab[p] = "ok"
  /\ ~exch[p]
  /\ exch' = [exch EXCEPT ![p] = TRUE]
  /\ pst' = [pst EXCEPT ![p] = IF Drained(p, acked, exch') THEN "CLOSED" ELSE "DRAINING"]
  /\ UNCHANGED <<log, acked, reinj, next, lost, fatal, spurious, cvars, rvars>>

-----------------------------------------------------------------------------
(* The carriers.                                                           *)

\* The carrier of p dies; what is in transit in either direction is lost.
Cut(p) ==
  /\ pst[p] # "NONE"
  /\ ~cut[p]
  /\ cut' = [cut EXCEPT ![p] = TRUE]
  /\ rev' = [rev EXCEPT ![p] = <<>>]
  /\ UNCHANGED <<svars, rvars>>

-----------------------------------------------------------------------------
(* The receiver.                                                           *)

\* A complete record arrives on p and is applied; only then does it count.
Apply(p) ==
  /\ ~cut[p]
  /\ rst[p] # "ENDED"
  /\ rpos[p] < Len(log[p])
  /\ rpos' = [rpos EXCEPT ![p] = @ + 1]
  /\ rst' = [rst EXCEPT ![p] = "OPEN"]
  /\ got' = got \union ({log[p][rpos[p] + 1]} \ {Control})
  /\ owed' = TRUE
  /\ UNCHANGED <<svars, cvars, read, pab>>

\* Faulty variant: the reader steps over a hole.
ReadOverHole ==
  /\ \E c \in got : c > read /\ read' = c
  /\ UNCHANGED <<svars, cvars, rst, rpos, got, owed, pab>>

\* The application reads the next chunk.
Read ==
  /\ read + 1 \in got
  /\ read' = read + 1
  /\ UNCHANGED <<svars, cvars, rst, rpos, got, owed, pab>>

\* A snapshot of every position goes out on one pipe and, when there is another
\* one, as a copy on a second.
AckPipes == {Q \in SUBSET RLive : Cardinality(Q) = IF Cardinality(RLive) > 1 THEN 2 ELSE 1}
\* Faulty variant: a snapshot counts the record that is still arriving.
SendAckAhead(Q) ==
  /\ owed
  /\ \A q \in Q : Len(rev[q]) < MaxAcks
  /\ owed' = FALSE
  /\ rev' = [q \in Pipe |-> IF q \in Q /\ ~cut[q] /\ pst[q] # "FAILED"
                             THEN Append(rev[q], [p \in Pipe |-> rpos[p] + 1]) ELSE rev[q]]
  /\ UNCHANGED <<svars, cut, rst, rpos, got, read, pab>>

SendAck(Q) ==
  /\ owed
  /\ \A q \in Q : Len(rev[q]) < MaxAcks
  /\ owed' = FALSE
  /\ rev' = [q \in Pipe |-> IF q \in Q /\ ~cut[q] /\ pst[q] # "FAILED"
                             THEN Append(rev[q], rpos) ELSE rev[q]]
  /\ UNCHANGED <<svars, cut, rst, rpos, got, read, pab>>

\* The inbound direction ends.  After the sender's drain this is expected, once
\* every record has arrived; in any other case the attachment has failed.  The
\* incomplete record is not counted, and the final position is acknowledged.
EndInbound(p) ==
  /\ rst[p] = "OPEN"
  /\ \/ cut[p]
     \/ pst[p] = "FAILED"
     \/ pst[p] = "CLOSED" /\ rpos[p] = Len(log[p])
  /\ rst' = [rst EXCEPT ![p] = "ENDED"]
  /\ pab' = [pab EXCEPT ![p] = IF @ = "none" THEN "failed" ELSE @]
  /\ owed' = TRUE
  /\ UNCHANGED <<svars, cvars, rpos, got, read>>

\* The receiver removes the attachment gracefully, or answers the sender's
\* PIPE_ABANDON(NO_ERROR).
SendAbandon(p) ==
  /\ rst[p] = "OPEN"
  /\ p \in Removable \/ pst[p] = "DRAINING"
  /\ pab[p] = "none"
  /\ pab' = [pab EXCEPT ![p] = "ok"]
  /\ UNCHANGED <<svars, cvars, rst, rpos, got, read, owed>>

\* A PIPE_ABANDON that overtakes the join is answered, and the join is then a
\* replay, whose carrier is rejected.
AnswerUnseen(p) ==
  /\ rst[p] = "NONE"
  /\ pst[p] = "DRAINING"
  /\ rst' = [rst EXCEPT ![p] = "ENDED"]
  /\ pab' = [pab EXCEPT ![p] = "ok"]
  /\ cut' = [cut EXCEPT ![p] = TRUE]
  /\ UNCHANGED <<svars, rev, rpos, got, read, owed>>

\* The receiver removes the attachment abruptly, for a failure or a limit.
AbandonError(p, code) ==
  /\ p \in Removable
  /\ rst[p] = "OPEN"
  /\ pab[p] = "none"
  /\ rst' = [rst EXCEPT ![p] = "ENDED"]
  /\ pab' = [pab EXCEPT ![p] = code]
  /\ cut' = [cut EXCEPT ![p] = TRUE]
  /\ rev' = [rev EXCEPT ![p] = <<>>]
  /\ owed' = TRUE
  /\ UNCHANGED <<svars, rpos, got, read>>

-----------------------------------------------------------------------------
SenderStep(p) ==
  \/ Join(p) \/ SendNew(p) \/ (\E c \in Chunk : ReSend(c, p))
  \/ Suspect(p) \/ MarkDraining(p) \/ RecvAck(p)
  \/ CarrierError(p) \/ JoinTimeout(p) \/ StallFail(p) \/ DeadTimeout(p)
  \/ RemoveAbrupt(p) \/ DrainDeadline(p) \/ RecvAbandonError(p)
  \/ Remove(p) \/ RecvAbandon(p)

ReceiverStep(p) ==
  \/ Apply(p) \/ EndInbound(p) \/ SendAbandon(p) \/ AnswerUnseen(p)
  \/ AbandonError(p, "failed") \/ AbandonError(p, "limit")

\* The session is over, or everything was delivered and released and no pipe is
\* left: nothing more is modelled.
Over == ~Running /\ UNCHANGED vars

Next ==
  \/ Running /\ \/ \E p \in Pipe : SenderStep(p) \/ Cut(p) \/ ReceiverStep(p)
                \/ \E Q \in AckPipes : SendAck(Q)
                \/ Read
  \/ Over

Spec == Init /\ [][Next]_vars

\* Fairness: a live carrier delivers, both endpoints process what they have
\* received and write what they owe, and every timer whose condition lasts
\* expires.  Nothing forces a join, a removal, a cut or a pause.
Prompt(p) ==
  \/ SendNew(p) \/ \E c \in Chunk : ReSend(c, p)

Fairness ==
  /\ WF_vars(Running /\ Read)
  /\ WF_vars(Running /\ \E Q \in AckPipes : SendAck(Q))
  /\ WF_vars(Running /\ \E p \in Pipe : Prompt(p))
  /\ \A p \in Pipe :
       /\ WF_vars(Running /\ RecvAck(p))
       /\ WF_vars(Running /\ Apply(p))
       /\ WF_vars(Running /\ EndInbound(p))
       /\ WF_vars(Running /\ CarrierError(p))
       /\ WF_vars(Running /\ Stalled(p) /\ Suspect(p))
       /\ WF_vars(Running /\ (StallFail(p) \/ DeadTimeout(p) \/ JoinTimeout(p)))
       /\ WF_vars(Running /\ DrainDeadline(p))
       /\ WF_vars(Running /\ (RecvAbandon(p) \/ RecvAbandonError(p)))

FairSpec == Spec /\ Fairness

-----------------------------------------------------------------------------
(* Properties.                                                             *)

\* No chunk is ever lost by the failure of pipes: a chunk that was sent is
\* acknowledged, waits for reinjection, or is on a live pipe that will still
\* reinject it (multipath.failover.carrier_error_reinjects).
NoChunkLost ==
  \A c \in 1..next : \/ c \in Acked
                      \/ c \in lost
                      \/ \E p \in Live : Holds(p, c)

\* A chunk is re-sent from a pipe at most once, and only after that pipe was
\* suspected or failed: apart from copies that were reinjected, a chunk is on
\* one pipe or in the queue, never in two places
\* (no_reinjection_while_acknowledged, drain_deadline_fails_pipe).
Fresh(p, i, c) == i \in 1..Len(log[p]) /\ i > reinj[p] /\ log[p][i] = c
OneOwner ==
  \A c \in Chunk, p \in Pipe : \A i \in 1..Len(log[p]) : Fresh(p, i, c) =>
    /\ c \notin lost
    /\ \A q \in Pipe : \A j \in 1..Len(log[q]) : Fresh(q, j, c) => q = p /\ j = i

\* The sender releases a chunk only when the receiver has it, whatever snapshots
\* were reordered, duplicated or lost with their pipes.
AckedIsReceived == Acked \subseteq got

\* Two conforming endpoints never accuse each other: no acknowledgement is ahead
\* of what was sent (ack.ahead_of_sent is fatal).
NoFalseAlarm == ~fatal

\* The peer of a graceful removal knows that the end of stream is coming before
\* it sees it, so it never takes the end for a failure.
EndIsExpected == \A p \in Pipe : pst[p] = "CLOSED" => pab[p] # "none"

\* A removal is final and concerns its own pipe only.  A pipe that is draining or
\* ended takes no stream data any more and never becomes ACTIVE or SUSPECT again,
\* whatever is acknowledged later (remove.draining_never_returns_active); when it
\* fails while it drains, nothing is suspected and nothing reinjected on the others
\* (failover.fate_group_drain_exempt).
RemovalStands ==
  [][\A p \in Pipe :
       /\ pst[p] \in {"DRAINING", "CLOSED", "FAILED"} =>
            /\ pst'[p] \in {"DRAINING", "CLOSED", "FAILED"}
            /\ log'[p] = log[p]
       /\ pst[p] = "DRAINING" /\ pst'[p] = "FAILED" =>
            \A q \in Pipe \ {p} : pst'[q] = pst[q] /\ reinj'[q] = reinj[q]]_vars

\* Whatever fails, as long as the session lives every chunk is delivered and the
\* sender learns it.
Completes == <>(~Running \/ (read = N /\ Acked = Chunk))

\* No pipe stays suspect or draining for ever.
Settles == \A p \in Pipe :
  pst[p] \in {"SUSPECT", "DRAINING"} ~> (~Running \/ pst[p] \in {"ACTIVE", "CLOSED", "FAILED"})

\* The pipes together are a reliable, ordered, exactly-once delivery whose sender
\* forgets a chunk only after it arrived.
Abstract == INSTANCE Delivery WITH sent <- next, arrived <- got,
                                   released <- Acked, read <- read
ImplementsDelivery == Abstract!Spec

-----------------------------------------------------------------------------
(* The inductive invariant behind the properties.                          *)

\* Acknowledged <= applied <= sent, and nothing is reinjected before it is sent.
PositionsOrdered ==
  \A p \in Pipe : /\ acked[p] <= rpos[p]
                  /\ rpos[p] <= Len(log[p])
                  /\ reinj[p] <= Len(log[p])

\* A snapshot in transit never runs ahead of the receiver.
SnapshotsBehind ==
  \A q \in Pipe : \A i \in 1..Len(rev[q]) : \A p \in Pipe : rev[q][i][p] <= rpos[p]

\* Counting a record and applying it are one step.
CountedIsApplied ==
  \A p \in Pipe : \A i \in 1..rpos[p] : log[p][i] # Control => log[p][i] \in got

\* Only chunks that were sent are anywhere in the system.
OnlySent ==
  /\ \A p \in Pipe : \A i \in 1..Len(log[p]) : log[p][i] <= next
  /\ lost \subseteq 1..next
  /\ got \subseteq 1..next
  /\ read <= next

IInv == /\ TypeOK
        /\ PositionsOrdered
        /\ SnapshotsBehind
        /\ CountedIsApplied
        /\ OnlySent
        /\ NoFalseAlarm
        /\ NoChunkLost
        /\ OneOwner
=============================================================================
