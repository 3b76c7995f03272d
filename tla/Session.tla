------------------------------ MODULE Session -------------------------------
(***************************************************************************)
(* A session of two endpoints on one carrier, from its first record to its  *)
(* end: parameters and early data, QX_PING and the budget, keep-alive, idle *)
(* timeout, close and lingering (the traces core.handshake, core.robustness,*)
(* core.close and core.pipe_ack of tools/build_traces.py).                  *)
(*                                                                         *)
(* Time passes in ticks.  A timer that is due fires before the next Tick,   *)
(* but after whatever arrives in the same instant, if that comes first.  A  *)
(* carrier that is up delivers within Delay ticks; a stalled one delivers   *)
(* nothing more and reports nothing; a cut one reports an error.            *)
(***************************************************************************)
EXTENDS Handshake, Sequences, FiniteSetsExt, SequencesExt

CONSTANTS
  Configs,           \* pairs of configurations: the dialler's and the listener's
  Delay,             \* ticks a frame may be under way
  HandshakeTimeout,  \* ticks
  Linger,            \* ticks
  Budget,            \* tokens for frames without effect
  Refill,            \* tokens that come back with each tick
  MaxData,           \* bound on the STREAM frames of an end after the handshake
  MaxPings           \* bound on the QX_PING requests that are not yet settled

Kinds == {"none", "auto", "initiator", "responder"}

ASSUME ConfigAssumption == \A c \in Configs : \A i \in {1, 2} :
                             c[i].role \in [kind : Kinds, nonce : Nat]
ASSUME BoundAssumption  == /\ Delay \in Nat /\ Budget \in Nat /\ Refill \in Nat
                           /\ MaxData \in Nat /\ MaxPings \in Nat \ {0}

\* A carrier that is up is faster than the timers: a frame arrives before the handshake
\* times out and before lingering ends, and two round trips fit into an idle timeout.
ASSUME TimeAssumption ==
  /\ HandshakeTimeout \in Nat /\ Delay < HandshakeTimeout
  /\ Linger \in Nat /\ Delay < Linger
  /\ \A c \in Configs : \A i \in {1, 2} :
       /\ c[i].keepAlive \in Nat
       /\ c[i].idle \in Nat /\ (c[i].idle = 0 \/ c[i].idle > 4 * Delay)

End == {"D", "L"}
Peer(e) == IF e = "D" THEN "L" ELSE "D"
Transport(e) == IF e = "D" THEN "initiator" ELSE "responder"

VARIABLES
  cfg,       \* configuration of each end; also idle and keepAlive, 0 if none, and
             \* app, what its application does of "data", "ping" and "close"
  s,         \* state of each end, as New below
  chan,      \* frames an end sent that its peer has not read
  carrier    \* "up", "stalled", "cut", or "gone": closed by an end

vars == <<cfg, s, chan, carrier>>

None == <<"none", "none">>

New ==
  [st |-> "new",        \* then "start", "open", "closing", "closed"
   report |-> None,     \* the error reported to the application, and whose it is
   role |-> "none",
   early |-> FALSE,     \* sent early data
   took |-> FALSE,      \* processed early data of the peer
   timer |-> 0,         \* ticks: of the handshake, without activity, of lingering
   kept |-> FALSE,      \* sent a keep-alive since the last activity
   data |-> 0,          \* STREAM frames sent
   ackDue |-> FALSE,    \* owes a PIPE_ACK
   req |-> 0,           \* last QX_PING request sent
   waits |-> FALSE,     \* that request is outstanding
   ans |-> 0,           \* largest response received
   top |-> 0,           \* largest request received
   owed |-> 0,          \* request to answer, 0 if none
   tokens |-> Budget]

Timeouts == {cfg[e].idle : e \in End} \ {0}
FrameKinds == {"TP", "FENCE", "EARLY", "DATA", "PING", "PONG", "ACK", "CLOSE", "EOF"}

Codes == {"", "none", "NO_ERROR", "APPLICATION", "PIPES_LOST", "IDLE_TIMEOUT", "ZMUX_IDLE_TIMEOUT",
          "HANDSHAKE_TIMEOUT", "EARLY_DATA_REJECTED", "ZMUX_ROLE_CONFLICT",
          "TRANSPORT_PARAMETER_ERROR", "FRAME_ENCODING_ERROR", "STREAM_LIMIT_ERROR",
          "PROTOCOL_VIOLATION", "ZMUX_EXCESSIVE_LOAD"}

Endpoint ==
  [st : {"new", "start", "open", "closing", "closed"},
   report : Codes \X {"none", "local", "remote"},
   role : {"none", "initiator", "responder"},
   early : BOOLEAN, took : BOOLEAN, timer : Nat, kept : BOOLEAN, data : 0..MaxData,
   ackDue : BOOLEAN, req : 0..MaxPings, waits : BOOLEAN, ans : 0..MaxPings,
   top : 0..MaxPings, owed : 0..MaxPings, tokens : 0..Budget]

Message == [k : FrameKinds, n : 0..MaxPings, code : Codes, left : 0..Delay]

\* One type invariant: the shape of every variable.
TypeOK ==
  /\ cfg \in [End -> UNION {{c[1], c[2]} : c \in Configs}]
  /\ s \in [End -> Endpoint]
  /\ chan \in [End -> Seq(Message)]
  /\ carrier \in {"up", "stalled", "cut", "gone"}

Init ==
  /\ \E c \in Configs : cfg = [e \in End |-> IF e = "D" THEN c[1] ELSE c[2]]
  /\ s = [e \in End |-> New]
  /\ chan = [e \in End |-> <<>>]
  /\ carrier = "up"

-----------------------------------------------------------------------------
(* Frames and steps.                                                       *)

Frame(k, n)   == [k |-> k, n |-> n, code |-> "", left |-> Delay]
Signal(k)     == Frame(k, 0)
Close(code)   == [Signal("CLOSE") EXCEPT !.code = code]
EOF           == Signal("EOF")

\* Faulty variant: the fence follows the data it is to protect.
OpeningFenceLast(early) ==
  IF early THEN <<Signal("TP"), Signal("EARLY"), Signal("FENCE")>> ELSE <<Signal("TP")>>

\* The first record: parameters, and early data behind a PIPE_ACK that only a peer
\* with acknowledgement can decode.
Opening(early) ==
  IF early THEN <<Signal("TP"), Signal("FENCE"), Signal("EARLY")>> ELSE <<Signal("TP")>>

\* Writing to a carrier that is not up goes nowhere.
Sent(e, frames) == IF carrier = "up" THEN chan[e] \o frames ELSE chan[e]

\* End e moves to state new and sends frames, of itself or on reading the next frame.
Do(e, new, frames) ==
  /\ s' = [s EXCEPT ![e] = new]
  /\ chan' = [chan EXCEPT ![e] = Sent(e, frames)]
  /\ UNCHANGED <<cfg, carrier>>

On(e, k) == chan[Peer(e)] # <<>> /\ Head(chan[Peer(e)]).k = k
Got(e)   == Head(chan[Peer(e)])

Reads(e, new, frames) ==
  /\ s' = [s EXCEPT ![e] = new]
  /\ chan' = [chan EXCEPT ![e] = Sent(e, frames), ![Peer(e)] = Tail(@)]
  /\ UNCHANGED <<cfg, carrier>>

Acks == AckInUse(cfg["D"], cfg["L"])

\* The session is over for x, which reports why; it lingers.  Nothing else matters.
Over(x, code, whose) ==
  [New EXCEPT !.st = "closing", !.report = <<code, whose>>, !.role = x.role,
              !.early = x.early, !.took = x.took]

Fail(e, code) == Reads(e, Over(s[e], code, "local"), <<Close(Wire(code)), EOF>>)

\* The idle timer starts again, and with it the wait for the next keep-alive.
Active(x) == [x EXCEPT !.timer = 0, !.kept = FALSE]

\* A frame of application activity arrived: with acknowledgement it is owed one.
Heard(x) == [Active(x) EXCEPT !.ackDue = Acks]

\* Passing a record to the carrier is activity only without acknowledgement.
Passed(x) == IF Acks THEN x ELSE Active(x)

-----------------------------------------------------------------------------
(* The handshake.                                                          *)

Start(e) ==
  /\ s[e].st = "new"
  /\ \E early \in {FALSE, MayBeEarly(cfg[e], Transport(e))} :
       Do(e, [s[e] EXCEPT !.st = "start", !.early = early], Opening(early))

RecvParameters(e) ==
  /\ s[e].st = "start" /\ On(e, "TP")
  /\ LET own == cfg[e]
         peer == cfg[Peer(e)]
         bad == Objections(own, peer, Transport(e), s[e].early)
     IN  \/ /\ bad = {}
            /\ Reads(e, [s[e] EXCEPT !.st = "open", !.timer = 0,
                                     !.role = Resolve(own.role, peer.role, Transport(e))], <<>>)
         \/ \E code \in bad : Fail(e, code)

\* Only an endpoint with acknowledgement knows where the fence ends.
RecvFence(e) ==
  /\ s[e].st = "open" /\ On(e, "FENCE")
  /\ IF Acks THEN Reads(e, s[e], <<>>) ELSE Fail(e, "FRAME_ENCODING_ERROR")

RecvEarly(e) ==
  /\ s[e].st = "open" /\ On(e, "EARLY")
  /\ IF cfg[e].room = "none" THEN Fail(e, "STREAM_LIMIT_ERROR")
                             ELSE Reads(e, [Heard(s[e]) EXCEPT !.took = TRUE], <<>>)

\* Establishment is abandoned without a frame.
HandshakeTimesOut(e) ==
  /\ s[e].st = "start" /\ s[e].timer >= HandshakeTimeout
  /\ s' = [s EXCEPT ![e] = [Over(@, "HANDSHAKE_TIMEOUT", "local") EXCEPT !.st = "closed"]]
  /\ carrier' = IF carrier = "up" THEN "gone" ELSE carrier
  /\ UNCHANGED <<cfg, chan>>

-----------------------------------------------------------------------------
(* The open session.                                                       *)

SendData(e) ==
  /\ s[e].st = "open" /\ "data" \in cfg[e].app /\ s[e].data < MaxData
  /\ Do(e, [Passed(s[e]) EXCEPT !.data = @ + 1], <<Signal("DATA")>>)

RecvData(e) ==
  /\ s[e].st = "open" /\ On(e, "DATA")
  /\ Reads(e, Heard(s[e]), <<>>)

SendAck(e) ==
  /\ s[e].st = "open" /\ s[e].ackDue
  /\ Do(e, [s[e] EXCEPT !.ackDue = FALSE], <<Signal("ACK")>>)

\* It newly acknowledges a record with activity.
RecvAck(e) ==
  /\ s[e].st = "open" /\ On(e, "ACK")
  /\ Reads(e, Active(s[e]), <<>>)

\* A record that only asks is no activity.
Asks(x) == [x EXCEPT !.req = @ + 1, !.waits = TRUE]

\* Faulty variant: every request of the application is sent.
PingAgain(e) ==
  /\ s[e].st = "open" /\ "ping" \in cfg[e].app /\ s[e].req < MaxPings
  /\ Do(e, Asks(s[e]), <<Frame("PING", s[e].req + 1)>>)

\* The application pings; while a request is outstanding it joins that one.
Ping(e) ==
  /\ s[e].st = "open" /\ "ping" \in cfg[e].app /\ ~s[e].waits /\ s[e].req < MaxPings
  /\ Do(e, Asks(s[e]), <<Frame("PING", s[e].req + 1)>>)

\* Unanswered for max(1 s, 3 SRTT) a request is no longer outstanding; a peer that the
\* carrier reaches answers sooner.
GiveUp(e) ==
  /\ carrier = "stalled" /\ s[e].st = "open" /\ s[e].waits
  /\ Do(e, [s[e] EXCEPT !.waits = FALSE], <<>>)

\* Faulty variant: the configured period is taken as it is.
PeriodUncapped(e) == cfg[e].keepAlive

\* The keep-alive period, capped at half the idle timeout.
Period(e) == Min({cfg[e].keepAlive} \union {t \div 2 : t \in Timeouts})

KeepAliveDue(e) ==
  s[e].st = "open" /\ cfg[e].keepAlive > 0 /\ ~s[e].kept /\ s[e].timer >= Period(e)

\* Faulty variant: the keep-alive itself counts as activity.
KeepAliveRestarts(e) ==
  /\ KeepAliveDue(e)
  /\ Do(e, Active(s[e]), <<>>)

\* One keep-alive after each activity; it is a QX_PING, unless one is outstanding.
KeepAlive(e) ==
  /\ KeepAliveDue(e)
  /\ IF s[e].waits \/ s[e].req = MaxPings
     THEN Do(e, [s[e] EXCEPT !.kept = TRUE], <<>>)
     ELSE Do(e, [Asks(s[e]) EXCEPT !.kept = TRUE], <<Frame("PING", s[e].req + 1)>>)

\* A frame without effect costs a token; without one left it ends the session.
Charged(e, costs, new) ==
  IF costs /\ s[e].tokens = 0
  THEN Fail(e, "ZMUX_EXCESSIVE_LOAD")
  ELSE Reads(e, [new EXCEPT !.tokens = IF costs THEN @ - 1 ELSE @], <<>>)

\* Requests increase.  Only the largest is answered: one that comes while another is
\* owed makes that one pointless.
RecvPing(e) ==
  /\ s[e].st = "open" /\ On(e, "PING")
  /\ IF Got(e).n <= s[e].top
     THEN Fail(e, "PROTOCOL_VIOLATION")
     ELSE Charged(e, s[e].owed > 0, [Heard(s[e]) EXCEPT !.top = Got(e).n, !.owed = Got(e).n])

Respond(e) ==
  /\ s[e].st = "open" /\ s[e].owed > 0
  /\ Do(e, [Passed(s[e]) EXCEPT !.owed = 0], <<Frame("PONG", s[e].owed)>>)

(* A response to a request never sent is fatal, an outdated one costs.  Once  *)
(* the last request is answered no frame of this exchange is under way: the  *)
(* numbers of both ends start again, which bounds them.                      *)
RecvPong(e) ==
  /\ s[e].st = "open" /\ On(e, "PONG")
  /\ LET n == Got(e).n
     IN  IF n > s[e].req
         THEN Fail(e, "PROTOCOL_VIOLATION")
         ELSE IF n < s[e].req \/ n <= s[e].ans
         THEN Charged(e, n <= s[e].ans, [Heard(s[e]) EXCEPT !.ans = Max({n, @})])
         ELSE /\ s' = [s EXCEPT ![e] = [Heard(@) EXCEPT !.ans = 0, !.req = 0, !.waits = FALSE],
                                ![Peer(e)] = [@ EXCEPT !.top = 0]]
              /\ chan' = [chan EXCEPT ![Peer(e)] = Tail(@)]
              /\ UNCHANGED <<cfg, carrier>>

-----------------------------------------------------------------------------
(* The end.                                                                *)

IdleDue(e) == s[e].st = "open" /\ \E t \in Timeouts : s[e].timer >= t

\* Faulty variant: the carrier is shut down as without acknowledgement.
IdleTimeoutSilent(e) ==
  /\ IdleDue(e)
  /\ Do(e, Over(s[e], "IDLE_TIMEOUT", "local"), <<EOF>>)

\* With acknowledgement a CONNECTION_CLOSE says why.
IdleTimeout(e) ==
  /\ IdleDue(e)
  /\ Do(e, Over(s[e], "IDLE_TIMEOUT", "local"),
        IF Acks THEN <<Close(Wire("IDLE_TIMEOUT")), EOF>> ELSE <<EOF>>)

AppClose(e) ==
  /\ s[e].st = "open" /\ "close" \in cfg[e].app
  /\ Do(e, Over(s[e], "APPLICATION", "local"), <<Close("APPLICATION"), EOF>>)

\* The peer's reason is reported, and the carrier shut down gracefully.
RecvClose(e) ==
  /\ s[e].st = "open" /\ On(e, "CLOSE")
  /\ LET code == Got(e).code
     IN  Reads(e, Over(s[e], IF code = "ZMUX_IDLE_TIMEOUT" THEN "IDLE_TIMEOUT" ELSE code, "remote"),
               <<EOF>>)

\* A graceful end without CONNECTION_CLOSE: the peer's idle close, or with
\* acknowledgement a failure, on which the carrier is closed.
RecvEof(e) ==
  /\ s[e].st = "open" /\ On(e, "EOF")
  /\ IF Acks
     THEN /\ s' = [s EXCEPT ![e] = [Over(@, "PIPES_LOST", "local") EXCEPT !.st = "closed"]]
          /\ chan' = [chan EXCEPT ![Peer(e)] = Tail(@)]
          /\ carrier' = IF carrier = "up" THEN "gone" ELSE carrier
          /\ UNCHANGED cfg
     ELSE Reads(e, Over(s[e], "IDLE_TIMEOUT", "remote"), <<EOF>>)

\* Lingering: what arrives is ignored, the end of the peer's side ends the session.
Ignore(e) ==
  /\ s[e].st = "closing" /\ chan[Peer(e)] # <<>>
  /\ Reads(e, IF On(e, "EOF") THEN [s[e] EXCEPT !.st = "closed", !.timer = 0] ELSE s[e], <<>>)

LingerEnds(e) ==
  /\ s[e].st = "closing" /\ s[e].timer >= Linger
  /\ s' = [s EXCEPT ![e].st = "closed", ![e].timer = 0]
  /\ carrier' = IF carrier = "up" THEN "gone" ELSE carrier
  /\ UNCHANGED <<cfg, chan>>

\* A carrier error: what was not read is lost, and it is reported unless the session
\* had ended before.
CarrierError(e) ==
  /\ carrier \in {"cut", "gone"} /\ s[e].st # "closed"
  /\ s' = [s EXCEPT ![e] = IF @.report = None
                           THEN [Over(@, "PIPES_LOST", "local") EXCEPT !.st = "closed"]
                           ELSE [@ EXCEPT !.st = "closed", !.timer = 0]]
  /\ chan' = [chan EXCEPT ![Peer(e)] = <<>>]
  /\ UNCHANGED <<cfg, carrier>>

-----------------------------------------------------------------------------
(* The carrier, and time.                                                  *)

\* What a stalled carrier holds never arrives.
Stall ==
  /\ carrier = "up"
  /\ carrier' = "stalled"
  /\ chan' = [e \in End |-> <<>>]
  /\ UNCHANGED <<cfg, s>>

Cut ==
  /\ carrier = "up"
  /\ carrier' = "cut"
  /\ UNCHANGED <<cfg, s, chan>>

\* e has something to do before time passes.
Busy(e) ==
  \/ s[e].st = "new"
  \/ s[e].st # "closed" /\ chan[Peer(e)] # <<>> /\ Got(e).left = 0
  \/ s[e].st = "open" /\ (s[e].owed > 0 \/ s[e].ackDue)
  \/ KeepAliveDue(e) \/ IdleDue(e)
  \/ s[e].st = "start" /\ s[e].timer >= HandshakeTimeout
  \/ s[e].st = "closing" /\ s[e].timer >= Linger
  \/ s[e].st # "closed" /\ carrier \in {"cut", "gone"}

\* Without an idle timeout only keep-alives wait for the timer, which bounds it.
Rests(x) ==
  x.st = "open" /\ Timeouts = {} /\ \A e \in End : x.timer >= cfg[e].keepAlive

Later(x) == IF x.st = "closed" THEN x
            ELSE [x EXCEPT !.timer = IF Rests(x) THEN @ ELSE @ + 1,
                           !.tokens = Min({Budget, @ + Refill})]

Tick ==
  /\ \E e \in End : s[e].st # "closed"
  /\ \A e \in End : ~Busy(e)
  /\ s' = [e \in End |-> Later(s[e])]
  /\ chan' = [e \in End |-> [i \in DOMAIN chan[e] |->
                               [chan[e][i] EXCEPT !.left = Max({0, @ - 1})]]]
  /\ UNCHANGED <<cfg, carrier>>

Ended == (\A e \in End : s[e].st = "closed") /\ UNCHANGED vars

-----------------------------------------------------------------------------
Read(e) ==
  \/ RecvParameters(e) \/ RecvFence(e) \/ RecvEarly(e) \/ RecvData(e) \/ RecvAck(e)
  \/ RecvPing(e) \/ RecvPong(e) \/ RecvClose(e) \/ RecvEof(e) \/ Ignore(e)

Timer(e) == HandshakeTimesOut(e) \/ IdleTimeout(e) \/ LingerEnds(e)

Next ==
  \/ \E e \in End : \/ Start(e) \/ Read(e) \/ Respond(e) \/ SendAck(e) \/ KeepAlive(e)
                    \/ Timer(e) \/ CarrierError(e)
                    \/ SendData(e) \/ Ping(e) \/ GiveUp(e) \/ AppClose(e)
  \/ Stall \/ Cut \/ Tick \/ Ended

Spec == Init /\ [][Next]_vars

\* Fairness: an end does what it owes and time passes.  No application has to send,
\* ping or close, and no carrier has to fail.
Fairness ==
  /\ WF_vars(Tick)
  /\ \A e \in End : /\ WF_vars(Start(e)) /\ WF_vars(Read(e)) /\ WF_vars(Respond(e))
                    /\ WF_vars(SendAck(e)) /\ WF_vars(KeepAlive(e)) /\ WF_vars(Timer(e))
                    /\ WF_vars(CarrierError(e))

FairSpec == Spec /\ Fairness

-----------------------------------------------------------------------------
(* Properties.                                                             *)

\* Two established ends have opposite roles, so that the streams one opens are never
\* those of the other, whoever dialled and whatever each configured.
RolesOpposed ==
  \A e \in End : s[e].role # "none" => s[Peer(e)].role # s[e].role

\* An application that is told "early data rejected" may send it again elsewhere: the
\* peer has processed none of it and never will (early_data_plain_peer_rejected,
\* early_data_no_streams_rejected, early_fence_stops_peer_without_pipe_ack).
RejectedIsUnread ==
  \A e \in End : s[e].report[1] = "EARLY_DATA_REJECTED" => ~s[Peer(e)].took

\* A conforming peer is never taken for a faulty one: its pings, answers and keep-alives
\* break no rule and cost no token, however timers and frames interleave, as long as a
\* round trip is shorter than the time after which a request is given up.
NeverCutOff ==
  \A e \in End : /\ s[e].report[1] \notin {"PROTOCOL_VIOLATION", "ZMUX_EXCESSIVE_LOAD"}
                 /\ s[e].tokens = Budget

\* What an end reports of its peer is what the peer reported of itself, and lost pipes
\* are reported only of a carrier that was cut, never of a peer that closed.
TrueReason ==
  \A e \in End :
    LET mine == s[e].report
        other == s[Peer(e)].report
    IN  /\ mine[2] = "remote" => other[2] = "local" /\ Wire(other[1]) = Wire(mine[1])
        /\ mine[1] = "PIPES_LOST" => carrier = "cut"

\* With keep-alive at either end no session idles out on a carrier that works.
KeptAlive ==
  (\E e \in End : cfg[e].keepAlive > 0) /\ carrier = "up" =>
    \A e \in End : s[e].report[1] # "IDLE_TIMEOUT"

\* A session that has ended for one end, or whose carrier fails silently or not, ends
\* for both: the idle timer finds a silent peer although keep-alives are sent, and no
\* end lingers for ever.  Without an idle timeout nothing finds a silent peer.
Ends ==
  (carrier # "up" \/ \E e \in End : s[e].report # None)
     ~> \/ \A e \in End : s[e].st = "closed"
        \/ carrier = "stalled" /\ Timeouts = {}
=============================================================================
