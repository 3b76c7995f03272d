------------------------------ MODULE Streams ------------------------------
(***************************************************************************)
(* The streams of one type that one endpoint (the opener) opens toward the *)
(* other (the acceptor): identifiers, implicit opening, concurrency        *)
(* credit, release, and the two-phase GOAWAY of the acceptor.  The model   *)
(* is the contract of the GOAWAY, stream and stream-credit traces of       *)
(* tools/build_traces.py.                                                  *)
(*                                                                         *)
(* A stream is its index, 0 upward.  Its opener sends a first frame with   *)
(* the preamble and, at the end, a FIN or a reset; the acceptor's part     *)
(* ends likewise.  Frames are delivered reliably: in any order in a        *)
(* multipath session, in the order sent on a single pipe (ordered).  A     *)
(* frame that has not arrived is one that the sender's state says was sent *)
(* and the receiver's that it was not seen.  MAX_STREAMS carries the limit *)
(* of the moment it arrives: an overtaken one is out of date.              *)
(***************************************************************************)
EXTENDS Integers, FiniteSets, FiniteSetsExt

CONSTANTS MaxId,       \* bound: streams the opening application asks for
          Limit        \* concurrency limit, the initial MAX_STREAMS

ASSUME BoundAssumption == MaxId \in Nat /\ Limit \in Nat \ {0}

Id   == 0..(MaxId - 1)
None == MaxId + Limit + 1  \* above every watermark: no GOAWAY, no fence answered

VARIABLES
  \* the opener
  waiting,   \* streams opened by the application that have no identifier yet
  alloc,     \* identifiers assigned, by a first frame or by pinning
  sent,      \* first frames emitted; sent..alloc-1 are pinned
  endO,      \* streams whose part the opener ended
  mx,        \* MAX_STREAMS it knows
  wm,        \* smallest watermark received
  rejO,      \* streams reported to its application as rejected
  got,       \* streams whose acceptor's end arrived
  mark,      \* first frames emitted when it answered the fence
  \* the acceptor
  hi,        \* streams opened here, one more than the highest index seen
  app,       \* what its application did with each stream
  fin,       \* streams whose opener's end arrived
  lim,       \* MAX_STREAMS advertised
  phase,     \* of its shutdown
  gw,        \* watermarks of the GOAWAYs it sent
  \* the session
  ordered    \* it has a single pipe without lanes

ovars == <<waiting, alloc, sent, endO, mx, wm, rejO, got, mark>>
avars == <<hi, app, fin, lim, phase, gw, ordered>>
vars  == <<ovars, avars>>

\* One type invariant: the shape of every variable.
TypeOK ==
  /\ waiting \in 0..MaxId /\ alloc \in 0..MaxId /\ sent \in 0..MaxId
  /\ endO \in SUBSET Id /\ rejO \in SUBSET Id /\ got \in SUBSET Id
  /\ mx \in Nat /\ wm \in 0..None /\ mark \in 0..None
  /\ hi \in 0..MaxId
  /\ app \in [Id -> {"none", "offered", "taken", "finished", "declined", "released"}]
  /\ fin \in SUBSET Id
  /\ lim \in Nat
  /\ phase \in {"open", "fence", "final"}
  /\ gw \in SUBSET (0..(None - 1))
  /\ ordered \in BOOLEAN

Init ==
  /\ waiting = 0 /\ alloc = 0 /\ sent = 0
  /\ endO = {} /\ rejO = {} /\ got = {}
  /\ mx = Limit /\ wm = None /\ mark = None
  /\ hi = 0
  /\ app = [i \in Id |-> "none"]
  /\ fin = {}
  /\ lim = Limit /\ phase = "open" /\ gw = {}
  /\ ordered \in BOOLEAN

-----------------------------------------------------------------------------
(* What the acceptor's state says of a stream.                             *)

Watermark == Min(gw \union {None})

\* Open streams that the stack rejects, with RESET_STREAM and STOP_SENDING.
Rejected == {i \in Id : Watermark <= i /\ i < hi}
Released == {i \in Id : app[i] \in {"released", "declined"}}

\* Faulty variant: releasing an unfinished stream does not stop its opener.
StoppedByReject == Rejected \union {i \in Id : app[i] = "declined"}

\* Streams whose opener was asked to stop, and whose acceptor's part ended.
Stopped == Rejected \union Released
EndedA  == Rejected \union Released \union {i \in Id : app[i] = "finished"}

\* State discarded: both parts are terminal (the acceptor's end arrived and was
\* acknowledged) and the application released the stream, or never had it.
Discarded == (Released \union Rejected) \intersect fin \intersect got

-----------------------------------------------------------------------------
(* The opener.                                                             *)

Going == wm < None

Open ==
  /\ ~Going
  /\ waiting + alloc < MaxId
  /\ waiting' = waiting + 1
  /\ UNCHANGED <<alloc, sent, endO, mx, wm, rejO, got, mark, avars>>

\* A stream cancelled before its first frame consumes no identifier.
Cancel ==
  /\ waiting > 0
  /\ waiting' = waiting - 1
  /\ UNCHANGED <<alloc, sent, endO, mx, wm, rejO, got, mark, avars>>

\* The application asks for the identifier of a stream that sent nothing.
Pin ==
  /\ waiting > 0 /\ alloc < mx
  /\ waiting' = waiting - 1
  /\ alloc' = alloc + 1
  /\ UNCHANGED <<sent, endO, mx, wm, rejO, got, mark, avars>>

\* First frames leave in identifier order: the pinned streams first, below the
\* watermark, then a stream that takes its identifier with its first frame.
EmitPinned ==
  /\ sent < alloc /\ sent < wm
  /\ sent' = sent + 1
  /\ UNCHANGED <<waiting, alloc, endO, mx, wm, rejO, got, mark, avars>>

EmitNew ==
  /\ waiting > 0 /\ sent = alloc /\ alloc < mx
  /\ waiting' = waiting - 1
  /\ alloc' = alloc + 1
  /\ sent' = sent + 1
  /\ UNCHANGED <<endO, mx, wm, rejO, got, mark, avars>>

\* The application finishes or resets a stream.  A pinned one is still announced.
End(i) ==
  /\ i < alloc /\ i \notin endO
  /\ endO' = endO \union {i}
  /\ UNCHANGED <<waiting, alloc, sent, mx, wm, rejO, got, mark, avars>>

\* STOP_SENDING elicits a reset, unless the part has ended.
RecvStop(i) ==
  /\ i \in Stopped
  /\ End(i)

RecvMaxStreams ==
  /\ lim > mx
  /\ mx' = lim
  /\ UNCHANGED <<waiting, alloc, sent, endO, wm, rejO, got, mark, avars>>

\* The acceptor's FIN or reset of a stream arrives, the latter perhaps REJECTED.
RecvEnd(i) ==
  /\ i \in EndedA \ got
  /\ got' = got \union {i}
  /\ rejO' = IF i \in Rejected \/ app[i] = "declined" THEN rejO \union {i} ELSE rejO
  /\ UNCHANGED <<waiting, alloc, sent, endO, mx, wm, mark, avars>>

\* Faulty variant: the pinned streams that were not emitted are not reported.
RecvGoawayEmitted(w) ==
  /\ w \in gw /\ w < wm
  /\ wm' = w
  /\ waiting' = 0
  /\ rejO' = rejO \union {i \in Id : w <= i /\ i < sent}
  /\ UNCHANGED <<alloc, sent, endO, mx, got, mark, avars>>

\* GOAWAY: streams without an identifier fail as going away, those at or above the
\* watermark as rejected, emitted or pinned.  A larger watermark has no effect.
RecvGoaway(w) ==
  /\ w \in gw /\ w < wm
  /\ wm' = w
  /\ waiting' = 0
  /\ rejO' = rejO \union {i \in Id : w <= i /\ i < alloc}
  /\ UNCHANGED <<alloc, sent, endO, mx, got, mark, avars>>

\* The fence request arrives and is answered; a single pipe delivers it after the
\* first GOAWAY.
RecvPing ==
  /\ phase = "fence" /\ mark = None
  /\ ordered => Going
  /\ mark' = sent
  /\ UNCHANGED <<waiting, alloc, sent, endO, mx, wm, rejO, got, avars>>

-----------------------------------------------------------------------------
(* The acceptor.                                                           *)

Opened(i) == IF i < hi THEN hi ELSE i + 1

\* The first frame of a stream opens it and every lower one.  The stream is
\* offered, also into a hole below the final watermark, unless it is rejected.
RecvPreamble(i) ==
  /\ i < sent /\ i \notin Discarded
  /\ ordered => i <= hi
  /\ hi' = Opened(i)
  /\ app' = IF i < Watermark /\ app[i] = "none"
            THEN [app EXCEPT ![i] = "offered"] ELSE app
  /\ <<hi', app'>> # <<hi, app>>
  /\ UNCHANGED <<ovars, fin, lim, phase, gw, ordered>>

\* The FIN or reset of the opener, which may overtake the first frame and opens
\* the stream too.
RecvFin(i) ==
  /\ i < sent /\ i \in endO \ fin
  /\ ordered => i < hi
  /\ hi' = Opened(i)
  /\ fin' = fin \union {i}
  /\ UNCHANGED <<ovars, app, lim, phase, gw, ordered>>

AppStep(i, from, to) ==
  /\ app[i] \in from
  /\ app' = [app EXCEPT ![i] = to]
  /\ UNCHANGED <<ovars, hi, fin, lim, phase, gw, ordered>>

\* The application accepts a stream and reads it, or declines it unread, ends its
\* own part, and releases the stream, which resets and stops what is not ended.
Take(i)    == AppStep(i, {"offered"}, "taken")
Decline(i) == AppStep(i, {"offered"}, "declined")
Finish(i)  == AppStep(i, {"taken"}, "finished")
Release(i) == AppStep(i, {"taken", "finished"}, "released")

\* Streams discarded since the limit was last raised.
Freed == Cardinality(Discarded) - (lim - Limit)

\* Faulty variant: credit returns when both ends of a stream arrived.
RaiseOnEnd ==
  /\ phase = "open"
  /\ Limit + Cardinality(fin \intersect got) > lim
  /\ lim' = Limit + Cardinality(fin \intersect got)
  /\ UNCHANGED <<ovars, hi, app, fin, phase, gw, ordered>>

\* MAX_STREAMS: the initial limit plus all streams discarded, until a GOAWAY is
\* sent; due when half of the limit, rounded up, was discarded.
Raise ==
  /\ phase = "open"
  /\ Freed > 0
  /\ lim' = lim + Freed
  /\ UNCHANGED <<ovars, hi, app, fin, phase, gw, ordered>>

RaiseDue == 2 * Freed >= Limit

\* Phase 1: the watermark is the limit granted, and the fence is asked for.
Shutdown ==
  /\ phase = "open"
  /\ phase' = "fence"
  /\ gw' = {lim}
  /\ UNCHANGED <<ovars, hi, app, fin, lim, ordered>>

Offered == {i \in Id : app[i] # "none"}

\* Faulty variants: the streams offered are counted; or those accepted only.
WatermarkCounts   == Cardinality(Offered)
WatermarkAccepted == Max({i + 1 : i \in {j \in Offered : app[j] # "offered"}} \union {0})

FinalWatermark == Max({i + 1 : i \in Offered} \union {0})

\* Phase 2: the fence completed, at the earliest when its answer arrived (on a
\* single pipe after every first frame sent before it).  Open streams at or above
\* the watermark become Rejected.
RecvPong ==
  /\ phase = "fence" /\ mark < None
  /\ ordered => mark <= hi
  /\ phase' = "final"
  /\ gw' = gw \union {FinalWatermark}
  /\ UNCHANGED <<ovars, hi, app, fin, lim, ordered>>

-----------------------------------------------------------------------------
\* Nothing more need happen: the acceptor may close at a deadline of its own.
Over == phase = "final" /\ UNCHANGED vars

Next ==
  \/ Open \/ Cancel \/ Pin \/ EmitPinned \/ EmitNew
  \/ RecvMaxStreams \/ (\E w \in gw : RecvGoaway(w)) \/ RecvPing
  \/ \E i \in Id : \/ End(i) \/ RecvStop(i) \/ RecvEnd(i)
                   \/ RecvPreamble(i) \/ RecvFin(i)
                   \/ Take(i) \/ Decline(i) \/ Finish(i) \/ Release(i)
  \/ Raise \/ Shutdown \/ RecvPong
  \/ Over

Spec == Init /\ [][Next]_vars

\* Fairness: both stacks send and deliver what they may; the accepting application
\* accepts every stream and releases it; MAX_STREAMS is raised only when it is due.
\* The opening application need not end a stream, and nobody has to shut down.  Each
\* of these steps is taken finitely often, so that fairness to all steps of an actor
\* together is fairness to each.
OpenerStep ==
  \/ EmitPinned \/ EmitNew \/ RecvMaxStreams \/ (\E w \in gw : RecvGoaway(w)) \/ RecvPing
  \/ \E i \in Id : RecvStop(i) \/ RecvEnd(i)
AcceptorStep ==
  \/ RecvPong \/ (RaiseDue /\ Raise)
  \/ \E i \in Id : RecvPreamble(i) \/ RecvFin(i)
AcceptingApp == \E i \in Id : Take(i) \/ Decline(i) \/ Release(i)

Fairness == WF_vars(OpenerStep) /\ WF_vars(AcceptorStep) /\ WF_vars(AcceptingApp)

FairSpec == Spec /\ Fairness

-----------------------------------------------------------------------------
(* Properties.                                                             *)

\* The "not processed" guarantee: a stream reported to the opener as rejected, by a
\* GOAWAY or by its reset, was never read by the acceptor's application and never
\* will be, so that it can be retried elsewhere (ext.goaway.receive_watermark,
\* rejected_late_preamble, hole_below_watermark_offered).
NotProcessed == \A i \in rejO : app[i] \in {"none", "declined"}

\* Streams opened, implicitly too, and not yet discarded stay within the limit
\* however fast the opener ends them (flow.rapid_reset_bounded,
\* reset_before_accept_keeps_credit).
BoundedConcurrency == hi - Cardinality(Discarded) <= Limit

\* The first GOAWAY of a shutdown refuses nothing that is on its way: until the
\* final one no stream is reported as rejected that the application did not decline.
FirstGoawayRefusesNothing ==
  phase # "final" => \A i \in rejO : app[i] = "declined"

\* On a single pipe the fence covers every stream emitted before its answer.
FenceCovers ==
  (ordered /\ phase = "final") => \A i \in 0..(mark - 1) : i < Watermark

\* Every stream with an identifier is offered to the accepting application or
\* reported as rejected, in a hole, pinned or above a watermark as it may be.  Both
\* last, and so does a final watermark: that the state holds again and again says
\* that each stream is answered, and that each drain ends.
EveryStreamAnswered ==
  []<>(\A i \in 0..(alloc - 1) : app[i] # "none" \/ i \in rejO)

\* Opened streams do not wait for ever for credit that released ones hold.
CreditReturns == []<>(waiting = 0)
=============================================================================
