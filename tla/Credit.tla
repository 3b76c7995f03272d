------------------------------- MODULE Credit -------------------------------
(***************************************************************************)
(* Data flow control of a multipath session in one direction: the stream   *)
(* and session limits, the release of credit by receiving, reading and     *)
(* resetting, the buffer cap, and the frames that carry the limits.  The   *)
(* model is the contract of the flow, reset and credit traces of           *)
(* tools/build_traces.py.                                                  *)
(*                                                                         *)
(* Data.  Streams carry bytes 1..Size, the first Preamble of which are the *)
(* stream preamble and are sent whole; every other byte travels alone.     *)
(* Frames overtake each other.  A byte that was lost is one that has not   *)
(* arrived: it is reinjected until it does, unless a reset made it         *)
(* unnecessary.  A limit frame carries the limit of the moment it arrives  *)
(* (an overtaken one is out of date and ignored).                          *)
(***************************************************************************)
EXTENDS Naturals, FiniteSets

CONSTANTS Stream,          \* streams the peer opens
          Size,            \* bound: bytes the application writes on a stream
          Preamble,        \* bytes of the stream preamble
          StreamWindow,    \* receive window of a stream
          SessionWindow,   \* receive window of the session
          Quarter,         \* increment of a regular update
          Cap,             \* buffer cap of the receiver
          Readers,         \* streams that the receiving application reads to their end
          Fickle           \* bound: streams that either application may give up

ASSUME StreamAssumption == IsFiniteSet(Stream)
ASSUME SizeAssumption   == Size \in Nat /\ Preamble \in 1..Size
ASSUME WindowAssumption == /\ StreamWindow \in Nat /\ SessionWindow \in Nat
                           /\ Quarter \in Nat \ {0} /\ Cap \in Nat
                           /\ Preamble <= StreamWindow /\ Preamble <= SessionWindow
ASSUME ReaderAssumption == Readers \subseteq Stream /\ Fickle \subseteq Stream

None == Size + 1           \* no final size, no Reliable Size known

VARIABLES
  \* the sender
  off,       \* bytes of each stream sent
  sst,       \* its sending part: open, ended with FIN, or reset
  rels,      \* Reliable Sizes of the resets it sent
  md,        \* session limit it knows
  msd,       \* stream limits it knows
  blk,       \* session limit its last DATA_BLOCKED reported
  \* the receiver
  rcvd,      \* bytes of each stream that arrived
  cons,      \* bytes 1..cons were consumed by the application
  fsz,       \* final size, if known
  rel,       \* smallest Reliable Size received, if any
  stop,      \* the application stopped the stream
  held,      \* bytes received at the cap, their session credit not yet released
  credit,    \* session credit released so far
  lim,       \* session limit advertised
  slim,      \* stream limits advertised
  bkd        \* session limit of the last DATA_BLOCKED received

svars == <<off, sst, rels, md, msd, blk>>
bytes == <<rcvd, cons, fsz, rel, stop>>
rvars == <<bytes, held, credit, lim, slim, bkd>>
vars  == <<svars, rvars>>

Byte == Stream \X (1..Size)

\* One type invariant: the shape of every variable.
TypeOK ==
  /\ off \in [Stream -> 0..Size]
  /\ sst \in [Stream -> {"open", "fin", "reset"}]
  /\ rels \in [Stream -> SUBSET (Preamble..Size)]
  /\ md \in Nat /\ msd \in [Stream -> Nat] /\ blk \in Nat
  /\ rcvd \in [Stream -> SUBSET (1..Size)]
  /\ cons \in [Stream -> 0..Size]
  /\ fsz \in [Stream -> 0..None] /\ rel \in [Stream -> 0..None]
  /\ stop \in [Stream -> BOOLEAN]
  /\ held \in SUBSET Byte
  /\ credit \in Nat /\ lim \in Nat /\ slim \in [Stream -> Nat] /\ bkd \in Nat

-----------------------------------------------------------------------------
(* Accounting.                                                             *)

\* What the sender has spent of the session limit, and what the receiver has
\* seen spent: up to the highest offset received or the final size, over all streams.
\* A sum of offsets is the number of bytes below them.
Sent == {b \in Byte : b[2] <= off[b[1]]}
Spent == Cardinality(Sent)

Seen(s) == {j \in 1..Size : \/ \E i \in rcvd[s] : j <= i
                            \/ fsz[s] # None /\ j <= fsz[s]}
Highest(s) == Cardinality(Seen(s))
Used == Cardinality({b \in Byte : b[2] \in Seen(b[1])})

\* Bytes the receiver keeps for the application; those at or above the Reliable
\* Size of a reset, and those of a stopped stream, are discarded.
Buffered == {b \in Byte : /\ b[2] \in rcvd[b[1]]
                          /\ b[2] > cons[b[1]]
                          /\ b[2] <= rel[b[1]]
                          /\ ~stop[b[1]]}

\* Faulty variant: credit is released on receipt, whatever the buffer holds.
ReleaseOnReceipt(fresh, dead) ==
  /\ held' = {}
  /\ credit' = credit + Cardinality(fresh \union dead)

\* Session credit after bytes arrived that had not been released (fresh) and
\* bytes were given up (dead).  A byte that arrives while the buffer is at the
\* cap is held until it is consumed or the buffer falls below the cap.
Release(fresh, dead) ==
  LET late == IF Cardinality(Buffered) >= Cap THEN fresh ELSE {}
      kept == IF Cardinality(Buffered') < Cap THEN {}
              ELSE (held \union late) \intersect Buffered'
  IN /\ held' = kept
     /\ credit' = (credit + Cardinality(fresh \union dead) + Cardinality(held)) - Cardinality(kept)

\* Faulty variant of MustGrant: DATA_BLOCKED is ignored.
MustGrantUsed ==
  LET due == credit + SessionWindow
  IN due > lim /\ (due - lim >= Quarter \/ Used = lim)

\* The limit the receiver could advertise, and when it must: the increment is a
\* quarter of the window, or the peer has used up, or reported, the current limit.
Grant == credit + SessionWindow
MustGrant == /\ Grant > lim
             /\ Grant - lim >= Quarter \/ Used = lim \/ bkd = lim

StreamGrant(s) == cons[s] + StreamWindow
MustStreamGrant(s) == /\ fsz[s] = None
                      /\ StreamGrant(s) > slim[s]
                      /\ StreamGrant(s) - slim[s] >= Quarter \/ Highest(s) = slim[s]

Init ==
  /\ off = [s \in Stream |-> 0]
  /\ sst = [s \in Stream |-> "open"]
  /\ rels = [s \in Stream |-> {}]
  /\ md = SessionWindow
  /\ msd = [s \in Stream |-> StreamWindow]
  /\ blk = 0
  /\ rcvd = [s \in Stream |-> {}]
  /\ cons = [s \in Stream |-> 0]
  /\ fsz = [s \in Stream |-> None]
  /\ rel = [s \in Stream |-> None]
  /\ stop = [s \in Stream |-> FALSE]
  /\ held = {}
  /\ credit = 0
  /\ lim = SessionWindow
  /\ slim = [s \in Stream |-> StreamWindow]
  /\ bkd = 0

-----------------------------------------------------------------------------
(* The sender.                                                             *)

\* The next unit of a stream: its preamble, which is indivisible, or one byte.
Unit(s) == IF off[s] = 0 THEN Preamble ELSE 1

HasData(s) == sst[s] = "open" /\ off[s] < Size /\ off[s] + Unit(s) <= msd[s]

\* Faulty variant: the preamble is not charged to the session.
SendPreambleFree(s) ==
  /\ HasData(s)
  /\ off[s] = 0 \/ Spent + 1 <= md
  /\ off' = [off EXCEPT ![s] = @ + Unit(s)]
  /\ UNCHANGED <<sst, rels, md, msd, blk, rvars>>

Send(s) ==
  /\ HasData(s)
  /\ Spent + Unit(s) <= md
  /\ off' = [off EXCEPT ![s] = @ + Unit(s)]
  /\ UNCHANGED <<sst, rels, md, msd, blk, rvars>>

\* A unit does not fit in the session credit: DATA_BLOCKED, once per limit.
DataBlocked ==
  /\ \E s \in Stream : HasData(s) /\ Spent + Unit(s) > md
  /\ blk # md
  /\ blk' = md
  /\ UNCHANGED <<off, sst, rels, md, msd, rvars>>

\* FIN needs no credit.
Finish(s) ==
  /\ sst[s] = "open"
  /\ off[s] > 0
  /\ sst' = [sst EXCEPT ![s] = "fin"]
  /\ UNCHANGED <<off, rels, md, msd, blk, rvars>>

\* RESET_STREAM_AT with final size off[s], also after a FIN; a later one may only
\* lower the Reliable Size, never below the preamble.  A reset of a stream that
\* sent nothing takes no identifier and is not on the wire.
Reset(s, r) ==
  /\ off[s] > 0
  /\ r \in Preamble..off[s]
  /\ \A q \in rels[s] : r < q
  /\ sst' = [sst EXCEPT ![s] = "reset"]
  /\ rels' = [rels EXCEPT ![s] = @ \union {r}]
  /\ UNCHANGED <<off, md, msd, blk, rvars>>

\* STOP_SENDING elicits a reset that owes no data; after a FIN it changes nothing.
RecvStop(s) ==
  /\ stop[s]
  /\ sst[s] # "fin"
  /\ Reset(s, Preamble)

RecvMaxData ==
  /\ lim > md
  /\ md' = lim
  /\ UNCHANGED <<off, sst, rels, msd, blk, rvars>>

RecvMaxStreamData(s) ==
  /\ slim[s] > msd[s]
  /\ msd' = [msd EXCEPT ![s] = slim[s]]
  /\ UNCHANGED <<off, sst, rels, md, blk, rvars>>

-----------------------------------------------------------------------------
(* The receiver.                                                           *)

\* Bytes of s arrive: the preamble (i = 1), which is consumed by parsing it, or
\* the byte i.  What arrived before, or is beyond a reset, releases nothing.
Frame(i) == IF i = 1 THEN 1..Preamble ELSE {i}
\* Faulty variant: a late copy of a byte given up by a reset releases it again.
ReceiveLate(s, i) ==
  /\ (i = 1 /\ off[s] > 0) \/ i \in (Preamble + 1)..off[s]
  /\ i \notin rcvd[s]
  /\ rcvd' = [rcvd EXCEPT ![s] = @ \union Frame(i)]
  /\ cons' = [cons EXCEPT ![s] = IF i = 1 THEN Preamble ELSE @]
  /\ UNCHANGED <<fsz, rel, stop>>
  /\ Release({s} \X Frame(i), {})
  /\ UNCHANGED <<svars, lim, slim, bkd>>

Receive(s, i) ==
  /\ (i = 1 /\ off[s] > 0) \/ i \in (Preamble + 1)..off[s]
  /\ i \notin rcvd[s]
  /\ rcvd' = [rcvd EXCEPT ![s] = @ \union Frame(i)]
  /\ cons' = [cons EXCEPT ![s] = IF i = 1 THEN Preamble ELSE @]
  /\ UNCHANGED <<fsz, rel, stop>>
  /\ Release({s} \X {j \in Frame(i) : j <= rel[s]}, {})
  /\ UNCHANGED <<svars, lim, slim, bkd>>

RecvFin(s) ==
  /\ sst[s] = "fin"
  /\ fsz[s] = None
  /\ fsz' = [fsz EXCEPT ![s] = off[s]]
  /\ UNCHANGED <<svars, rcvd, cons, rel, stop, held, credit, lim, slim, bkd>>

\* Faulty variant: a reset releases nothing.
RecvResetKeeps(s, r) ==
  /\ r \in rels[s]
  /\ r < rel[s]
  /\ fsz' = [fsz EXCEPT ![s] = off[s]]
  /\ rel' = [rel EXCEPT ![s] = r]
  /\ UNCHANGED <<rcvd, cons, stop>>
  /\ Release({}, {})
  /\ UNCHANGED <<svars, lim, slim, bkd>>

\* A reset releases what it makes unnecessary: the bytes from its Reliable Size
\* to the final size that neither arrived nor were released by an earlier reset.
RecvReset(s, r) ==
  /\ r \in rels[s]
  /\ r < rel[s]
  /\ fsz' = [fsz EXCEPT ![s] = off[s]]
  /\ rel' = [rel EXCEPT ![s] = r]
  /\ UNCHANGED <<rcvd, cons, stop>>
  /\ Release({}, {s} \X {j \in (r + 1)..off[s] : j \notin rcvd[s] /\ j <= rel[s]})
  /\ UNCHANGED <<svars, lim, slim, bkd>>

\* The application reads the next byte; it reads nothing before the preamble.
Read(s) ==
  /\ cons[s] >= Preamble
  /\ <<s, cons[s] + 1>> \in Buffered
  /\ cons' = [cons EXCEPT ![s] = @ + 1]
  /\ UNCHANGED <<rcvd, fsz, rel, stop>>
  /\ Release({}, {})
  /\ UNCHANGED <<svars, lim, slim, bkd>>

\* The end of the stream or its reset has been reported to the application.
Done(s) == \/ stop[s]
           \/ fsz[s] # None /\ cons[s] = fsz[s]
           \/ cons[s] >= Preamble /\ cons[s] >= rel[s]

\* The application stops an accepted stream; what is buffered is discarded.
Stop(s) ==
  /\ s \in Fickle
  /\ cons[s] >= Preamble
  /\ ~Done(s)
  /\ stop' = [stop EXCEPT ![s] = TRUE]
  /\ UNCHANGED <<rcvd, cons, fsz, rel>>
  /\ Release({}, {})
  /\ UNCHANGED <<svars, lim, slim, bkd>>

SendMaxData ==
  /\ Grant > lim
  /\ lim' = Grant
  /\ UNCHANGED <<svars, bytes, held, credit, slim, bkd>>

SendMaxStreamData(s) ==
  /\ fsz[s] = None
  /\ StreamGrant(s) > slim[s]
  /\ slim' = [slim EXCEPT ![s] = StreamGrant(s)]
  /\ UNCHANGED <<svars, bytes, held, credit, lim, bkd>>

RecvDataBlocked ==
  /\ blk > bkd
  /\ bkd' = blk
  /\ UNCHANGED <<svars, bytes, held, credit, lim, slim>>

-----------------------------------------------------------------------------
SenderStep(s) ==
  \/ Send(s) \/ Finish(s) \/ RecvStop(s) \/ RecvMaxStreamData(s)
  \/ s \in Fickle /\ \E r \in Preamble..Size : Reset(s, r)

ReceiverStep(s) ==
  \/ (\E i \in 1..Size : Receive(s, i)) \/ RecvFin(s) \/ Read(s) \/ Stop(s)
  \/ (\E r \in Preamble..Size : RecvReset(s, r)) \/ SendMaxStreamData(s)

\* Every stream has been reported to its end; the rest is closing.
Over == (\A s \in Stream : Done(s)) /\ UNCHANGED vars

Next ==
  \/ \E s \in Stream : SenderStep(s) \/ ReceiverStep(s)
  \/ DataBlocked \/ RecvMaxData \/ SendMaxData \/ RecvDataBlocked
  \/ Over

Spec == Init /\ [][Next]_vars

\* Fairness: the sender sends what it may and ends a stream it has written; what
\* is not made unnecessary arrives; a limit is sent only when it must be; and the
\* application reads the streams in Readers.  Nobody has to reset or stop.
Needed(s, i) == \A r \in rels[s] : i <= r

Fairness ==
  /\ WF_vars(DataBlocked) /\ WF_vars(RecvDataBlocked)
  /\ WF_vars(MustGrant /\ SendMaxData) /\ WF_vars(RecvMaxData)
  /\ \A s \in Stream :
       /\ WF_vars(Send(s))
       /\ WF_vars(off[s] = Size /\ Finish(s))
       /\ WF_vars(RecvStop(s))
       /\ WF_vars(RecvFin(s))
       /\ WF_vars(\E r \in Preamble..Size : RecvReset(s, r))
       /\ WF_vars(MustStreamGrant(s) /\ SendMaxStreamData(s))
       /\ WF_vars(RecvMaxStreamData(s))
       /\ \A i \in 1..Size : WF_vars(Needed(s, i) /\ Receive(s, i))
  /\ \A s \in Readers : WF_vars(Read(s))

FairSpec == Spec /\ Fairness

-----------------------------------------------------------------------------
(* Properties.                                                             *)

\* A conforming sender never exceeds a limit, with data or with the final size
\* of a reset (flow.stream_limit_violation, session_limit_violation,
\* final_size_counts_for_session are fatal).
WithinLimits == Used <= lim /\ \A s \in Stream : Highest(s) <= slim[s]

\* Every byte releases session credit exactly once: when it arrives, when it
\* leaves the held bytes, or when a reset gives it up, in whatever order the
\* bytes, the resets and their late copies come (credit.reset_releases_lost_bytes).
Accounted == {b \in Byte : \/ b[2] \in rcvd[b[1]]
                           \/ fsz[b[1]] # None /\ b[2] > rel[b[1]] /\ b[2] <= fsz[b[1]]}
ReleasedOnce == credit + Cardinality(held) = Cardinality(Accounted)

\* The receiver's memory is bounded whatever the peer sends: released but unread
\* bytes by the cap, all of them by the cap and one session window.
MemoryBound ==
  /\ Cardinality(Buffered \ held) <= Cap
  /\ Cardinality(Buffered) <= Cap + SessionWindow

\* The streams that are read come to their end, though others are never read and
\* no limit is sent before it must be (flow.zero_window_liveness,
\* session_liveness, preamble_blocked_sends_data_blocked).
ReadersFinish == \A s \in Readers : <>Done(s)

\* Once every stream is ended by its sender the whole session window is available
\* again, but for what is held of streams nobody reads: no other byte keeps its credit,
\* lost, stopped or reset as it may be.
WindowReturned ==
  (\A s \in Stream : sst[s] # "open")
    ~> (credit + Cardinality({b \in held : b[1] \notin Readers}) = Spent)
=============================================================================
