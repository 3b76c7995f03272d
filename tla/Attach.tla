------------------------------- MODULE Attach -------------------------------
(***************************************************************************)
(* Attachments from the joiner's first byte to retirement: pipe IDs, the    *)
(* acceptor's replay window, refusals, the exchange of PIPE_ABANDON and the *)
(* PIPE_ACK entries that name a pipe (the traces multipath.join, .remove    *)
(* and .ack of tools/build_traces.py).  Both ends join alike; J joins here  *)
(* and A accepts.  IDs are those of J's parity, counted 1, 2, ...; the      *)
(* bootstrap pipe stays and carries frames.                                *)
(*                                                                         *)
(* What was sent may arrive late, out of order and any number of times: a   *)
(* PIPE_JOIN may be held on its way or replayed, a PIPE_ABANDON is sent     *)
(* again until it is acknowledged, PIPE_ACKs travel on any pipe.            *)
(***************************************************************************)
EXTENDS Integers, FiniteSets

CONSTANTS
  MaxId,     \* bound on the pipe IDs J takes
  Window,    \* W: IDs the bitmap covers below and above the highest verified join
  Cap        \* max_pipes + H: unretired attachments either end keeps

ASSUME ConstantAssumption == MaxId \in Nat /\ Window \in Nat /\ Cap \in Nat

Id == 1..MaxId
Side == {"J", "A"}
Peer(e) == IF e = "J" THEN "A" ELSE "J"

VARIABLES
  st,       \* st[e][i]: "none", "joining" (J), "live", "ended" and not retired,
            \* "used" without having been attached (A), "retired"
  high,     \* h: the highest ID of a join that A verified
  bits,     \* the bitmap of A
  ab,       \* ab[e][i]: PIPE_ABANDON of e "none", "sent" (again, until acknowledged),
            \* "arrived", "acked"
  entries,  \* attachments that J listed in a PIPE_ACK
  fatal     \* an end has closed the session with PROTOCOL_VIOLATION

vars == <<st, high, bits, ab, entries, fatal>>

\* One type invariant: the shape of every variable, and what each end never is.
TypeOK ==
  /\ st \in [Side -> [Id -> {"none", "joining", "live", "ended", "used", "retired"}]]
  /\ \A i \in Id : st["J"][i] # "used" /\ st["A"][i] # "joining"
  /\ high \in 0..MaxId /\ bits \subseteq Id
  /\ ab \in [Side -> [Id -> {"none", "sent", "arrived", "acked"}]]
  /\ entries \subseteq Id
  /\ fatal \in BOOLEAN

Init ==
  /\ st = [e \in Side |-> [i \in Id |-> "none"]]
  /\ high = 0 /\ bits = {}
  /\ ab = [e \in Side |-> [i \in Id |-> "none"]]
  /\ entries = {} /\ fatal = FALSE

-----------------------------------------------------------------------------
HasState(e, i) == st[e][i] \in {"joining", "live", "ended"}
Unretired(e)   == {i \in Id : HasState(e, i)}
Taken(i)       == st["J"][i] # "none"

Stale(i)   == high - i > Window
Covered(i) == i - high <= Window /\ ~Stale(i)

\* Faulty variant: an ID below the bitmap is not remembered.
SpentBits(i) == i \in bits

\* An ID of J without attachment state whose bit is set, or that is stale, is treated
\* as retired.
Spent(i) == i \in bits \/ Stale(i)

-----------------------------------------------------------------------------
(* Joining.                                                                *)

\* J takes the next ID, and its PIPE_JOIN is under way from now on.
Join(i) ==
  /\ ~Taken(i) /\ \A j \in Id : j < i => Taken(j)
  /\ Cardinality(Unretired("J")) < Cap
  /\ st' = [st EXCEPT !["J"][i] = "joining"]
  /\ UNCHANGED <<high, bits, ab, entries, fatal>>

\* A PIPE_JOIN arrives, the same one perhaps again.  A replay or a stale one is closed
\* without anything else.
Fresh(i) == Taken(i) /\ ~HasState("A", i) /\ ~Spent(i)

\* A verified join sets its bit and moves the bitmap up, never down.
Verified(i) ==
  /\ high' = IF i > high THEN i ELSE high
  /\ bits' = {j \in bits \union {i} : high' - j <= Window}

Attach(i) ==
  /\ Fresh(i) /\ Cardinality(Unretired("A")) < Cap
  /\ st' = [st EXCEPT !["A"][i] = "live"]
  /\ Verified(i)
  /\ UNCHANGED <<ab, entries, fatal>>

\* There is no room, or the carrier cannot provide the direction: A keeps the bit and
\* sends PIPE_ABANDON.
Refuse(i) ==
  /\ Fresh(i)
  /\ st' = [st EXCEPT !["A"][i] = "used"]
  /\ Verified(i)
  /\ ab' = [ab EXCEPT !["A"][i] = IF @ = "none" THEN "sent" ELSE @]
  /\ UNCHANGED <<entries, fatal>>

\* The first PIPE_ACK entry or record for the attachment confirms it; J acknowledges
\* what A wrote on it.
Confirm(i) ==
  /\ st["J"][i] = "joining" /\ st["A"][i] \in {"live", "ended", "retired"}
  /\ st' = [st EXCEPT !["J"][i] = "live"]
  /\ entries' = entries \union {i}
  /\ UNCHANGED <<high, bits, ab, fatal>>

-----------------------------------------------------------------------------
(* Removal, at either end.                                                 *)

\* Both directions of i end at e, which sends PIPE_ABANDON unless it did before.
EndAt(e, i, abandons) ==
  /\ st' = [st EXCEPT ![e][i] = "ended"]
  /\ ab' = [abandons EXCEPT ![e][i] = IF @ = "none" THEN "sent" ELSE @]

\* The carrier fails or is closed by the peer, the join is not confirmed in time, or
\* the end removes the attachment: its application does, or A cannot keep it.
Fail(e, i) ==
  /\ st[e][i] \in {"joining", "live"}
  /\ EndAt(e, i, ab)
  /\ UNCHANGED <<high, bits, entries, fatal>>

CarrierCloses(e, i) == st[Peer(e)][i] \in {"ended", "used", "retired"} /\ Fail(e, i)
JoinTimeout(i) == st["J"][i] = "joining" /\ Fail("J", i)

\* The frame of e arrives, for the first time or again.
Arrives(e, i) == [ab EXCEPT ![e][i] = IF @ = "sent" THEN "arrived" ELSE @]

\* J ends the attachment and answers, once.  For an ID that it has not taken the frame
\* is fatal; for one that is gone it does nothing.
JRecvAbandon(i) ==
  /\ ab["A"][i] # "none"
  /\ fatal' = (fatal \/ ~Taken(i))
  /\ IF st["J"][i] \in {"joining", "live"}
     THEN EndAt("J", i, Arrives("A", i))
     ELSE ab' = Arrives("A", i) /\ UNCHANGED st
  /\ UNCHANGED <<high, bits, entries>>

\* A ends what is attached and answers, once.  An ID it has not seen is used up and
\* answered if the bitmap covers it; anything else is ignored.
ARecvAbandon(i) ==
  /\ ab["J"][i] # "none"
  /\ \/ /\ st["A"][i] = "live"
        /\ EndAt("A", i, Arrives("J", i))
        /\ UNCHANGED bits
     \/ /\ ~HasState("A", i) /\ Covered(i) /\ i \notin bits
        /\ bits' = bits \union {i}
        /\ st' = [st EXCEPT !["A"][i] = "used"]
        /\ ab' = [Arrives("J", i) EXCEPT !["A"][i] = "sent"]
     \/ /\ st["A"][i] # "live" /\ (HasState("A", i) \/ Spent(i) \/ ~Covered(i))
        /\ ab' = Arrives("J", i)
        /\ UNCHANGED <<st, bits>>
  /\ UNCHANGED <<high, entries, fatal>>

\* The record that carried it is acknowledged, whatever the peer made of the frame.
Acked(e, i) ==
  /\ ab[e][i] = "arrived"
  /\ ab' = [ab EXCEPT ![e][i] = "acked"]
  /\ UNCHANGED <<st, high, bits, entries, fatal>>

\* Faulty variant: the state of an attachment goes only when the peer has answered.
RetireAnswered(e, i) ==
  /\ st[e][i] = "ended" /\ ab[e][i] = "acked" /\ ab[Peer(e)][i] \in {"arrived", "acked"}
  /\ st' = [st EXCEPT ![e][i] = "retired"]
  /\ UNCHANGED <<high, bits, ab, entries, fatal>>

\* Faulty variant: the bit goes with the state of the attachment.
RetireWithBit(e, i) ==
  /\ st[e][i] = "ended" /\ ab[e][i] = "acked"
  /\ st' = [st EXCEPT ![e][i] = "retired"]
  /\ bits' = IF e = "A" THEN bits \ {i} ELSE bits
  /\ UNCHANGED <<high, ab, entries, fatal>>

\* The state of the attachment goes: the own PIPE_ABANDON is acknowledged and the
\* peer's has arrived, or has not for max(2 s, 3 PTO).  The bit of the ID stays.
Retire(e, i) ==
  /\ st[e][i] = "ended" /\ ab[e][i] = "acked"
  /\ st' = [st EXCEPT ![e][i] = "retired"]
  /\ UNCHANGED <<high, bits, ab, entries, fatal>>

\* A PIPE_ACK of J arrives that lists i.  For a pipe that is gone the entry is ignored;
\* for one that never was it claims data never sent.
RecvEntry(i) ==
  /\ i \in entries
  /\ fatal' = (fatal \/ ~(HasState("A", i) \/ Spent(i)))
  /\ UNCHANGED <<st, high, bits, ab, entries>>

-----------------------------------------------------------------------------
Next ==
  \E i \in Id :
    \/ Join(i) \/ Confirm(i) \/ JRecvAbandon(i)
    \/ Attach(i) \/ Refuse(i) \/ ARecvAbandon(i) \/ RecvEntry(i)
    \/ \E e \in Side : Fail(e, i) \/ Acked(e, i) \/ Retire(e, i)

Spec == Init /\ [][Next]_vars

\* Fairness: the PIPE_ABANDON of an attachment is sent until it is acknowledged, the end
\* of a carrier is seen, and timers expire.  A join need not arrive, nor the
\* PIPE_ABANDON of one that was refused, and no end has to remove anything.  Each of
\* these steps is taken finitely often: fairness to all of them is fairness to each.
RemovalStep ==
  \E i \in Id :
    \/ JoinTimeout(i)
    \/ HasState("A", i) /\ ab["A"][i] = "sent" /\ JRecvAbandon(i)
    \/ HasState("J", i) /\ ab["J"][i] = "sent" /\ ARecvAbandon(i)
    \/ \E e \in Side : CarrierCloses(e, i) \/ Acked(e, i) \/ Retire(e, i)

FairSpec == Spec /\ WF_vars(RemovalStep)

-----------------------------------------------------------------------------
(* Properties.                                                             *)

\* A pipe ID is attached once: a join that arrives again, or after its ID was refused,
\* abandoned unseen, ended or retired, attaches nothing, although A forgets both the
\* attachment and, in time, its bit (replay, replay_window, abandoned_id_is_used).
UsedOnce == [][\A i \in Id : st["A"][i] \notin {"none", "live"} => st'["A"][i] # "live"]_vars

\* Whatever overtakes what, neither end takes the other's PIPE_ABANDON or PIPE_ACK entry
\* for one that names an attachment it cannot know of (retired_entry_ignored,
\* unknown_peer_id_nonzero_position, untaken_own_parity, abandon_own_untaken_id).
NeverFatal == ~fatal

\* An attachment that has ended for one end goes from both, also one whose join arrives
\* after J gave it up: no state stays for ever.  An ID changes finitely often, so that
\* it holds again and again says that each goes.
Retires ==
  []<>(\A i \in Id : (st["A"][i] = "ended" \/ st["J"][i] \in {"ended", "retired"})
                       => ~HasState("J", i) /\ ~HasState("A", i))
=============================================================================
