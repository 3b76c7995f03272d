--------------------------- MODULE SessionProofs ----------------------------
(***************************************************************************)
(* Theorems about Session, for any configuration of the ends, in four parts, *)
(* each with an invariant of its own that rests on those before it:          *)
(*   IInv     the types, the roles, and what becomes of early data;          *)
(*   Pings    the QX_PING exchange of each end, under way, owed or answered; *)
(*   Reasons  the ends that have ended, and what their peers will read;      *)
(*   Lasting  the idle timers of both ends while one sends keep-alives.      *)
(* The first two hold for any timers, the others for TimeAssumption.         *)
(***************************************************************************)
EXTENDS Session, TLAPS

Rejection == "EARLY_DATA_REJECTED"
Past      == {"closing", "closed"}

\* An end has the role that it resolves, or none yet.
Resolved(e) == Resolve(cfg[e].role, cfg[Peer(e)].role, Transport(e))
Roles == \A e \in End : s[e].role = "none" \/ s[e].role = Resolved(e)

\* Only an end that accepts early data has processed some, and only one that has a
\* reason reports a rejection.
Processed == \A e \in End : s[e].took => Acks /\ cfg[e].room # "none"
Rejects   == \A e \in End : s[e].report[1] = Rejection => EarlyRejected(cfg[e], cfg[Peer(e)])

\* Early data is behind a fence, until its reader has gone past it with
\* acknowledgement, or has given up the session.
Guarded(q) == \A i \in 1..Len(q) : q[i].k = "EARLY" => \E j \in 1..(i - 1) : q[j].k = "FENCE"
Coded(q)   == \A i \in 1..Len(q) : q[i].code # Rejection
Safe(e)    == Acks \/ s[Peer(e)].st \in Past

Channels == \A e \in End : Coded(chan[e]) /\ (Safe(e) \/ Guarded(chan[e]))

IInv == TypeOK /\ Roles /\ Processed /\ Rejects /\ Channels

-----------------------------------------------------------------------------
(* The ends, and what they resolve.                                        *)

LEMMA Ends2 == \A e \in End : /\ Peer(e) \in End /\ Peer(Peer(e)) = e /\ Peer(e) # e
                              /\ Transport(Peer(e)) = Opposite(Transport(e))
                              /\ Transport(e) \in {"initiator", "responder"}
                              /\ \A d \in End : d = e \/ d = Peer(e)
  BY DEF End, Peer, Transport, Opposite

LEMMA Ordered == \A m, n \in Nat : m = n \/ m > n \/ n > m
  OBVIOUS

LEMMA Resolution ==
  ASSUME NEW own \in [kind : Kinds, nonce : Nat], NEW peer \in [kind : Kinds, nonce : Nat],
         NEW t \in {"initiator", "responder"}
  PROVE  /\ Resolve(own, peer, t) \in {"initiator", "responder", "conflict"}
         /\ Resolve(own, peer, t) = "conflict" \/
            Resolve(peer, own, Opposite(t)) # Resolve(own, peer, t)
<1>1. /\ own.kind \in Kinds /\ peer.kind \in Kinds
      /\ own.nonce \in Nat /\ peer.nonce \in Nat
  OBVIOUS
<1>2. CASE own.kind = "auto" /\ peer.kind = "auto"
  <2>1. /\ Resolve(own, peer, t) = IF own.nonce = peer.nonce THEN "conflict"
                                   ELSE IF own.nonce > peer.nonce THEN "initiator" ELSE "responder"
        /\ Resolve(peer, own, Opposite(t)) =
             IF peer.nonce = own.nonce THEN "conflict"
             ELSE IF peer.nonce > own.nonce THEN "initiator" ELSE "responder"
    BY <1>2 DEF Resolve
  <2> QED BY <1>1, <2>1
<1>3. CASE own.kind = "none" \/ peer.kind = "none"
  <2>1. "none" \in {own.kind, peer.kind} /\ "none" \in {peer.kind, own.kind}
    BY <1>3
  <2>2. Resolve(own, peer, t) = IF own.kind = Opposite(t) THEN "conflict" ELSE t
    BY <2>1 DEF Resolve
  <2>3. Resolve(peer, own, Opposite(t)) =
          IF peer.kind = Opposite(Opposite(t)) THEN "conflict" ELSE Opposite(t)
    BY <2>1 DEF Resolve
  <2> QED BY <2>2, <2>3 DEF Opposite
<1>4. CASE own.kind # "none" /\ peer.kind # "none" /\ own.kind = "auto" /\ peer.kind # "auto"
  <2>1. "none" \notin {own.kind, peer.kind} /\ "none" \notin {peer.kind, own.kind}
    BY <1>4
  <2>2. /\ Resolve(own, peer, t) = Opposite(peer.kind)
        /\ Resolve(peer, own, Opposite(t)) = peer.kind
    BY <1>4, <2>1 DEF Resolve
  <2> QED BY <1>1, <1>4, <2>2 DEF Opposite, Kinds
<1>5. CASE own.kind # "none" /\ peer.kind # "none" /\ own.kind # "auto" /\ peer.kind = "auto"
  <2>1. "none" \notin {own.kind, peer.kind} /\ "none" \notin {peer.kind, own.kind}
    BY <1>5
  <2>2. /\ Resolve(own, peer, t) = own.kind
        /\ Resolve(peer, own, Opposite(t)) = Opposite(own.kind)
    BY <1>5, <2>1 DEF Resolve
  <2> QED BY <1>1, <1>5, <2>2 DEF Opposite, Kinds
<1>6. CASE own.kind # "none" /\ peer.kind # "none" /\ own.kind # "auto" /\ peer.kind # "auto"
  <2>1. "none" \notin {own.kind, peer.kind} /\ "none" \notin {peer.kind, own.kind}
    BY <1>6
  <2>2. /\ Resolve(own, peer, t) = IF own.kind = peer.kind THEN "conflict" ELSE own.kind
        /\ Resolve(peer, own, Opposite(t)) = IF peer.kind = own.kind THEN "conflict" ELSE peer.kind
    BY <1>6, <2>1 DEF Resolve
  <2> QED BY <1>1, <1>6, <2>2 DEF Kinds
<1> QED BY <1>2, <1>3, <1>4, <1>5, <1>6

\* The roles of a configuration are what Resolution is about.
LEMMA Configured ==
  ASSUME TypeOK, NEW e \in End
  PROVE  cfg[e].role \in [kind : Kinds, nonce : Nat]
<1>1. cfg[e] \in UNION {{c[1], c[2]} : c \in Configs}
  BY DEF TypeOK
<1>2. PICK c \in Configs : cfg[e] \in {c[1], c[2]}
  BY <1>1
<1> QED BY <1>2, ConfigAssumption

-----------------------------------------------------------------------------
(* Queues of frames.                                                       *)

LEMMA EmptyQueue == <<>> \in Seq(Message) /\ Coded(<<>>) /\ Guarded(<<>>)
  BY DEF Coded, Guarded

LEMMA Appended ==
  ASSUME NEW q \in Seq(Message), NEW r \in Seq(Message), Coded(q), Coded(r)
  PROVE  /\ q \o r \in Seq(Message) /\ Coded(q \o r)
         /\ Guarded(q) /\ Guarded(r) => Guarded(q \o r)
<1>1. /\ q \o r \in Seq(Message) /\ Len(q \o r) = Len(q) + Len(r)
      /\ Len(q) \in Nat /\ Len(r) \in Nat
      /\ \A i \in 1..(Len(q) + Len(r)) : (q \o r)[i] = IF i <= Len(q) THEN q[i] ELSE r[i - Len(q)]
  OBVIOUS
<1>2. \A i \in 1..(Len(q) + Len(r)) : i <= Len(q) \/ i - Len(q) \in 1..Len(r)
  BY <1>1
<1>3. Coded(q \o r)
  BY <1>1, <1>2 DEF Coded
<1>4. ASSUME Guarded(q), Guarded(r) PROVE Guarded(q \o r)
  <2>1. ASSUME NEW i \in 1..(Len(q) + Len(r)), (q \o r)[i].k = "EARLY"
        PROVE  \E j \in 1..(i - 1) : (q \o r)[j].k = "FENCE"
    <3>1. CASE i <= Len(q)
      <4>1. PICK j \in 1..(i - 1) : q[j].k = "FENCE"
        BY <1>1, <1>4, <2>1, <3>1 DEF Guarded
      <4>2. (q \o r)[j].k = "FENCE"
        BY <1>1, <3>1, <4>1
      <4> QED BY <4>2
    <3>2. CASE ~(i <= Len(q))
      <4>1. i - Len(q) \in 1..Len(r) /\ r[i - Len(q)].k = "EARLY"
        BY <1>1, <1>2, <2>1, <3>2
      <4>2. PICK j \in 1..(i - Len(q) - 1) : r[j].k = "FENCE"
        BY <1>4, <4>1 DEF Guarded
      <4>3. /\ j + Len(q) \in 1..(i - 1) /\ j + Len(q) \in 1..(Len(q) + Len(r))
            /\ ~(j + Len(q) <= Len(q)) /\ (j + Len(q)) - Len(q) = j
        BY <1>1, <3>2, <4>1, <4>2
      <4>4. (q \o r)[j + Len(q)].k = "FENCE"
        BY <1>1, <4>2, <4>3
      <4> QED BY <4>3, <4>4
    <3> QED BY <3>1, <3>2
  <2> QED BY <1>1, <2>1 DEF Guarded
<1> QED BY <1>1, <1>3, <1>4

LEMMA Consumed ==
  ASSUME NEW q \in Seq(Message), q # <<>>, Coded(q)
  PROVE  /\ Tail(q) \in Seq(Message) /\ Coded(Tail(q))
         /\ Guarded(q) /\ Head(q).k # "FENCE" => Guarded(Tail(q))
         /\ Head(q) \in Message /\ Head(q).code # Rejection
         /\ Guarded(q) => Head(q).k # "EARLY"
<1>1. /\ Tail(q) \in Seq(Message) /\ Len(Tail(q)) = Len(q) - 1 /\ Len(q) \in Nat /\ Len(q) >= 1
      /\ \A i \in 1..(Len(q) - 1) : Tail(q)[i] = q[i + 1] /\ i + 1 \in 1..Len(q)
      /\ Head(q) = q[1] /\ Head(q) \in Message
  OBVIOUS
<1>2. Coded(Tail(q)) /\ Head(q).code # Rejection
  BY <1>1 DEF Coded
<1>3. ASSUME Guarded(q), Head(q).k # "FENCE" PROVE Guarded(Tail(q))
  <2>1. ASSUME NEW i \in 1..(Len(q) - 1), Tail(q)[i].k = "EARLY"
        PROVE  \E j \in 1..(i - 1) : Tail(q)[j].k = "FENCE"
    <3>1. PICK j \in 1..i : q[j].k = "FENCE"
      <4>1. i + 1 \in 1..Len(q) /\ q[i + 1].k = "EARLY" /\ (i + 1) - 1 = i
        BY <1>1, <2>1
      <4> QED BY <1>3, <4>1 DEF Guarded
    <3>2. j # 1
      BY <1>1, <1>3, <3>1
    <3>3. j - 1 \in 1..(i - 1) /\ j - 1 \in 1..(Len(q) - 1) /\ (j - 1) + 1 = j
      BY <1>1, <3>1, <3>2
    <3>4. Tail(q)[j - 1].k = "FENCE"
      BY <1>1, <3>1, <3>3
    <3> QED BY <3>3, <3>4
  <2> QED BY <1>1, <2>1 DEF Guarded
<1>4. Guarded(q) => Head(q).k # "EARLY"
  BY <1>1 DEF Guarded
<1> QED BY <1>1, <1>2, <1>3, <1>4

-----------------------------------------------------------------------------
(* What a step may do to an end.                                           *)

Lawful(e, new) ==
  /\ new \in Endpoint
  /\ new.role = s[e].role \/ new.role = Resolved(e)
  /\ new.took => s[e].took \/ (Acks /\ cfg[e].room # "none")
  /\ new.report[1] = Rejection =>
       s[e].report[1] = Rejection \/ EarlyRejected(cfg[e], cfg[Peer(e)])
  /\ s[e].st \in Past => new.st \in Past

\* What it does to the frames e has sent.
Proper(e) == /\ chan'[e] \in Seq(Message) /\ Coded(chan'[e])
             /\ Safe(e)' \/ Guarded(chan'[e])

LEMMA StepKeeps ==
  ASSUME IInv, UNCHANGED cfg, s' \in [End -> Endpoint], \A e \in End : Lawful(e, s'[e]),
         chan' \in [End -> Seq(Message)], \A e \in End : Proper(e),
         carrier' \in {"up", "stalled", "cut", "gone"}
  PROVE  IInv'
<1>1. TypeOK'
  BY DEF IInv, TypeOK
<1>2. \A e \in End : Resolved(e)' = Resolved(e)
  BY DEF Resolved
<1>3. Roles'
  BY <1>2 DEF IInv, Roles, Lawful
<1>4. Acks' = Acks
  BY DEF Acks
<1>5. Processed'
  BY <1>4 DEF IInv, Processed, Lawful
<1>6. Rejects'
  BY DEF IInv, Rejects, Lawful
<1>7. Channels'
  BY DEF Channels, Proper
<1> QED BY <1>1, <1>3, <1>5, <1>6, <1>7 DEF IInv

\* An end that stays as it is.
LEMMA StaysLawful == ASSUME TypeOK, NEW e \in End PROVE s[e] \in Endpoint /\ Lawful(e, s[e])
  BY DEF TypeOK, Lawful

\* Whoever was safe stays safe, since no end returns from the end of the session.
LEMMA StaysSafe ==
  ASSUME UNCHANGED cfg, NEW e \in End, Lawful(Peer(e), s'[Peer(e)]), Safe(e)
  PROVE  Safe(e)'
<1>1. Acks' = Acks
  BY DEF Acks
<1> QED BY <1>1 DEF Safe, Lawful

LEMMA DoKeeps ==
  ASSUME IInv, NEW e \in End, NEW new, NEW frames \in Seq(Message), Do(e, new, frames),
         Lawful(e, new), Coded(frames), Guarded(frames)
  PROVE  IInv'
<1>1. /\ s' = [s EXCEPT ![e] = new] /\ UNCHANGED <<cfg, carrier>>
      /\ chan' = [chan EXCEPT ![e] = IF carrier = "up" THEN chan[e] \o frames ELSE chan[e]]
  BY DEF Do, Sent
<1>2. TypeOK /\ Channels
  BY DEF IInv
<1>3. s' \in [End -> Endpoint] /\ s'[e] = new /\ s'[Peer(e)] = s[Peer(e)]
  BY <1>1, <1>2, Ends2 DEF TypeOK, Lawful
<1>4. \A d \in End : Lawful(d, s'[d])
  BY <1>2, <1>3, Ends2, StaysLawful
<1>5. chan[e] \in Seq(Message) /\ chan[Peer(e)] \in Seq(Message) /\ chan \in [End -> Seq(Message)]
  BY <1>2, Ends2 DEF TypeOK
<1>6. /\ chan[e] \o frames \in Seq(Message) /\ Coded(chan[e] \o frames)
      /\ Guarded(chan[e]) => Guarded(chan[e] \o frames)
  BY <1>2, <1>5, Appended DEF Channels
<1>7. /\ chan' \in [End -> Seq(Message)] /\ chan'[Peer(e)] = chan[Peer(e)]
      /\ chan'[e] \in {chan[e], chan[e] \o frames}
  BY <1>1, <1>5, <1>6, Ends2
<1>8. \A d \in End : Safe(d) => Safe(d)'
  BY <1>1, <1>4, StaysSafe, Ends2
<1>9. Coded(chan'[e]) /\ (Guarded(chan[e]) => Guarded(chan'[e]))
  BY <1>2, <1>6, <1>7 DEF Channels
<1>10. \A d \in End : Proper(d)
  <2>1. Proper(e)
    BY <1>2, <1>7, <1>8, <1>9 DEF Channels, Proper
  <2>2. Proper(Peer(e))
    BY <1>2, <1>7, <1>8, Ends2 DEF Channels, Proper
  <2> QED BY <2>1, <2>2, Ends2
<1>11. carrier' \in {"up", "stalled", "cut", "gone"}
  BY <1>1, <1>2 DEF TypeOK
<1> QED BY <1>1, <1>3, <1>4, <1>7, <1>10, <1>11, StepKeeps

\* The queue that e reads from is one shorter; a fence that goes was meant for e.
LEMMA TailProper ==
  ASSUME IInv, NEW e \in End, chan[Peer(e)] # <<>>,
         chan'[Peer(e)] = Tail(chan[Peer(e)]), Safe(Peer(e)) => Safe(Peer(e))',
         Head(chan[Peer(e)]).k = "FENCE" => Safe(Peer(e))'
  PROVE  Proper(Peer(e))
<1>1. chan[Peer(e)] \in Seq(Message) /\ Coded(chan[Peer(e)])
  BY Ends2 DEF IInv, TypeOK, Channels
<1>2. /\ Tail(chan[Peer(e)]) \in Seq(Message) /\ Coded(Tail(chan[Peer(e)]))
      /\ Guarded(chan[Peer(e)]) /\ Head(chan[Peer(e)]).k # "FENCE" => Guarded(Tail(chan[Peer(e)]))
  BY <1>1, Consumed
<1>3. Safe(Peer(e)) \/ Guarded(chan[Peer(e)])
  BY Ends2 DEF IInv, Channels
<1> QED BY <1>2, <1>3 DEF Proper

LEMMA ReadsKeeps ==
  ASSUME IInv, NEW e \in End, NEW new, NEW frames \in Seq(Message), Reads(e, new, frames),
         Lawful(e, new), Coded(frames), Guarded(frames), chan[Peer(e)] # <<>>,
         Head(chan[Peer(e)]).k = "FENCE" => Acks \/ new.st \in Past
  PROVE  IInv'
<1>1. /\ s' = [s EXCEPT ![e] = new] /\ UNCHANGED <<cfg, carrier>>
      /\ chan' = [chan EXCEPT ![e] = IF carrier = "up" THEN chan[e] \o frames ELSE chan[e],
                              ![Peer(e)] = Tail(@)]
  BY DEF Reads, Sent
<1>2. TypeOK /\ Channels
  BY DEF IInv
<1>3. s' \in [End -> Endpoint] /\ s'[e] = new /\ s'[Peer(e)] = s[Peer(e)]
  BY <1>1, <1>2, Ends2 DEF TypeOK, Lawful
<1>4. \A d \in End : Lawful(d, s'[d])
  BY <1>2, <1>3, Ends2, StaysLawful
<1>5. chan[e] \in Seq(Message) /\ chan[Peer(e)] \in Seq(Message) /\ chan \in [End -> Seq(Message)]
  BY <1>2, Ends2 DEF TypeOK
<1>6. /\ chan[e] \o frames \in Seq(Message) /\ Coded(chan[e] \o frames)
      /\ Guarded(chan[e]) => Guarded(chan[e] \o frames)
      /\ Tail(chan[Peer(e)]) \in Seq(Message)
  <2>1. Coded(chan[e]) /\ Coded(chan[Peer(e)])
    BY <1>2, Ends2 DEF Channels
  <2> QED BY <1>5, <2>1, Appended, Consumed
<1>7. /\ chan' \in [End -> Seq(Message)] /\ chan'[Peer(e)] = Tail(chan[Peer(e)])
      /\ chan'[e] \in {chan[e], chan[e] \o frames}
  BY <1>1, <1>5, <1>6, Ends2
<1>8. \A d \in End : Safe(d) => Safe(d)'
  BY <1>1, <1>4, StaysSafe, Ends2
<1>9. Coded(chan'[e]) /\ (Guarded(chan[e]) => Guarded(chan'[e]))
  BY <1>2, <1>6, <1>7 DEF Channels
<1>10. Head(chan[Peer(e)]).k = "FENCE" => Safe(Peer(e))'
  <2>1. Acks' = Acks /\ Peer(Peer(e)) = e
    BY <1>1, Ends2 DEF Acks
  <2> QED BY <1>3, <2>1 DEF Safe
<1>11. \A d \in End : Proper(d)
  <2>1. Proper(e)
    BY <1>2, <1>7, <1>8, <1>9 DEF Channels, Proper
  <2>2. Proper(Peer(e))
    BY <1>7, <1>8, <1>10, Ends2, TailProper
  <2> QED BY <2>1, <2>2, Ends2
<1>12. carrier' \in {"up", "stalled", "cut", "gone"}
  BY <1>1, <1>2 DEF TypeOK
<1> QED BY <1>1, <1>3, <1>4, <1>7, <1>11, <1>12, StepKeeps

-----------------------------------------------------------------------------
(* The frames that are sent.                                               *)

LEMMA Frames ==
  ASSUME NEW k \in FrameKinds \ {"EARLY"}, NEW n \in 0..MaxPings
  PROVE  <<Frame(k, n)>> \in Seq(Message) /\ Coded(<<Frame(k, n)>>) /\ Guarded(<<Frame(k, n)>>)
<1>1. /\ Frame(k, n) \in Message /\ Frame(k, n).code # Rejection /\ Frame(k, n).k # "EARLY"
  BY BoundAssumption DEF Frame, Message, FrameKinds, Codes, Rejection
<1>2. /\ Len(<<Frame(k, n)>>) = 1 /\ <<Frame(k, n)>>[1] = Frame(k, n)
      /\ <<Frame(k, n)>> \in Seq(Message)
  BY <1>1
<1> QED BY <1>1, <1>2 DEF Coded, Guarded

LEMMA Signals ==
  ASSUME NEW k \in FrameKinds
  PROVE  /\ Signal(k) \in Message /\ Signal(k).code # Rejection /\ Signal(k).k = k
         /\ k # "EARLY" => /\ <<Signal(k)>> \in Seq(Message)
                           /\ Coded(<<Signal(k)>>) /\ Guarded(<<Signal(k)>>)
<1>1. 0 \in 0..MaxPings
  BY BoundAssumption
<1>2. /\ Signal(k) \in Message /\ Signal(k).code # Rejection /\ Signal(k).k = k
  BY BoundAssumption DEF Frame, Signal, Message, Codes, Rejection
<1> QED BY <1>1, <1>2, Frames DEF Signal

LEMMA Closes ==
  ASSUME NEW code \in Codes \ {Rejection}
  PROVE  /\ <<Close(code), EOF>> \in Seq(Message)
         /\ Coded(<<Close(code), EOF>>) /\ Guarded(<<Close(code), EOF>>)
<1>1. Close(code) \in Message /\ Close(code).code = code /\ Close(code).k = "CLOSE"
  <2>1. Signal("CLOSE") \in Message /\ Signal("CLOSE").k = "CLOSE" /\ code \in Codes
    BY Signals DEF FrameKinds
  <2> QED BY <2>1 DEF Close, Message
<1>2. EOF \in Message /\ EOF.code # Rejection /\ EOF.k = "EOF"
  BY Signals DEF EOF, FrameKinds
<1> DEFINE q == <<Close(code), EOF>>
<1>3. q \in Seq(Message) /\ Len(q) = 2 /\ q[1] = Close(code) /\ q[2] = EOF
  BY <1>1, <1>2
<1> HIDE DEF q
<1>4. \A i \in 1..Len(q) : i = 1 \/ i = 2
  BY <1>3
<1>5. Coded(q) /\ Guarded(q)
  BY <1>1, <1>2, <1>3, <1>4 DEF Coded, Guarded
<1> QED BY <1>3, <1>5 DEF q

LEMMA Openings ==
  ASSUME NEW early \in BOOLEAN
  PROVE  Opening(early) \in Seq(Message) /\ Coded(Opening(early)) /\ Guarded(Opening(early))
<1>1. /\ "TP" \in FrameKinds \ {"EARLY"} /\ "FENCE" \in FrameKinds /\ "EARLY" \in FrameKinds
  BY DEF FrameKinds
<1>2. CASE ~early
  BY <1>1, <1>2, Signals DEF Opening
<1>3. CASE early
  <2> DEFINE q == <<Signal("TP"), Signal("FENCE"), Signal("EARLY")>>
  <2>1. /\ Signal("TP") \in Message /\ Signal("FENCE") \in Message /\ Signal("EARLY") \in Message
        /\ Signal("TP").code # Rejection /\ Signal("FENCE").code # Rejection
        /\ Signal("EARLY").code # Rejection /\ Signal("TP").k = "TP" /\ Signal("FENCE").k = "FENCE"
    BY <1>1, Signals
  <2>2. /\ q \in Seq(Message) /\ Len(q) = 3
        /\ q[1] = Signal("TP") /\ q[2] = Signal("FENCE") /\ q[3] = Signal("EARLY")
    BY <2>1
  <2>3. Opening(early) = q
    BY <1>3 DEF Opening
  <2> HIDE DEF q
  <2>4. \A i \in 1..Len(q) : i = 1 \/ i = 2 \/ i = 3
    BY <2>2
  <2>5. Coded(q)
    BY <2>1, <2>2, <2>4 DEF Coded
  <2>6. Guarded(q)
    <3>1. 2 \in 1..(3 - 1) /\ q[2].k = "FENCE" /\ q[1].k # "EARLY" /\ q[2].k # "EARLY"
      BY <2>1, <2>2
    <3> QED BY <2>4, <3>1 DEF Guarded
  <2> QED BY <2>2, <2>3, <2>5, <2>6
<1> QED BY <1>2, <1>3

LEMMA Wires == \A code \in Codes : Wire(code) \in Codes \ {Rejection}
  BY DEF Wire, Codes, Rejection

-----------------------------------------------------------------------------
(* New states of an end.                                                   *)

\* Everything that this module speaks of stays.
Alike(x, y) == /\ y \in Endpoint
               /\ y.st = x.st /\ y.role = x.role /\ y.took = x.took /\ y.report = x.report

LEMMA AlikeLawful ==
  ASSUME TypeOK, NEW e \in End, NEW y, Alike(s[e], y) PROVE Lawful(e, y)
  BY DEF Alike, Lawful

LEMMA Touched ==
  ASSUME NEW x \in Endpoint
  PROVE  Alike(x, Active(x)) /\ Alike(x, Heard(x)) /\ Alike(x, Passed(x))
<1>1. Alike(x, x)
  BY DEF Alike
<1>2. Alike(x, Active(x))
  BY DEF Alike, Active, Endpoint
<1>3. Acks \in BOOLEAN
  BY DEF Acks, AckInUse
<1>4. Alike(x, Heard(x))
  <2>1. Active(x) \in Endpoint
    BY <1>2 DEF Alike
  <2>2. Alike(Active(x), [Active(x) EXCEPT !.ackDue = Acks])
    BY <1>3, <2>1 DEF Alike, Endpoint
  <2> QED BY <1>2, <2>2 DEF Alike, Heard
<1> QED BY <1>1, <1>2, <1>4 DEF Passed

LEMMA OverLawful ==
  ASSUME TypeOK, NEW e \in End, NEW code \in Codes, NEW whose \in {"none", "local", "remote"},
         code = Rejection => EarlyRejected(cfg[e], cfg[Peer(e)])
  PROVE  /\ Lawful(e, Over(s[e], code, whose)) /\ Over(s[e], code, whose).st \in Past
         /\ Lawful(e, [Over(s[e], code, whose) EXCEPT !.st = "closed"])
<1>1. s[e] \in Endpoint
  BY DEF TypeOK
<1>2. /\ 0 \in 0..MaxPings /\ 0 \in 0..MaxData /\ Budget \in 0..Budget /\ 0 \in Nat
      /\ <<code, whose>> \in Codes \X {"none", "local", "remote"} /\ <<code, whose>>[1] = code
  BY BoundAssumption
<1>3. /\ None \in Codes \X {"none", "local", "remote"}
  BY DEF None, Codes
<1>4. New \in Endpoint
  BY <1>2, <1>3 DEF New, Endpoint
<1> DEFINE y == Over(s[e], code, whose)
<1>5. /\ y \in Endpoint /\ y.st = "closing" /\ y.report = <<code, whose>>
      /\ y.role = s[e].role /\ y.took = s[e].took
  BY <1>1, <1>2, <1>4 DEF Over, Endpoint
<1> HIDE DEF y
<1> DEFINE z == [y EXCEPT !.st = "closed"]
<1>6. /\ z \in Endpoint /\ z.st = "closed" /\ z.report = <<code, whose>>
      /\ z.role = s[e].role /\ z.took = s[e].took
  BY <1>5 DEF Endpoint
<1> HIDE DEF z
<1>7. Lawful(e, y) /\ y.st \in Past
  BY <1>2, <1>5 DEF Lawful, Past
<1>8. Lawful(e, z)
  BY <1>2, <1>6 DEF Lawful, Past
<1> QED BY <1>7, <1>8 DEF y, z

LEMMA FailKeeps ==
  ASSUME IInv, NEW e \in End, NEW code \in Codes, Fail(e, code), chan[Peer(e)] # <<>>,
         code = Rejection => EarlyRejected(cfg[e], cfg[Peer(e)])
  PROVE  IInv'
<1> DEFINE new == Over(s[e], code, "local")
           frames == <<Close(Wire(code)), EOF>>
<1>1. Reads(e, new, frames)
  BY DEF Fail
<1>2. Lawful(e, new) /\ new.st \in Past
  BY OverLawful DEF IInv
<1>3. frames \in Seq(Message) /\ Coded(frames) /\ Guarded(frames)
  BY Wires, Closes
<1> HIDE DEF new, frames
<1> QED BY <1>1, <1>2, <1>3, ReadsKeeps

\* A step of one end that also decides what is left to read of the other.
LEMMA EndKeeps ==
  ASSUME IInv, NEW e \in End, NEW new, Lawful(e, new), s' = [s EXCEPT ![e] = new],
         UNCHANGED cfg, carrier' \in {"up", "stalled", "cut", "gone"},
         NEW q \in Seq(Message), chan' = [chan EXCEPT ![Peer(e)] = q], Coded(q),
         new.st \in Past \/ Guarded(q) \/ (q = chan[Peer(e)])
  PROVE  IInv'
<1>1. TypeOK /\ Channels /\ Acks' = Acks
  BY DEF IInv, Acks
<1>2. s' \in [End -> Endpoint] /\ s'[e] = new /\ s'[Peer(e)] = s[Peer(e)]
  BY <1>1, Ends2 DEF TypeOK, Lawful
<1>3. \A d \in End : Lawful(d, s'[d])
  BY <1>1, <1>2, Ends2, StaysLawful
<1>4. /\ chan' \in [End -> Seq(Message)] /\ chan'[Peer(e)] = q /\ chan'[e] = chan[e]
      /\ chan[e] \in Seq(Message)
  BY <1>1, Ends2 DEF TypeOK
<1>5. \A d \in End : Safe(d) => Safe(d)'
  BY <1>3, StaysSafe, Ends2
<1>6. Proper(e)
  BY <1>1, <1>4, <1>5 DEF Channels, Proper
<1>7. Proper(Peer(e))
  <2>1. CASE new.st \in Past
    <3>1. Safe(Peer(e))'
      BY <1>1, <1>2, <2>1, Ends2 DEF Safe
    <3> QED BY <1>4, <3>1 DEF Proper
  <2>2. CASE Guarded(q)
    BY <1>4, <2>2 DEF Proper
  <2>3. CASE q = chan[Peer(e)]
    BY <1>1, <1>4, <1>5, <2>3, Ends2 DEF Channels, Proper
  <2> QED BY <2>1, <2>2, <2>3
<1>8. \A d \in End : Proper(d)
  BY <1>6, <1>7, Ends2
<1> QED BY <1>2, <1>3, <1>4, <1>8, StepKeeps

\* What is under way to e stays there.
LEMMA QueueStays ==
  ASSUME TypeOK, Channels, NEW e \in End
  PROVE  /\ chan = [chan EXCEPT ![Peer(e)] = chan[Peer(e)]]
         /\ chan[Peer(e)] \in Seq(Message) /\ Coded(chan[Peer(e)])
  BY Ends2 DEF TypeOK, Channels

LEMMA Extremes ==
  ASSUME NEW a \in Int, NEW b \in Int
  PROVE  /\ Min({a, b}) \in {a, b} /\ Min({a, b}) <= a /\ Min({a, b}) <= b
         /\ Max({a, b}) \in {a, b} /\ Max({a, b}) >= a /\ Max({a, b}) >= b
<1>1. \E x \in {a, b} : \A y \in {a, b} : x <= y
  <2>1. CASE a <= b
    BY <2>1
  <2>2. CASE b <= a
    BY <2>2
  <2> QED BY <2>1, <2>2
<1>2. \E x \in {a, b} : \A y \in {a, b} : x >= y
  <2>1. CASE a <= b
    BY <2>1
  <2>2. CASE b <= a
    BY <2>2
  <2> QED BY <2>1, <2>2
<1> QED BY <1>1, <1>2 DEF Min, Max

-----------------------------------------------------------------------------
(* The handshake.                                                          *)

LEMMA StartKeeps == ASSUME IInv, NEW e \in End, Start(e) PROVE IInv'
<1>1. PICK early \in BOOLEAN :
        Do(e, [s[e] EXCEPT !.st = "start", !.early = early], Opening(early))
  BY DEF Start, MayBeEarly
<1> DEFINE new == [s[e] EXCEPT !.st = "start", !.early = early]
<1>2. s[e] \in Endpoint /\ s[e].st = "new"
  BY DEF IInv, TypeOK, Start
<1>3. new \in Endpoint /\ new.role = s[e].role /\ new.took = s[e].took /\ new.report = s[e].report
  BY <1>2 DEF Endpoint
<1> HIDE DEF new
<1>4. Lawful(e, new)
  BY <1>2, <1>3 DEF Lawful, Past
<1>5. Do(e, new, Opening(early))
  BY <1>1 DEF new
<1> QED BY <1>4, <1>5, Openings, DoKeeps

LEMMA RecvParametersKeeps == ASSUME IInv, NEW e \in End, RecvParameters(e) PROVE IInv'
<1> DEFINE bad == Objections(cfg[e], cfg[Peer(e)], Transport(e), s[e].early)
           new == [s[e] EXCEPT !.st = "open", !.timer = 0, !.role = Resolved(e)]
<1>1. /\ s[e].st = "start" /\ chan[Peer(e)] # <<>> /\ Head(chan[Peer(e)]).k = "TP"
      /\ (bad = {} /\ Reads(e, new, <<>>)) \/ (\E code \in bad : Fail(e, code))
  BY DEF RecvParameters, On, Resolved
<1>2. TypeOK /\ s[e] \in Endpoint
  BY DEF IInv, TypeOK
<1>3. CASE bad = {} /\ Reads(e, new, <<>>)
  <2>1. Resolved(e) # "conflict"
    BY <1>3 DEF Objections, Resolved
  <2>2. Resolved(e) \in {"initiator", "responder"}
    BY <1>2, <2>1, Configured, Resolution, Ends2 DEF Resolved
  <2>3. new \in Endpoint /\ new.role = Resolved(e) /\ new.took = s[e].took /\ new.report = s[e].report
    BY <1>2, <2>2 DEF Endpoint
  <2>4. Reads(e, new, <<>>)
    BY <1>3
  <2> HIDE DEF new
  <2>5. Lawful(e, new)
    BY <1>1, <2>3 DEF Lawful, Past
  <2> QED BY <1>1, <2>4, <2>5, EmptyQueue, ReadsKeeps
<1>4. ASSUME NEW code \in bad, Fail(e, code) PROVE IInv'
  <2>1. code \in Codes
    BY DEF Objections, Codes
  <2>2. code = Rejection => EarlyRejected(cfg[e], cfg[Peer(e)])
    BY DEF Objections, Rejection
  <2> QED BY <1>1, <1>4, <2>1, <2>2, FailKeeps
<1> QED BY <1>1, <1>3, <1>4

LEMMA RecvFenceKeeps == ASSUME IInv, NEW e \in End, RecvFence(e) PROVE IInv'
<1>1. /\ chan[Peer(e)] # <<>>
      /\ IF Acks THEN Reads(e, s[e], <<>>) ELSE Fail(e, "FRAME_ENCODING_ERROR")
  BY DEF RecvFence, On
<1>2. Lawful(e, s[e])
  BY StaysLawful DEF IInv
<1>3. CASE Acks
  BY <1>1, <1>2, <1>3, EmptyQueue, ReadsKeeps
<1>4. CASE ~Acks
  BY <1>1, <1>4, FailKeeps DEF Codes, Rejection
<1> QED BY <1>3, <1>4

\* Without acknowledgement a fence would still be in front of it.
LEMMA RecvEarlyKeeps == ASSUME IInv, NEW e \in End, RecvEarly(e) PROVE IInv'
<1> DEFINE new == [Heard(s[e]) EXCEPT !.took = TRUE]
<1>1. /\ s[e].st = "open" /\ chan[Peer(e)] # <<>> /\ Head(chan[Peer(e)]).k = "EARLY"
      /\ IF cfg[e].room = "none" THEN Fail(e, "STREAM_LIMIT_ERROR") ELSE Reads(e, new, <<>>)
  BY DEF RecvEarly, On
<1>2. CASE cfg[e].room = "none"
  BY <1>1, <1>2, FailKeeps DEF Codes, Rejection
<1>3. CASE cfg[e].room # "none"
  <2>1. Acks
    <3>1. chan[Peer(e)] \in Seq(Message) /\ Coded(chan[Peer(e)])
      BY QueueStays DEF IInv
    <3>2. ~Guarded(chan[Peer(e)])
      BY <1>1, <3>1, Consumed
    <3>3. Safe(Peer(e)) /\ Peer(Peer(e)) = e
      BY <3>2, Ends2 DEF IInv, Channels
    <3> QED BY <1>1, <3>3 DEF Safe, Past
  <2>2. s[e] \in Endpoint
    BY DEF IInv, TypeOK
  <2>3. Alike(s[e], Heard(s[e])) /\ Heard(s[e]) \in Endpoint
    BY <2>2, Touched DEF Alike
  <2>4. /\ new \in Endpoint /\ new.role = s[e].role /\ new.report = s[e].report
        /\ new.st = s[e].st
    BY <2>3 DEF Alike, Endpoint
  <2>5. Reads(e, new, <<>>)
    BY <1>1, <1>3
  <2> HIDE DEF new
  <2>6. Lawful(e, new)
    BY <1>3, <2>1, <2>4 DEF Lawful
  <2> QED BY <1>1, <2>5, <2>6, EmptyQueue, ReadsKeeps
<1> QED BY <1>2, <1>3

LEMMA HandshakeTimesOutKeeps == ASSUME IInv, NEW e \in End, HandshakeTimesOut(e) PROVE IInv'
<1> DEFINE new == [Over(s[e], "HANDSHAKE_TIMEOUT", "local") EXCEPT !.st = "closed"]
<1>1. /\ s' = [s EXCEPT ![e] = new] /\ UNCHANGED <<cfg, chan>>
      /\ carrier' = IF carrier = "up" THEN "gone" ELSE carrier
  BY DEF HandshakeTimesOut
<1>2. TypeOK /\ Channels
  BY DEF IInv
<1>3. Lawful(e, new)
  BY <1>2, OverLawful DEF Codes, Rejection
<1> HIDE DEF new
<1>4. carrier' \in {"up", "stalled", "cut", "gone"}
  BY <1>1, <1>2 DEF TypeOK
<1>5. /\ chan' = [chan EXCEPT ![Peer(e)] = chan[Peer(e)]]
      /\ chan[Peer(e)] \in Seq(Message) /\ Coded(chan[Peer(e)])
  BY <1>1, <1>2, QueueStays
<1> QED BY <1>1, <1>3, <1>4, <1>5, EndKeeps

-----------------------------------------------------------------------------
(* The open session.                                                       *)

LEMMA DoAlike ==
  ASSUME IInv, NEW e \in End, NEW new, NEW frames \in Seq(Message), Do(e, new, frames),
         Alike(s[e], new), Coded(frames), Guarded(frames)
  PROVE  IInv'
  BY AlikeLawful, DoKeeps DEF IInv

LEMMA ReadsAlike ==
  ASSUME IInv, NEW e \in End, NEW new, Reads(e, new, <<>>), Alike(s[e], new),
         chan[Peer(e)] # <<>>, Head(chan[Peer(e)]).k # "FENCE"
  PROVE  IInv'
  BY AlikeLawful, EmptyQueue, ReadsKeeps DEF IInv

\* Of the fields that the exchange of frames moves, none is spoken of here.
LEMMA Counted ==
  ASSUME NEW x, NEW y \in Endpoint, Alike(x, y)
  PROVE  /\ \A v \in 0..MaxData : Alike(x, [y EXCEPT !.data = v])
         /\ \A v \in BOOLEAN : /\ Alike(x, [y EXCEPT !.ackDue = v])
                               /\ Alike(x, [y EXCEPT !.waits = v])
                               /\ Alike(x, [y EXCEPT !.kept = v])
         /\ \A v \in 0..MaxPings : /\ Alike(x, [y EXCEPT !.req = v])
                                   /\ Alike(x, [y EXCEPT !.ans = v])
                                   /\ Alike(x, [y EXCEPT !.top = v])
                                   /\ Alike(x, [y EXCEPT !.owed = v])
         /\ \A v \in 0..Budget : Alike(x, [y EXCEPT !.tokens = v])
         /\ \A v \in Nat : Alike(x, [y EXCEPT !.timer = v])
<1>1. \A v \in 0..MaxData : Alike(x, [y EXCEPT !.data = v])
  BY DEF Alike, Endpoint
<1>2. \A v \in BOOLEAN : Alike(x, [y EXCEPT !.ackDue = v])
  BY DEF Alike, Endpoint
<1>3. \A v \in BOOLEAN : Alike(x, [y EXCEPT !.waits = v])
  BY DEF Alike, Endpoint
<1>4. \A v \in BOOLEAN : Alike(x, [y EXCEPT !.kept = v])
  BY DEF Alike, Endpoint
<1>5. \A v \in 0..MaxPings : Alike(x, [y EXCEPT !.req = v])
  BY DEF Alike, Endpoint
<1>6. \A v \in 0..MaxPings : Alike(x, [y EXCEPT !.ans = v])
  BY DEF Alike, Endpoint
<1>7. \A v \in 0..MaxPings : Alike(x, [y EXCEPT !.top = v])
  BY DEF Alike, Endpoint
<1>8. \A v \in 0..MaxPings : Alike(x, [y EXCEPT !.owed = v])
  BY DEF Alike, Endpoint
<1>9. \A v \in 0..Budget : Alike(x, [y EXCEPT !.tokens = v])
  BY DEF Alike, Endpoint
<1>10. \A v \in Nat : Alike(x, [y EXCEPT !.timer = v])
  BY DEF Alike, Endpoint
<1> QED BY <1>1, <1>2, <1>3, <1>4, <1>5, <1>6, <1>7, <1>8, <1>9, <1>10

LEMMA Fields ==
  ASSUME NEW y \in Endpoint
  PROVE  /\ y.data \in 0..MaxData /\ y.req \in 0..MaxPings /\ y.ans \in 0..MaxPings
         /\ y.top \in 0..MaxPings /\ y.owed \in 0..MaxPings /\ y.tokens \in 0..Budget
         /\ y.timer \in Nat /\ MaxPings \in Nat /\ MaxData \in Nat /\ Budget \in Nat
  BY BoundAssumption DEF Endpoint

\* The states an end may pass through, from the one it is in.
LEMMA Here ==
  ASSUME IInv, NEW e \in End
  PROVE  /\ s[e] \in Endpoint /\ Alike(s[e], s[e])
         /\ Active(s[e]) \in Endpoint /\ Alike(s[e], Active(s[e]))
         /\ Heard(s[e]) \in Endpoint /\ Alike(s[e], Heard(s[e]))
         /\ Passed(s[e]) \in Endpoint /\ Alike(s[e], Passed(s[e]))
         /\ Heard(s[e]).tokens = s[e].tokens /\ Heard(s[e]).ans = s[e].ans
         /\ Passed(s[e]).data = s[e].data
<1>1. s[e] \in Endpoint
  BY DEF IInv, TypeOK
<1>2. /\ Alike(s[e], Active(s[e])) /\ Alike(s[e], Heard(s[e])) /\ Alike(s[e], Passed(s[e]))
      /\ Alike(s[e], s[e])
  BY <1>1, Touched DEF Alike
<1>3. /\ Heard(s[e]).tokens = s[e].tokens /\ Heard(s[e]).ans = s[e].ans
      /\ Passed(s[e]).data = s[e].data
  BY <1>1 DEF Heard, Passed, Active, Endpoint
<1> QED BY <1>1, <1>2, <1>3 DEF Alike

LEMMA SendDataKeeps == ASSUME IInv, NEW e \in End, SendData(e) PROVE IInv'
<1> DEFINE new == [Passed(s[e]) EXCEPT !.data = @ + 1]
<1>1. s[e].data < MaxData /\ Do(e, new, <<Signal("DATA")>>)
  BY DEF SendData
<1>2. s[e].data + 1 \in 0..MaxData /\ Passed(s[e]).data = s[e].data
  BY <1>1, Here, Fields
<1>3. Alike(s[e], new)
  BY <1>2, Here, Counted
<1>4. <<Signal("DATA")>> \in Seq(Message) /\ Coded(<<Signal("DATA")>>) /\ Guarded(<<Signal("DATA")>>)
  BY Signals DEF FrameKinds
<1> HIDE DEF new
<1> QED BY <1>1, <1>3, <1>4, DoAlike

LEMMA RecvDataKeeps == ASSUME IInv, NEW e \in End, RecvData(e) PROVE IInv'
<1>1. Reads(e, Heard(s[e]), <<>>) /\ chan[Peer(e)] # <<>> /\ Head(chan[Peer(e)]).k # "FENCE"
  BY DEF RecvData, On
<1> QED BY <1>1, Here, ReadsAlike

LEMMA SendAckKeeps == ASSUME IInv, NEW e \in End, SendAck(e) PROVE IInv'
<1>1. Do(e, [s[e] EXCEPT !.ackDue = FALSE], <<Signal("ACK")>>)
  BY DEF SendAck
<1>2. Alike(s[e], [s[e] EXCEPT !.ackDue = FALSE])
  BY Here, Counted
<1>3. <<Signal("ACK")>> \in Seq(Message) /\ Coded(<<Signal("ACK")>>) /\ Guarded(<<Signal("ACK")>>)
  BY Signals DEF FrameKinds
<1> QED BY <1>1, <1>2, <1>3, DoAlike

LEMMA RecvAckKeeps == ASSUME IInv, NEW e \in End, RecvAck(e) PROVE IInv'
<1>1. Reads(e, Active(s[e]), <<>>) /\ chan[Peer(e)] # <<>> /\ Head(chan[Peer(e)]).k # "FENCE"
  BY DEF RecvAck, On
<1> QED BY <1>1, Here, ReadsAlike

\* A request takes the next number, which is below the bound.
LEMMA Asked ==
  ASSUME IInv, NEW e \in End, s[e].req < MaxPings
  PROVE  /\ Alike(s[e], Asks(s[e])) /\ Asks(s[e]) \in Endpoint
         /\ <<Frame("PING", s[e].req + 1)>> \in Seq(Message)
         /\ Coded(<<Frame("PING", s[e].req + 1)>>) /\ Guarded(<<Frame("PING", s[e].req + 1)>>)
<1>1. s[e].req + 1 \in 0..MaxPings /\ s[e] \in Endpoint
  BY Here, Fields
<1>2. Alike(s[e], [s[e] EXCEPT !.req = s[e].req + 1])
  BY <1>1, Here, Counted
<1>3. Alike(s[e], [[s[e] EXCEPT !.req = s[e].req + 1] EXCEPT !.waits = TRUE])
  <2> DEFINE y == [s[e] EXCEPT !.req = s[e].req + 1]
  <2>1. y \in Endpoint /\ Alike(s[e], y)
    BY <1>2 DEF Alike
  <2> HIDE DEF y
  <2>2. Alike(s[e], [y EXCEPT !.waits = TRUE])
    BY <2>1, Counted
  <2> QED BY <2>2 DEF y
<1>4. Asks(s[e]) = [[s[e] EXCEPT !.req = s[e].req + 1] EXCEPT !.waits = TRUE]
  BY DEF Asks
<1>5. Alike(s[e], Asks(s[e]))
  BY <1>3, <1>4
<1>6. "PING" \in FrameKinds \ {"EARLY"}
  BY DEF FrameKinds
<1> QED BY <1>1, <1>5, <1>6, Frames DEF Alike

LEMMA PingKeeps == ASSUME IInv, NEW e \in End, Ping(e) PROVE IInv'
<1>1. s[e].req < MaxPings /\ Do(e, Asks(s[e]), <<Frame("PING", s[e].req + 1)>>)
  BY DEF Ping
<1> QED BY <1>1, Asked, DoAlike

LEMMA GiveUpKeeps == ASSUME IInv, NEW e \in End, GiveUp(e) PROVE IInv'
<1>1. Do(e, [s[e] EXCEPT !.waits = FALSE], <<>>)
  BY DEF GiveUp
<1>2. Alike(s[e], [s[e] EXCEPT !.waits = FALSE])
  BY Here, Counted
<1> QED BY <1>1, <1>2, EmptyQueue, DoAlike

LEMMA KeepAliveKeeps == ASSUME IInv, NEW e \in End, KeepAlive(e) PROVE IInv'
<1>1. CASE s[e].waits \/ s[e].req = MaxPings
  <2>1. Do(e, [s[e] EXCEPT !.kept = TRUE], <<>>)
    BY <1>1 DEF KeepAlive
  <2>2. Alike(s[e], [s[e] EXCEPT !.kept = TRUE])
    BY Here, Counted
  <2> QED BY <2>1, <2>2, EmptyQueue, DoAlike
<1>2. CASE ~(s[e].waits \/ s[e].req = MaxPings)
  <2>1. Do(e, [Asks(s[e]) EXCEPT !.kept = TRUE], <<Frame("PING", s[e].req + 1)>>)
    BY <1>2 DEF KeepAlive
  <2>2. s[e].req < MaxPings
    BY <1>2, Here, Fields
  <2>3. Alike(s[e], Asks(s[e])) /\ Asks(s[e]) \in Endpoint
    BY <2>2, Asked
  <2>4. Alike(s[e], [Asks(s[e]) EXCEPT !.kept = TRUE])
    BY <2>3, Counted
  <2> QED BY <2>1, <2>2, <2>4, Asked, DoAlike
<1> QED BY <1>1, <1>2

LEMMA ChargedKeeps ==
  ASSUME IInv, NEW e \in End, NEW costs \in BOOLEAN, NEW new \in Endpoint, Alike(s[e], new),
         new.tokens = s[e].tokens, Charged(e, costs, new),
         chan[Peer(e)] # <<>>, Head(chan[Peer(e)]).k # "FENCE"
  PROVE  IInv'
<1>1. CASE costs /\ s[e].tokens = 0
  <2>1. Fail(e, "ZMUX_EXCESSIVE_LOAD")
    BY <1>1 DEF Charged
  <2> QED BY <2>1, FailKeeps DEF Codes, Rejection
<1>2. CASE ~(costs /\ s[e].tokens = 0)
  <2>1. PICK v \in 0..Budget : Reads(e, [new EXCEPT !.tokens = v], <<>>)
    <3>1. new.tokens \in 0..Budget /\ Budget \in Nat
      BY Fields
    <3>2. CASE costs
      <4>1. new.tokens - 1 \in 0..Budget
        BY <1>2, <3>1, <3>2
      <4>2. Reads(e, [new EXCEPT !.tokens = new.tokens - 1], <<>>)
        BY <1>2, <3>2 DEF Charged
      <4> QED BY <4>1, <4>2
    <3>3. CASE ~costs
      <4>1. Reads(e, [new EXCEPT !.tokens = new.tokens], <<>>)
        BY <1>2, <3>3 DEF Charged
      <4> QED BY <3>1, <4>1
    <3> QED BY <3>2, <3>3
  <2>2. Alike(s[e], [new EXCEPT !.tokens = v])
    BY Counted
  <2> QED BY <2>1, <2>2, ReadsAlike
<1> QED BY <1>1, <1>2

\* What e reads next.
LEMMA NextFrame ==
  ASSUME IInv, NEW e \in End, chan[Peer(e)] # <<>>
  PROVE  Got(e) \in Message /\ Got(e).n \in 0..MaxPings /\ Got(e).code \in Codes \ {Rejection}
<1>1. chan[Peer(e)] \in Seq(Message) /\ Coded(chan[Peer(e)])
  BY QueueStays DEF IInv
<1>2. Got(e) \in Message /\ Got(e).code # Rejection
  BY <1>1, Consumed DEF Got
<1> QED BY <1>2 DEF Message

LEMMA RecvPingKeeps == ASSUME IInv, NEW e \in End, RecvPing(e) PROVE IInv'
<1> DEFINE n == Got(e).n
           new == [Heard(s[e]) EXCEPT !.top = n, !.owed = n]
<1>1. /\ chan[Peer(e)] # <<>> /\ Head(chan[Peer(e)]).k # "FENCE"
      /\ IF n <= s[e].top THEN Fail(e, "PROTOCOL_VIOLATION") ELSE Charged(e, s[e].owed > 0, new)
  BY DEF RecvPing, On
<1>2. n \in 0..MaxPings
  BY <1>1, NextFrame
<1>3. Alike(s[e], new) /\ new.tokens = s[e].tokens
  <2>1. Alike(s[e], [Heard(s[e]) EXCEPT !.top = n])
    BY <1>2, Here, Counted
  <2> DEFINE y == [Heard(s[e]) EXCEPT !.top = n]
  <2>2. y \in Endpoint /\ Alike(s[e], y) /\ y.tokens = s[e].tokens
    BY <2>1, Here DEF Alike, Endpoint
  <2>3. new = [y EXCEPT !.owed = n]
    OBVIOUS
  <2> HIDE DEF y
  <2>4. Alike(s[e], [y EXCEPT !.owed = n]) /\ [y EXCEPT !.owed = n].tokens = y.tokens
    BY <1>2, <2>2, Counted DEF Endpoint
  <2> QED BY <2>2, <2>3, <2>4
<1>4. new \in Endpoint
  BY <1>3 DEF Alike
<1> HIDE DEF new
<1>5. CASE n <= s[e].top
  BY <1>1, <1>5, FailKeeps DEF Codes, Rejection
<1>6. CASE ~(n <= s[e].top)
  <2>1. Charged(e, s[e].owed > 0, new) /\ (s[e].owed > 0) \in BOOLEAN
    BY <1>1, <1>6
  <2> QED BY <1>1, <1>3, <1>4, <2>1, ChargedKeeps
<1> QED BY <1>5, <1>6

LEMMA RespondKeeps == ASSUME IInv, NEW e \in End, Respond(e) PROVE IInv'
<1>1. Do(e, [Passed(s[e]) EXCEPT !.owed = 0], <<Frame("PONG", s[e].owed)>>)
  BY DEF Respond
<1>2. s[e].owed \in 0..MaxPings /\ 0 \in 0..MaxPings /\ "PONG" \in FrameKinds \ {"EARLY"}
  BY Here, Fields DEF FrameKinds
<1>3. Alike(s[e], [Passed(s[e]) EXCEPT !.owed = 0])
  BY <1>2, Here, Counted
<1> QED BY <1>1, <1>2, <1>3, Frames, DoAlike

\* The last response also moves the end that sent it.
LEMMA RecvPongKeeps == ASSUME IInv, NEW e \in End, RecvPong(e) PROVE IInv'
<1> DEFINE n == Got(e).n
           more == [Heard(s[e]) EXCEPT !.ans = Max({n, s[e].ans})]
           mine == [Heard(s[e]) EXCEPT !.ans = 0, !.req = 0, !.waits = FALSE]
           other == [s[Peer(e)] EXCEPT !.top = 0]
<1>1. chan[Peer(e)] # <<>> /\ Head(chan[Peer(e)]).k # "FENCE" /\ Heard(s[e]).ans = s[e].ans
  BY Here DEF RecvPong, On
<1>2. n \in 0..MaxPings /\ 0 \in 0..MaxPings /\ s[e].ans \in 0..MaxPings /\ MaxPings \in Nat
  BY <1>1, NextFrame, Here, Fields
<1>3. CASE n > s[e].req
  <2>1. Fail(e, "PROTOCOL_VIOLATION")
    BY <1>3 DEF RecvPong
  <2> QED BY <1>1, <2>1, FailKeeps DEF Codes, Rejection
<1>4. CASE ~(n > s[e].req) /\ (n < s[e].req \/ n <= s[e].ans)
  <2>1. Charged(e, n <= s[e].ans, more)
    BY <1>1, <1>4 DEF RecvPong
  <2>2. Max({n, s[e].ans}) \in 0..MaxPings
    <3>1. n \in Int /\ s[e].ans \in Int
      BY <1>2
    <3>2. Max({n, s[e].ans}) \in {n, s[e].ans}
      BY <3>1, Extremes
    <3> HIDE DEF n
    <3> QED BY <1>2, <3>2
  <2>3. Alike(s[e], more) /\ more.tokens = s[e].tokens
    <3>1. Alike(s[e], more)
      BY <2>2, Here, Counted
    <3>2. more.tokens = Heard(s[e]).tokens
      BY Here DEF Endpoint
    <3> QED BY <3>1, <3>2, Here
  <2>4. more \in Endpoint /\ (n <= s[e].ans) \in BOOLEAN
    BY <2>3 DEF Alike
  <2> HIDE DEF more
  <2> QED BY <1>1, <2>1, <2>3, <2>4, ChargedKeeps
<1>5. CASE ~(n > s[e].req) /\ ~(n < s[e].req \/ n <= s[e].ans)
  <2>1. /\ s' = [s EXCEPT ![e] = mine, ![Peer(e)] = other]
        /\ chan' = [chan EXCEPT ![Peer(e)] = Tail(chan[Peer(e)])]
        /\ UNCHANGED <<cfg, carrier>>
    BY <1>5, Ends2 DEF RecvPong
  <2>2. TypeOK /\ Channels /\ Peer(e) \in End
    BY Ends2 DEF IInv
  <2>3. Alike(s[e], mine)
    <3>1. Heard(s[e]) \in Endpoint /\ Alike(s[e], Heard(s[e]))
      BY Here
    <3> DEFINE x == Heard(s[e])
    <3> HIDE DEF x
    <3>2. ASSUME x \in Endpoint PROVE Alike(x, [x EXCEPT !.ans = 0, !.req = 0, !.waits = FALSE])
      BY <1>2, <3>2 DEF Alike, Endpoint
    <3> QED BY <3>1, <3>2 DEF Alike, x
  <2>4. Alike(s[Peer(e)], other)
    BY <1>2, <2>2, Here, Counted
  <2>5. Lawful(e, mine) /\ Lawful(Peer(e), other) /\ mine \in Endpoint /\ other \in Endpoint
    BY <2>2, <2>3, <2>4, AlikeLawful DEF Alike
  <2> HIDE DEF mine, other
  <2>6. s' \in [End -> Endpoint] /\ s'[e] = mine /\ s'[Peer(e)] = other
    BY <2>1, <2>2, <2>5, Ends2 DEF TypeOK
  <2>7. \A d \in End : Lawful(d, s'[d])
    BY <2>5, <2>6, Ends2
  <2>8. \A d \in End : Safe(d) => Safe(d)'
    BY <2>1, <2>7, StaysSafe, Ends2
  <2>9. /\ chan[e] \in Seq(Message) /\ Tail(chan[Peer(e)]) \in Seq(Message)
        /\ chan \in [End -> Seq(Message)]
    BY <1>1, <2>2, Consumed DEF TypeOK, Channels
  <2>10. /\ chan' \in [End -> Seq(Message)] /\ chan'[Peer(e)] = Tail(chan[Peer(e)])
         /\ chan'[e] = chan[e]
    BY <2>1, <2>2, <2>9, Ends2
  <2>11. Proper(e)
    BY <2>2, <2>8, <2>9, <2>10 DEF Channels, Proper
  <2>12. Proper(Peer(e))
    BY <1>1, <2>2, <2>8, <2>10, TailProper
  <2>13. \A d \in End : Proper(d)
    BY <2>11, <2>12, Ends2
  <2>14. carrier' \in {"up", "stalled", "cut", "gone"}
    BY <2>1, <2>2 DEF TypeOK
  <2> QED BY <2>1, <2>6, <2>7, <2>10, <2>13, <2>14, StepKeeps
<1> QED BY <1>3, <1>4, <1>5

-----------------------------------------------------------------------------
(* The end.                                                                *)

\* What an end sends of itself when the session is over.
LEMMA OverDoKeeps ==
  ASSUME IInv, NEW e \in End, NEW code \in Codes, code # Rejection,
         NEW frames \in Seq(Message), Coded(frames), Guarded(frames),
         Do(e, Over(s[e], code, "local"), frames)
  PROVE  IInv'
<1> DEFINE new == Over(s[e], code, "local")
<1>1. Lawful(e, new)
  BY OverLawful DEF IInv
<1>2. Do(e, new, frames)
  OBVIOUS
<1> HIDE DEF new
<1> QED BY <1>1, <1>2, DoKeeps

LEMMA LastFrame == <<EOF>> \in Seq(Message) /\ Coded(<<EOF>>) /\ Guarded(<<EOF>>)
<1>1. "EOF" \in FrameKinds /\ "EOF" # "EARLY"
  BY DEF FrameKinds
<1> QED BY <1>1, Signals DEF EOF

LEMMA IdleTimeoutKeeps == ASSUME IInv, NEW e \in End, IdleTimeout(e) PROVE IInv'
<1>1. "IDLE_TIMEOUT" \in Codes /\ "IDLE_TIMEOUT" # Rejection
  BY DEF Codes, Rejection
<1>2. CASE Acks
  <2>1. Do(e, Over(s[e], "IDLE_TIMEOUT", "local"), <<Close(Wire("IDLE_TIMEOUT")), EOF>>)
    BY <1>2 DEF IdleTimeout
  <2>2. Wire("IDLE_TIMEOUT") \in Codes \ {Rejection}
    BY <1>1, Wires
  <2>3. LET q == <<Close(Wire("IDLE_TIMEOUT")), EOF>> IN q \in Seq(Message) /\ Coded(q) /\ Guarded(q)
    BY <2>2, Closes
  <2> QED BY <1>1, <2>1, <2>3, OverDoKeeps
<1>3. CASE ~Acks
  <2>1. Do(e, Over(s[e], "IDLE_TIMEOUT", "local"), <<EOF>>)
    BY <1>3 DEF IdleTimeout
  <2> QED BY <1>1, <2>1, LastFrame, OverDoKeeps
<1> QED BY <1>2, <1>3

LEMMA AppCloseKeeps == ASSUME IInv, NEW e \in End, AppClose(e) PROVE IInv'
<1>1. Do(e, Over(s[e], "APPLICATION", "local"), <<Close("APPLICATION"), EOF>>)
  BY DEF AppClose
<1>2. "APPLICATION" \in Codes /\ "APPLICATION" # Rejection
  BY DEF Codes, Rejection
<1>3. LET q == <<Close("APPLICATION"), EOF>> IN q \in Seq(Message) /\ Coded(q) /\ Guarded(q)
  BY <1>2, Closes
<1> QED BY <1>1, <1>2, <1>3, OverDoKeeps

\* On the wire a rejection has no code of its own.
LEMMA RecvCloseKeeps == ASSUME IInv, NEW e \in End, RecvClose(e) PROVE IInv'
<1> DEFINE code == IF Got(e).code = "ZMUX_IDLE_TIMEOUT" THEN "IDLE_TIMEOUT" ELSE Got(e).code
           new == Over(s[e], code, "remote")
<1>1. chan[Peer(e)] # <<>> /\ Reads(e, new, <<EOF>>)
  BY DEF RecvClose, On
<1>2. Got(e).code \in Codes \ {Rejection}
  BY <1>1, NextFrame
<1>3. code \in Codes /\ code # Rejection
  <2>1. "IDLE_TIMEOUT" \in Codes /\ "IDLE_TIMEOUT" # Rejection
    BY DEF Codes, Rejection
  <2> QED BY <1>2, <2>1
<1> HIDE DEF code
<1>4. Lawful(e, new) /\ new.st \in Past
  BY <1>3, OverLawful DEF IInv
<1> HIDE DEF new
<1> QED BY <1>1, <1>4, LastFrame, ReadsKeeps

LEMMA RecvEofKeeps == ASSUME IInv, NEW e \in End, RecvEof(e) PROVE IInv'
<1>1. TypeOK /\ Channels /\ chan[Peer(e)] # <<>>
  BY DEF IInv, RecvEof, On
<1>2. CASE Acks
  <2> DEFINE new == [Over(s[e], "PIPES_LOST", "local") EXCEPT !.st = "closed"]
             q == Tail(chan[Peer(e)])
  <2>1. /\ s' = [s EXCEPT ![e] = new] /\ chan' = [chan EXCEPT ![Peer(e)] = q] /\ UNCHANGED cfg
        /\ carrier' = IF carrier = "up" THEN "gone" ELSE carrier
    BY <1>2 DEF RecvEof
  <2>2. Lawful(e, new)
    BY <1>1, OverLawful DEF Codes, Rejection
  <2>3. new.st \in Past
    <3>1. s[e] \in Endpoint
      BY Here
    <3> QED BY <3>1 DEF Over, Past, New
  <2>4. q \in Seq(Message) /\ Coded(q)
    BY <1>1, Consumed, QueueStays
  <2>5. carrier' \in {"up", "stalled", "cut", "gone"}
    BY <1>1, <2>1 DEF TypeOK
  <2> HIDE DEF new, q
  <2> QED BY <2>1, <2>2, <2>3, <2>4, <2>5, EndKeeps
<1>3. CASE ~Acks
  <2> DEFINE new == Over(s[e], "IDLE_TIMEOUT", "remote")
  <2>1. Reads(e, new, <<EOF>>)
    BY <1>3 DEF RecvEof
  <2>2. Lawful(e, new) /\ new.st \in Past
    BY <1>1, OverLawful DEF Codes, Rejection
  <2> HIDE DEF new
  <2> QED BY <1>1, <2>1, <2>2, LastFrame, ReadsKeeps
<1> QED BY <1>2, <1>3

\* From the end of the session an end only goes on to its last state.
LEMMA ClosedLawful ==
  ASSUME TypeOK, NEW e \in End
  PROVE  /\ Lawful(e, [s[e] EXCEPT !.st = "closed", !.timer = 0])
         /\ [s[e] EXCEPT !.st = "closed", !.timer = 0].st \in Past
<1>1. s[e] \in Endpoint
  BY DEF TypeOK
<1> DEFINE y == [s[e] EXCEPT !.st = "closed", !.timer = 0]
<1>2. /\ y \in Endpoint /\ y.st = "closed"
      /\ y.role = s[e].role /\ y.took = s[e].took /\ y.report = s[e].report
  BY <1>1 DEF Endpoint
<1> HIDE DEF y
<1>3. Lawful(e, y) /\ y.st \in Past
  BY <1>2 DEF Lawful, Past
<1> QED BY <1>3 DEF y

LEMMA IgnoreKeeps == ASSUME IInv, NEW e \in End, Ignore(e) PROVE IInv'
<1>1. s[e].st \in Past /\ chan[Peer(e)] # <<>>
  BY DEF Ignore, Past
<1>2. TypeOK
  BY DEF IInv
<1>3. CASE On(e, "EOF")
  <2>1. Reads(e, [s[e] EXCEPT !.st = "closed", !.timer = 0], <<>>)
    BY <1>3 DEF Ignore
  <2> QED BY <1>1, <1>2, <2>1, ClosedLawful, EmptyQueue, ReadsKeeps
<1>4. CASE ~On(e, "EOF")
  <2>1. Reads(e, s[e], <<>>)
    BY <1>4 DEF Ignore
  <2> QED BY <1>1, <1>2, <2>1, StaysLawful, EmptyQueue, ReadsKeeps
<1> QED BY <1>3, <1>4

LEMMA LingerEndsKeeps == ASSUME IInv, NEW e \in End, LingerEnds(e) PROVE IInv'
<1> DEFINE new == [s[e] EXCEPT !.st = "closed", !.timer = 0]
<1>1. TypeOK /\ Channels
  BY DEF IInv
<1>2. /\ s' = [s EXCEPT ![e].st = "closed", ![e].timer = 0] /\ UNCHANGED <<cfg, chan>>
      /\ carrier' = IF carrier = "up" THEN "gone" ELSE carrier
  BY DEF LingerEnds
<1>3. s' = [s EXCEPT ![e] = new]
  BY <1>1, <1>2 DEF TypeOK, Endpoint
<1>4. Lawful(e, new) /\ new.st \in Past
  BY <1>1, ClosedLawful
<1> HIDE DEF new
<1>5. /\ chan' = [chan EXCEPT ![Peer(e)] = chan[Peer(e)]]
      /\ chan[Peer(e)] \in Seq(Message) /\ Coded(chan[Peer(e)])
  BY <1>1, <1>2, QueueStays
<1>6. carrier' \in {"up", "stalled", "cut", "gone"} /\ UNCHANGED cfg
  BY <1>1, <1>2 DEF TypeOK
<1> QED BY <1>3, <1>4, <1>5, <1>6, EndKeeps

LEMMA CarrierErrorKeeps == ASSUME IInv, NEW e \in End, CarrierError(e) PROVE IInv'
<1> DEFINE lost == [Over(s[e], "PIPES_LOST", "local") EXCEPT !.st = "closed"]
           done == [s[e] EXCEPT !.st = "closed", !.timer = 0]
           new == IF s[e].report = None THEN lost ELSE done
<1>1. TypeOK
  BY DEF IInv
<1>2. /\ s' = [s EXCEPT ![e] = new] /\ chan' = [chan EXCEPT ![Peer(e)] = <<>>]
      /\ UNCHANGED <<cfg, carrier>>
  BY DEF CarrierError
<1>3. Lawful(e, lost)
  BY <1>1, OverLawful DEF Codes, Rejection
<1>4. Lawful(e, done)
  BY <1>1, ClosedLawful
<1> HIDE DEF lost, done
<1>5. Lawful(e, new)
  BY <1>3, <1>4
<1> HIDE DEF new
<1>6. carrier' \in {"up", "stalled", "cut", "gone"} /\ UNCHANGED cfg
  BY <1>1, <1>2 DEF TypeOK
<1>7. <<>> \in Seq(Message) /\ Coded(<<>>) /\ Guarded(<<>>)
  BY EmptyQueue
<1> QED BY <1>2, <1>5, <1>6, <1>7, EndKeeps

-----------------------------------------------------------------------------
(* The carrier, and time.                                                  *)

\* A step that leaves the ends in states like those they were in.
LEMMA AlikeKeeps ==
  ASSUME IInv, UNCHANGED cfg, s' \in [End -> Endpoint], \A e \in End : Alike(s[e], s'[e]),
         chan' \in [End -> Seq(Message)],
         \A e \in End : Coded(chan'[e]) /\ (Guarded(chan[e]) => Guarded(chan'[e])),
         carrier' \in {"up", "stalled", "cut", "gone"}
  PROVE  IInv'
<1>1. \A e \in End : Lawful(e, s'[e])
  BY AlikeLawful DEF IInv
<1>2. \A e \in End : Safe(e) => Safe(e)'
  BY <1>1, StaysSafe, Ends2
<1>3. \A e \in End : Proper(e)
  BY <1>2 DEF IInv, Channels, Proper
<1> QED BY <1>1, <1>3, StepKeeps

LEMMA SameEnds ==
  ASSUME IInv, UNCHANGED s PROVE s' \in [End -> Endpoint] /\ \A e \in End : Alike(s[e], s'[e])
  BY Here DEF IInv, TypeOK

LEMMA StallKeeps == ASSUME IInv, Stall PROVE IInv'
<1>1. /\ carrier' = "stalled" /\ chan' = [e \in End |-> <<>>] /\ UNCHANGED cfg /\ UNCHANGED s
  BY DEF Stall
<1>2. /\ chan' \in [End -> Seq(Message)]
      /\ \A e \in End : Coded(chan'[e]) /\ Guarded(chan'[e])
  BY <1>1, EmptyQueue
<1> QED BY <1>1, <1>2, SameEnds, AlikeKeeps

LEMMA CutKeeps == ASSUME IInv, Cut PROVE IInv'
<1>1. /\ carrier' = "cut" /\ UNCHANGED cfg /\ UNCHANGED s /\ UNCHANGED chan
  BY DEF Cut
<1>2. /\ chan' \in [End -> Seq(Message)] /\ \A e \in End : Coded(chan'[e])
      /\ \A e \in End : chan'[e] = chan[e]
  BY <1>1 DEF IInv, TypeOK, Channels
<1> QED BY <1>1, <1>2, SameEnds, AlikeKeeps

LEMMA StutterKeeps == ASSUME IInv, UNCHANGED vars PROVE IInv'
<1>1. UNCHANGED cfg /\ UNCHANGED s /\ UNCHANGED chan /\ UNCHANGED carrier
  BY DEF vars
<1>2. /\ chan' \in [End -> Seq(Message)] /\ \A e \in End : Coded(chan'[e])
      /\ \A e \in End : chan'[e] = chan[e]
  BY <1>1 DEF IInv, TypeOK, Channels
<1>3. carrier' \in {"up", "stalled", "cut", "gone"}
  BY <1>1 DEF IInv, TypeOK
<1> QED BY <1>1, <1>2, <1>3, SameEnds, AlikeKeeps

\* A frame comes nearer, and is the same otherwise.
Aged(q) == [i \in DOMAIN q |-> [q[i] EXCEPT !.left = Max({0, @ - 1})]]

LEMMA AgedKeeps ==
  ASSUME NEW q \in Seq(Message), Coded(q)
  PROVE  Aged(q) \in Seq(Message) /\ Coded(Aged(q)) /\ (Guarded(q) => Guarded(Aged(q)))
<1>1. Len(q) \in Nat /\ DOMAIN q = 1..Len(q) /\ \A i \in 1..Len(q) : q[i] \in Message
  OBVIOUS
<1>2. ASSUME NEW m \in Message
      PROVE  LET a == [m EXCEPT !.left = Max({0, @ - 1})]
             IN  a \in Message /\ a.k = m.k /\ a.code = m.code
  <2>1. m.left \in 0..Delay /\ m.left \in Int /\ Delay \in Nat
    BY BoundAssumption DEF Message
  <2> DEFINE l == Max({0, m.left - 1})
  <2>2. l \in {0, m.left - 1} /\ l >= 0
    <3>1. 0 \in Int /\ m.left - 1 \in Int
      BY <2>1
    <3> QED BY <3>1, Extremes
  <2> HIDE DEF l
  <2>3. l \in 0..Delay
    BY <2>1, <2>2
  <2>4. [m EXCEPT !.left = l] \in Message
    BY <2>3 DEF Message
  <2> QED BY <2>4 DEF l, Message
<1> DEFINE r == Aged(q)
<1>3. /\ r = [i \in 1..Len(q) |-> [q[i] EXCEPT !.left = Max({0, q[i].left - 1})]]
      /\ \A i \in 1..Len(q) : r[i] = [q[i] EXCEPT !.left = Max({0, q[i].left - 1})]
  BY <1>1 DEF Aged
<1>4. \A i \in 1..Len(q) : r[i] \in Message /\ r[i].k = q[i].k /\ r[i].code = q[i].code
  BY <1>1, <1>2, <1>3
<1>5. r \in [1..Len(q) -> Message]
  BY <1>3, <1>4
<1> HIDE DEF r
<1>6. r \in Seq(Message) /\ Len(r) = Len(q)
  BY <1>1, <1>5
<1>7. Coded(r)
  BY <1>4, <1>6 DEF Coded
<1>8. ASSUME Guarded(q) PROVE Guarded(r)
  <2>1. ASSUME NEW i \in 1..Len(q), r[i].k = "EARLY" PROVE \E j \in 1..(i - 1) : r[j].k = "FENCE"
    <3>1. PICK j \in 1..(i - 1) : q[j].k = "FENCE"
      BY <1>4, <1>8, <2>1 DEF Guarded
    <3>2. j \in 1..Len(q)
      BY <1>1, <3>1
    <3> QED BY <1>4, <3>1, <3>2
  <2> QED BY <1>6, <2>1 DEF Guarded
<1> QED BY <1>6, <1>7, <1>8 DEF r

LEMMA LaterAlike == ASSUME NEW x \in Endpoint PROVE Alike(x, Later(x))
<1> DEFINE t == IF Rests(x) THEN x.timer ELSE x.timer + 1
           v == Min({Budget, x.tokens + Refill})
<1>1. CASE x.st = "closed"
  BY <1>1 DEF Later, Alike
<1>2. CASE x.st # "closed"
  <2>1. Later(x) = [x EXCEPT !.timer = t, !.tokens = v]
    BY <1>2 DEF Later
  <2>2. /\ x.timer \in Nat /\ x.tokens \in 0..Budget /\ Budget \in Nat /\ Refill \in Nat
    BY BoundAssumption DEF Endpoint
  <2>3. t \in Nat
    BY <2>2
  <2>4. v \in 0..Budget
    <3>1. Budget \in Int /\ x.tokens + Refill \in Int
      BY <2>2
    <3>2. v \in {Budget, x.tokens + Refill} /\ v <= Budget
      BY <3>1, Extremes
    <3> HIDE DEF v
    <3> QED BY <2>2, <3>2
  <2> HIDE DEF t, v
  <2>5. Alike(x, [x EXCEPT !.timer = t, !.tokens = v])
    BY <2>3, <2>4 DEF Alike, Endpoint
  <2> QED BY <2>1, <2>5
<1> QED BY <1>1, <1>2

LEMMA TickKeeps == ASSUME IInv, Tick PROVE IInv'
<1>1. /\ s' = [e \in End |-> Later(s[e])] /\ chan' = [e \in End |-> Aged(chan[e])]
      /\ UNCHANGED <<cfg, carrier>>
  BY DEF Tick, Aged
<1>2. TypeOK /\ Channels
  BY DEF IInv
<1>3. /\ s' \in [End -> Endpoint]
      /\ \A e \in End : Alike(s[e], s'[e])
  <2>1. \A e \in End : s'[e] = Later(s[e]) /\ s[e] \in Endpoint
    BY <1>1, Here
  <2>2. \A e \in End : Alike(s[e], s'[e])
    BY <2>1, LaterAlike
  <2> QED BY <1>1, <2>1, <2>2 DEF Alike
<1>4. /\ chan' \in [End -> Seq(Message)]
      /\ \A e \in End : Coded(chan'[e]) /\ (Guarded(chan[e]) => Guarded(chan'[e]))
  <2>1. \A e \in End : /\ chan[e] \in Seq(Message) /\ Coded(chan[e])
                       /\ chan'[e] = Aged(chan[e])
    BY <1>1, <1>2 DEF TypeOK, Channels
  <2>2. \A e \in End : chan'[e] \in Seq(Message)
    BY <2>1, AgedKeeps
  <2> QED BY <1>1, <2>1, <2>2, AgedKeeps
<1>5. carrier' \in {"up", "stalled", "cut", "gone"} /\ UNCHANGED cfg
  BY <1>1, <1>2 DEF TypeOK
<1> QED BY <1>3, <1>4, <1>5, AlikeKeeps

-----------------------------------------------------------------------------
(* The invariant, and the theorems.                                        *)

LEMMA InitHolds == Init => IInv
<1> SUFFICES ASSUME Init PROVE IInv
  OBVIOUS
<1>1. PICK c \in Configs : cfg = [e \in End |-> IF e = "D" THEN c[1] ELSE c[2]]
  BY DEF Init
<1>2. cfg \in [End -> UNION {{d[1], d[2]} : d \in Configs}]
  BY <1>1
<1>3. New \in Endpoint
  <2>1. 0 \in 0..MaxPings /\ 0 \in 0..MaxData /\ Budget \in 0..Budget /\ 0 \in Nat
    BY BoundAssumption
  <2>2. None \in Codes \X {"none", "local", "remote"}
    BY DEF None, Codes
  <2> QED BY <2>1, <2>2 DEF New, Endpoint
<1>4. /\ s = [e \in End |-> New] /\ chan = [e \in End |-> <<>>] /\ carrier = "up"
  BY DEF Init
<1>5. TypeOK
  BY <1>2, <1>3, <1>4, EmptyQueue DEF TypeOK
<1>6. \A e \in End : /\ s[e].role = "none" /\ s[e].took = FALSE /\ s[e].report[1] # Rejection
                     /\ Coded(chan[e]) /\ Guarded(chan[e])
  <2>1. New.role = "none" /\ New.took = FALSE /\ New.report[1] = "none" /\ "none" # Rejection
    BY DEF New, None, Rejection
  <2> QED BY <1>4, <2>1, EmptyQueue
<1> QED BY <1>5, <1>6 DEF IInv, Roles, Processed, Rejects, Channels

LEMMA NextKeeps == IInv /\ [Next]_vars => IInv'
<1> SUFFICES ASSUME IInv, [Next]_vars PROVE IInv'
  OBVIOUS
<1>1. CASE UNCHANGED vars
  BY <1>1, StutterKeeps
<1>2. ASSUME NEW e \in End, Read(e) PROVE IInv'
  BY <1>2, RecvParametersKeeps, RecvFenceKeeps, RecvEarlyKeeps, RecvDataKeeps, RecvAckKeeps,
     RecvPingKeeps, RecvPongKeeps, RecvCloseKeeps, RecvEofKeeps, IgnoreKeeps DEF Read
<1>3. ASSUME NEW e \in End, Timer(e) PROVE IInv'
  BY <1>3, HandshakeTimesOutKeeps, IdleTimeoutKeeps, LingerEndsKeeps DEF Timer
<1>4. ASSUME NEW e \in End,
             \/ Start(e) \/ Respond(e) \/ SendAck(e) \/ KeepAlive(e) \/ CarrierError(e)
             \/ SendData(e) \/ Ping(e) \/ GiveUp(e) \/ AppClose(e)
      PROVE  IInv'
  BY <1>4, StartKeeps, RespondKeeps, SendAckKeeps, KeepAliveKeeps, CarrierErrorKeeps,
     SendDataKeeps, PingKeeps, GiveUpKeeps, AppCloseKeeps
<1>5. CASE Stall \/ Cut \/ Tick
  BY <1>5, StallKeeps, CutKeeps, TickKeeps
<1>6. CASE Ended
  BY <1>6, StutterKeeps DEF Ended
<1> QED BY <1>1, <1>2, <1>3, <1>4, <1>5, <1>6 DEF Next

\* The inductive invariant holds of every reachable state.
THEOREM Inductive == Spec => []IInv
<1>1. Init => IInv
  BY InitHolds
<1>2. IInv /\ [Next]_vars => IInv'
  BY NextKeeps
<1> QED BY <1>1, <1>2, PTL DEF Spec

\* Every variable keeps its type; in particular the numbers of requests stay within
\* their bound and the tokens within the budget.
THEOREM TypeCorrect == Spec => []TypeOK
<1>1. IInv => TypeOK
  BY DEF IInv
<1> QED BY <1>1, Inductive, PTL

\* Two endpoints that both have a role have opposite ones, whatever each configured.
THEOREM RolesAreOpposed == Spec => []RolesOpposed
<1>1. IInv => RolesOpposed
  <2> SUFFICES ASSUME IInv, NEW e \in End, s[e].role # "none", s[Peer(e)].role = s[e].role
               PROVE  FALSE
    BY DEF RolesOpposed
  <2> DEFINE own == cfg[e].role
             peer == cfg[Peer(e)].role
             t == Transport(e)
  <2>1. /\ own \in [kind : Kinds, nonce : Nat] /\ peer \in [kind : Kinds, nonce : Nat]
        /\ t \in {"initiator", "responder"}
        /\ Peer(e) \in End /\ Peer(Peer(e)) = e /\ Transport(Peer(e)) = Opposite(t)
    BY Ends2, Configured DEF IInv
  <2>2. /\ s[e].role = Resolve(own, peer, t)
        /\ s[Peer(e)].role = Resolve(peer, own, Opposite(t))
    BY <2>1 DEF IInv, Roles, Resolved
  <2>3. s[e].role \in {"none", "initiator", "responder"}
    BY Here DEF Endpoint
  <2> HIDE DEF own, peer, t
  <2> QED BY <2>1, <2>2, <2>3, Resolution
<1> QED BY <1>1, Inductive, PTL

\* Early data that its sender reports as rejected has not been processed, and since
\* this always holds it never will be.
THEOREM RejectedStaysUnread == Spec => []RejectedIsUnread
<1>1. IInv => RejectedIsUnread
  <2> SUFFICES ASSUME IInv, NEW e \in End, s[e].report[1] = Rejection, s[Peer(e)].took
               PROVE  FALSE
    BY DEF RejectedIsUnread, Rejection
  <2>1. EarlyRejected(cfg[e], cfg[Peer(e)])
    BY DEF IInv, Rejects
  <2>2. Acks /\ cfg[Peer(e)].room # "none"
    BY Ends2 DEF IInv, Processed
  <2>3. AckInUse(cfg[e], cfg[Peer(e)])
    BY <2>2 DEF Acks, AckInUse, End, Peer
  <2> QED BY <2>1, <2>2, <2>3 DEF EarlyRejected
<1> QED BY <1>1, Inductive, PTL

-----------------------------------------------------------------------------
(* Fields of the states an end passes through. *)

\* The session is over for x, which does not linger.
Shut(x, code, whose) == [Over(x, code, whose) EXCEPT !.st = "closed"]

LEMMA OverFields ==
  ASSUME NEW x \in Endpoint, NEW code, NEW whose, NEW y \in {Over(x, code, whose), Shut(x, code, whose)}
  PROVE  /\ y.st \in Past /\ y.report = <<code, whose>> /\ y.report[1] = code
         /\ y.report[2] = whose /\ y.timer = 0
         /\ ~y.waits /\ y.req = 0 /\ y.owed = 0 /\ y.top = 0 /\ y.ans = 0
         /\ y.tokens = Budget /\ ~y.kept /\ ~y.ackDue
         /\ Over(x, code, whose).st = "closing" /\ Shut(x, code, whose).st = "closed"
<1>1. Over(x, code, whose).st = "closing" /\ Shut(x, code, whose).st = "closed"
  BY DEF Over, Shut, New
<1>2. CASE y = Over(x, code, whose)
  <2>1. /\ y.st \in Past /\ y.report = <<code, whose>> /\ y.report[1] = code
        /\ y.report[2] = whose /\ y.timer = 0 /\ y.req = 0 /\ y.owed = 0 /\ y.top = 0
        /\ y.ans = 0 /\ y.tokens = Budget
    BY <1>2 DEF Over, New, Past
  <2>2. y.waits = FALSE /\ y.kept = FALSE /\ y.ackDue = FALSE
    BY <1>2 DEF Over, New
  <2>3. ~y.waits /\ ~y.kept /\ ~y.ackDue
    BY ONLY <2>2
  <2> QED BY ONLY <1>1, <2>1, <2>3
<1>3. CASE y = Shut(x, code, whose)
  <2>1. /\ y.st \in Past /\ y.report = <<code, whose>> /\ y.report[1] = code
        /\ y.report[2] = whose /\ y.timer = 0 /\ y.req = 0 /\ y.owed = 0 /\ y.top = 0
        /\ y.ans = 0 /\ y.tokens = Budget
    BY <1>3 DEF Over, Shut, New, Past
  <2>2. y.waits = FALSE /\ y.kept = FALSE /\ y.ackDue = FALSE
    BY <1>3 DEF Over, Shut, New
  <2>3. ~y.waits /\ ~y.kept /\ ~y.ackDue
    BY ONLY <2>2
  <2> QED BY ONLY <1>1, <2>1, <2>3
<1> QED BY <1>2, <1>3

LEMMA ActiveFields ==
  ASSUME NEW x \in Endpoint
  PROVE  LET y == Active(x)
         IN  /\ y.timer = 0 /\ ~y.kept /\ y.ackDue = x.ackDue
             /\ y.st = x.st /\ y.report = x.report
             /\ y.waits = x.waits /\ y.req = x.req /\ y.owed = x.owed /\ y.top = x.top
             /\ y.ans = x.ans /\ y.tokens = x.tokens
  BY DEF Active, Endpoint

LEMMA HeardFields ==
  ASSUME NEW x \in Endpoint
  PROVE  LET y == Heard(x)
         IN  /\ y.timer = 0 /\ ~y.kept /\ y.ackDue = Acks
             /\ y.st = x.st /\ y.report = x.report
             /\ y.waits = x.waits /\ y.req = x.req /\ y.owed = x.owed /\ y.top = x.top
             /\ y.ans = x.ans /\ y.tokens = x.tokens
  BY DEF Heard, Active, Endpoint

LEMMA PassedFields ==
  ASSUME NEW x \in Endpoint
  PROVE  LET y == Passed(x)
         IN  /\ Acks => y = x
             /\ ~Acks => y.timer = 0 /\ ~y.kept
             /\ y.ackDue = x.ackDue /\ y.st = x.st /\ y.report = x.report
             /\ y.waits = x.waits /\ y.req = x.req /\ y.owed = x.owed /\ y.top = x.top
             /\ y.ans = x.ans /\ y.tokens = x.tokens
  BY DEF Passed, Active, Endpoint

(* What is done to queues. *)

LEMMA Joined ==
  ASSUME NEW q \in Seq(Message), NEW r \in Seq(Message)
  PROVE  /\ q \o r \in Seq(Message) /\ Len(q \o r) = Len(q) + Len(r)
         /\ Len(q) \in Nat /\ Len(r) \in Nat
         /\ \A i \in 1..Len(q) : i \in 1..Len(q \o r) /\ (q \o r)[i] = q[i]
         /\ \A i \in 1..Len(r) : Len(q) + i \in 1..Len(q \o r) /\ (q \o r)[Len(q) + i] = r[i]
         /\ \A i \in 1..Len(q \o r) :
              \/ i \in 1..Len(q) /\ (q \o r)[i] = q[i]
              \/ i - Len(q) \in 1..Len(r) /\ (q \o r)[i] = r[i - Len(q)]
<1>1. /\ q \o r \in Seq(Message) /\ Len(q \o r) = Len(q) + Len(r)
      /\ Len(q) \in Nat /\ Len(r) \in Nat
      /\ \A i \in 1..(Len(q) + Len(r)) : (q \o r)[i] = IF i <= Len(q) THEN q[i] ELSE r[i - Len(q)]
  OBVIOUS
<1>2. \A i \in 1..(Len(q) + Len(r)) : i \in 1..Len(q) \/ (~(i <= Len(q)) /\ i - Len(q) \in 1..Len(r))
  BY <1>1
<1>3. \A i \in 1..Len(r) : /\ Len(q) + i \in 1..(Len(q) + Len(r)) /\ ~(Len(q) + i <= Len(q))
                           /\ (Len(q) + i) - Len(q) = i
  BY <1>1
<1>4. \A i \in 1..Len(r) : (q \o r)[Len(q) + i] = r[i]
  BY <1>1, <1>3
<1>5. \A i \in 1..Len(q) : i \in 1..(Len(q) + Len(r)) /\ i <= Len(q)
  BY <1>1
<1> QED BY <1>1, <1>2, <1>3, <1>4, <1>5

LEMMA Shorter ==
  ASSUME NEW q \in Seq(Message), q # <<>>
  PROVE  /\ Tail(q) \in Seq(Message) /\ Len(Tail(q)) = Len(q) - 1 /\ Len(q) \in Nat
         /\ 1 \in 1..Len(q) /\ Head(q) = q[1] /\ Head(q) \in Message
         /\ \A i \in 1..Len(Tail(q)) : i + 1 \in 1..Len(q) /\ Tail(q)[i] = q[i + 1]
         /\ \A i \in 1..Len(q) : i = 1 \/ (i - 1 \in 1..Len(Tail(q)) /\ Tail(q)[i - 1] = q[i])
<1>1. /\ Tail(q) \in Seq(Message) /\ Len(Tail(q)) = Len(q) - 1 /\ Len(q) \in Nat /\ Len(q) >= 1
      /\ \A i \in 1..(Len(q) - 1) : Tail(q)[i] = q[i + 1] /\ i + 1 \in 1..Len(q)
      /\ Head(q) = q[1] /\ Head(q) \in Message
  OBVIOUS
<1>2. \A i \in 1..Len(q) : i = 1 \/ (i - 1 \in 1..(Len(q) - 1) /\ (i - 1) + 1 = i)
  BY <1>1
<1> QED BY <1>1, <1>2

LEMMA Older ==
  ASSUME NEW q \in Seq(Message)
  PROVE  /\ Aged(q) \in Seq(Message) /\ Len(Aged(q)) = Len(q) /\ Len(q) \in Nat
         /\ \A i \in 1..Len(q) : /\ Aged(q)[i].k = q[i].k /\ Aged(q)[i].n = q[i].n
                                 /\ Aged(q)[i].code = q[i].code
                                 /\ Aged(q)[i].left = Max({0, q[i].left - 1})
                                 /\ q[i] \in Message /\ Aged(q)[i] \in Message
<1>1. Len(q) \in Nat /\ DOMAIN q = 1..Len(q) /\ \A i \in 1..Len(q) : q[i] \in Message
  OBVIOUS
<1>2. ASSUME NEW m \in Message
      PROVE  LET a == [m EXCEPT !.left = Max({0, @ - 1})]
             IN  /\ a \in Message /\ a.k = m.k /\ a.code = m.code /\ a.n = m.n
                 /\ a.left = Max({0, m.left - 1})
  <2>1. m.left \in 0..Delay /\ m.left \in Int /\ Delay \in Nat
    BY BoundAssumption DEF Message
  <2> DEFINE l == Max({0, m.left - 1})
  <2>2. l \in {0, m.left - 1} /\ l >= 0
    <3>1. 0 \in Int /\ m.left - 1 \in Int
      BY <2>1
    <3> QED BY <3>1, Extremes
  <2> HIDE DEF l
  <2>3. l \in 0..Delay
    BY <2>1, <2>2
  <2>4. [m EXCEPT !.left = l] \in Message
    BY <2>3 DEF Message
  <2> QED BY <2>4 DEF l, Message
<1>3. /\ Aged(q) = [i \in 1..Len(q) |-> [q[i] EXCEPT !.left = Max({0, q[i].left - 1})]]
      /\ \A i \in 1..Len(q) : Aged(q)[i] = [q[i] EXCEPT !.left = Max({0, q[i].left - 1})]
  BY <1>1 DEF Aged
<1>4. \A i \in 1..Len(q) : /\ Aged(q)[i] \in Message /\ Aged(q)[i].k = q[i].k
                           /\ Aged(q)[i].n = q[i].n /\ Aged(q)[i].code = q[i].code
                           /\ Aged(q)[i].left = Max({0, q[i].left - 1})
  BY <1>1, <1>2, <1>3
<1>5. Aged(q) \in [1..Len(q) -> Message]
  BY <1>3, <1>4
<1>6. Aged(q) \in Seq(Message) /\ Len(Aged(q)) = Len(q)
  BY <1>1, <1>5
<1> QED BY <1>1, <1>4, <1>6

\* What a step of e makes of the two queues.
LEMMA DoEffect ==
  ASSUME IInv, NEW e \in End, NEW new, NEW frames, Do(e, new, frames)
  PROVE  /\ s'[e] = new /\ s'[Peer(e)] = s[Peer(e)] /\ UNCHANGED cfg /\ UNCHANGED carrier
         /\ chan'[e] = IF carrier = "up" THEN chan[e] \o frames ELSE chan[e]
         /\ chan'[Peer(e)] = chan[Peer(e)]
         /\ chan[e] \in Seq(Message) /\ chan[Peer(e)] \in Seq(Message)
<1>1. TypeOK
  BY DEF IInv
<1> QED BY <1>1, Ends2 DEF Do, Sent, TypeOK

LEMMA ReadsEffect ==
  ASSUME IInv, NEW e \in End, NEW new, NEW frames, Reads(e, new, frames)
  PROVE  /\ s'[e] = new /\ s'[Peer(e)] = s[Peer(e)] /\ UNCHANGED cfg /\ UNCHANGED carrier
         /\ chan'[e] = IF carrier = "up" THEN chan[e] \o frames ELSE chan[e]
         /\ chan'[Peer(e)] = Tail(chan[Peer(e)])
         /\ chan[e] \in Seq(Message) /\ chan[Peer(e)] \in Seq(Message)
<1>1. TypeOK
  BY DEF IInv
<1> QED BY <1>1, Ends2 DEF Reads, Sent, TypeOK

-----------------------------------------------------------------------------
(* Pings.  Of an exchange one frame is under way or one answer is owed, as   *)
(* long as the end that asked waits for it, and nothing after that: a second *)
(* request cannot find the first one still owed, an answer always is to the  *)
(* last request, and the numbers may start again when it has arrived.  An    *)
(* end that is gone, or a carrier that delivers no more, asks for nothing.   *)

Faults == {"PROTOCOL_VIOLATION", "ZMUX_EXCESSIVE_LOAD"}
Pinging == {"PING", "PONG"}

Without(q, k)   == \A i \in 1..Len(q) : q[i].k # k
Single(q, k)    == \A i, j \in 1..Len(q) : q[i].k = k /\ q[j].k = k => i = j
AllAre(q, k, n) == \A i \in 1..Len(q) : q[i].k = k => q[i].n = n

\* Requests are numbered from 1, and no CONNECTION_CLOSE accuses the peer.
Sound(q) == \A i \in 1..Len(q) : (q[i].k \in Pinging => q[i].n > 0) /\ q[i].code \notin Faults

\* A request of number req, in queue a or owed, or its answer in queue b.
Exchange(loose, waits, req, owed, top, a, b) ==
  /\ Single(a, "PING") /\ Single(b, "PONG")
  /\ Without(a, "PING") \/ (owed = 0 /\ top = 0 /\ Without(b, "PONG"))
  /\ owed = 0 \/ Without(b, "PONG")
  /\ \/ loose
     \/ /\ waits /\ req > 0 /\ owed \in {0, req}
        /\ AllAre(a, "PING", req) /\ AllAre(b, "PONG", req)
     \/ /\ ~waits /\ req = 0 /\ owed = 0 /\ top = 0
        /\ Without(a, "PING") /\ Without(b, "PONG")

Loose(e) == s[e].st \in Past \/ carrier = "stalled"

Asking(e) ==
  Exchange(Loose(e), s[e].waits, s[e].req, s[Peer(e)].owed, s[Peer(e)].top, chan[e], chan[Peer(e)])

Unhurt(e) == /\ s[e].ans = 0 /\ s[e].tokens = Budget /\ s[e].report[1] \notin Faults
             /\ Sound(chan[e])

Silent == carrier = "stalled" => \A e \in End : chan[e] = <<>>

Pings == (\A e \in End : Asking(e) /\ Unhurt(e)) /\ Silent

-----------------------------------------------------------------------------
\* Queue r holds no frame of an exchange that q does not hold.
Leaner(r, q) ==
  \A k \in Pinging : /\ Single(q, k) => Single(r, k)
                     /\ Without(q, k) => Without(r, k)
                     /\ \A n : AllAre(q, k, n) => AllAre(r, k, n)

\* No frame of an exchange, and none that accuses.
Plain(r) == Sound(r) /\ \A k \in Pinging : Without(r, k)

LEMMA LeanerEqual == ASSUME NEW q PROVE Leaner(q, q)
  BY DEF Leaner

LEMMA LeanerEmpty == ASSUME NEW q PROVE Leaner(<<>>, q) /\ Sound(<<>>) /\ Plain(<<>>)
  BY DEF Leaner, Single, Without, AllAre, Sound, Plain

LEMMA LeanerTail ==
  ASSUME NEW q \in Seq(Message), q # <<>>
  PROVE  Leaner(Tail(q), q) /\ (Sound(q) => Sound(Tail(q)))
<1>1. ASSUME NEW k, Single(q, k) PROVE Single(Tail(q), k)
  <2> SUFFICES ASSUME NEW i \in 1..Len(Tail(q)), NEW j \in 1..Len(Tail(q)),
                      Tail(q)[i].k = k, Tail(q)[j].k = k
               PROVE  i = j
    BY DEF Single
  <2>1. i + 1 \in 1..Len(q) /\ j + 1 \in 1..Len(q) /\ q[i + 1].k = k /\ q[j + 1].k = k
    BY Shorter
  <2>2. i + 1 = j + 1
    BY <1>1, <2>1 DEF Single
  <2> QED BY <2>2
<1>2. /\ \A k : Without(q, k) => Without(Tail(q), k)
      /\ \A k, n : AllAre(q, k, n) => AllAre(Tail(q), k, n)
      /\ Sound(q) => Sound(Tail(q))
  BY Shorter DEF Without, AllAre, Sound
<1> QED BY <1>1, <1>2 DEF Leaner

LEMMA LeanerJoined ==
  ASSUME NEW q \in Seq(Message), NEW r \in Seq(Message), Plain(r)
  PROVE  Leaner(q \o r, q) /\ (Sound(q) => Sound(q \o r))
<1>1. ASSUME NEW k \in Pinging
      PROVE  /\ Single(q, k) => Single(q \o r, k)
             /\ Without(q, k) => Without(q \o r, k)
             /\ \A n : AllAre(q, k, n) => AllAre(q \o r, k, n)
  <2>1. \A i \in 1..Len(q \o r) : (q \o r)[i].k = k => i \in 1..Len(q) /\ (q \o r)[i] = q[i]
    BY Joined DEF Plain, Without
  <2>2. Single(q, k) => Single(q \o r, k)
    BY <2>1 DEF Single
  <2>3. Without(q, k) => Without(q \o r, k)
    BY <2>1 DEF Without
  <2>4. \A n : AllAre(q, k, n) => AllAre(q \o r, k, n)
    BY <2>1 DEF AllAre
  <2> QED BY <2>2, <2>3, <2>4
<1>2. Sound(q) => Sound(q \o r)
  BY Joined DEF Sound, Plain
<1> QED BY <1>1, <1>2 DEF Leaner

LEMMA LeanerAged ==
  ASSUME NEW q \in Seq(Message)
  PROVE  Leaner(Aged(q), q) /\ (Sound(q) => Sound(Aged(q)))
<1>1. /\ \A k : Single(q, k) => Single(Aged(q), k)
      /\ \A k : Without(q, k) => Without(Aged(q), k)
  BY Older DEF Single, Without
<1>2. \A k, n : AllAre(q, k, n) => AllAre(Aged(q), k, n)
  BY Older DEF AllAre
<1>3. Sound(q) => Sound(Aged(q))
  BY Older DEF Sound
<1> QED BY <1>1, <1>2, <1>3 DEF Leaner

\* A request, or an answer, joins a queue that held none.
LEMMA Adds ==
  ASSUME NEW q \in Seq(Message), NEW k \in Pinging, NEW n \in 1..MaxPings, Without(q, k)
  PROVE  LET r == q \o <<Frame(k, n)>>
         IN  /\ Single(r, k) /\ AllAre(r, k, n)
             /\ \A l \in Pinging \ {k} : /\ Single(q, l) => Single(r, l)
                                         /\ Without(q, l) => Without(r, l)
                                         /\ \A m : AllAre(q, l, m) => AllAre(r, l, m)
             /\ Sound(q) => Sound(r)
<1>1. /\ Frame(k, n) \in Message /\ Frame(k, n).k = k /\ Frame(k, n).n = n
      /\ Frame(k, n).code = ""
  <2>1. k \in FrameKinds /\ "" \in Codes
    BY DEF Pinging, FrameKinds, Codes
  <2>2. n \in 0..MaxPings /\ Delay \in 0..Delay
    BY BoundAssumption
  <2> QED BY <2>1, <2>2 DEF Frame, Message
<1>2. \A m \in Message : <<m>> \in Seq(Message) /\ Len(<<m>>) = 1 /\ <<m>>[1] = m
  OBVIOUS
<1> DEFINE f == <<Frame(k, n)>>
<1>3. f \in Seq(Message) /\ Len(f) = 1 /\ f[1] = Frame(k, n)
  BY <1>1, <1>2
<1> HIDE DEF f
<1>4. \A i \in 1..Len(q \o f) :
        \/ i \in 1..Len(q) /\ (q \o f)[i] = q[i]
        \/ i = Len(q) + 1 /\ (q \o f)[i] = Frame(k, n)
  <2>1. \A i \in 1..Len(q \o f) : i - Len(q) \in 1..Len(f) => i = Len(q) + 1 /\ i - Len(q) = 1
    BY <1>3, Joined
  <2> QED BY <1>3, <2>1, Joined
<1>5. Single(q \o f, k) /\ AllAre(q \o f, k, n)
  BY <1>1, <1>4 DEF Single, AllAre, Without
<1>6. ASSUME NEW l \in Pinging \ {k}
      PROVE  /\ Single(q, l) => Single(q \o f, l)
             /\ Without(q, l) => Without(q \o f, l)
             /\ \A m : AllAre(q, l, m) => AllAre(q \o f, l, m)
  BY <1>1, <1>4 DEF Single, AllAre, Without
<1>7. Sound(q) => Sound(q \o f)
  <2>1. "" \notin Faults /\ n > 0
    BY DEF Faults
  <2> QED BY <1>1, <1>4, <2>1 DEF Sound
<1> QED BY <1>5, <1>6, <1>7 DEF f

\* The one frame of its kind is read.
LEMMA Removes ==
  ASSUME NEW q \in Seq(Message), q # <<>>, NEW k, Head(q).k = k, Single(q, k)
  PROVE  /\ Without(Tail(q), k) /\ ~Without(q, k)
         /\ \A n : AllAre(q, k, n) => Head(q).n = n
         /\ Sound(q) /\ k \in Pinging => Head(q).n > 0
<1>1. \A i \in 1..Len(Tail(q)) : i + 1 \in 1..Len(q) /\ i + 1 # 1 /\ Tail(q)[i] = q[i + 1]
  BY Shorter
<1> QED BY <1>1, Shorter DEF Single, Without, AllAre, Sound

\* What frames can be lost, and what ends can give up, leaves an exchange as it is.
LEMMA Weaker ==
  ASSUME NEW l1, NEW w1, NEW r1, NEW o1, NEW t1, NEW a1, NEW b1,
         NEW l2, NEW w2, NEW r2, NEW o2, NEW t2, NEW a2, NEW b2,
         Exchange(l1, w1, r1, o1, t1, a1, b1),
         l2 \/ (~l1 /\ w2 = w1 /\ r2 = r1), o2 \in {0, o1}, t2 \in {0, t1},
         Leaner(a2, a1), Leaner(b2, b1)
  PROVE  Exchange(l2, w2, r2, o2, t2, a2, b2)
  BY DEF Exchange, Leaner, Pinging

\* A step that asks for nothing and answers nothing: the requests of the end stay, or
\* it gives up the session and with it what it has asked for.
Steady(x, y) ==
  /\ y.st \in Past \/ (x.st \notin Past /\ y.waits = x.waits /\ y.req = x.req)
  /\ y.owed \in {0, x.owed} /\ y.top \in {0, x.top}
  /\ y.ans = 0 /\ y.tokens = Budget /\ y.report[1] \notin Faults

LEMMA PingsStay ==
  ASSUME Pings, \A e \in End : Steady(s[e], s'[e]),
         \A e \in End : Leaner(chan'[e], chan[e]) /\ Sound(chan'[e]),
         carrier = "stalled" => carrier' = "stalled",
         carrier' = "stalled" => \A e \in End : chan'[e] = <<>>
  PROVE  Pings'
<1>1. ASSUME NEW e \in End PROVE Asking(e)'
  <2>1. Peer(e) \in End
    BY Ends2
  <2>2. Asking(e) /\ Steady(s[e], s'[e]) /\ Steady(s[Peer(e)], s'[Peer(e)])
    BY <2>1 DEF Pings
  <2>3. Loose(e)' \/ (~Loose(e) /\ s'[e].waits = s[e].waits /\ s'[e].req = s[e].req)
    BY <2>2 DEF Loose, Steady
  <2>4. s'[Peer(e)].owed \in {0, s[Peer(e)].owed} /\ s'[Peer(e)].top \in {0, s[Peer(e)].top}
    BY <2>2 DEF Steady
  <2>5. Leaner(chan'[e], chan[e]) /\ Leaner(chan'[Peer(e)], chan[Peer(e)])
    BY <2>1
  <2>6. Exchange(Loose(e)', s'[e].waits, s'[e].req, s'[Peer(e)].owed, s'[Peer(e)].top,
                 chan'[e], chan'[Peer(e)])
    BY <2>2, <2>3, <2>4, <2>5, Weaker DEF Asking
  <2> QED BY <2>6 DEF Asking
<1>2. ASSUME NEW e \in End PROVE Unhurt(e)'
  BY DEF Unhurt, Steady
<1>3. Silent'
  BY DEF Silent
<1> QED BY <1>1, <1>2, <1>3 DEF Pings

\* An end that does nothing.
LEMMA SteadyEnd == ASSUME Pings, NEW e \in End PROVE Steady(s[e], s[e])
  BY DEF Pings, Unhurt, Steady

LEMMA DoPings ==
  ASSUME IInv, Pings, NEW e \in End, NEW new, NEW frames \in Seq(Message), Do(e, new, frames),
         Steady(s[e], new), Plain(frames)
  PROVE  Pings'
<1>1. \A d \in End : Steady(s[d], s'[d])
  BY DoEffect, SteadyEnd, Ends2
<1>2. \A d \in End : chan[d] \in Seq(Message) /\ Sound(chan[d])
  BY DEF IInv, TypeOK, Pings, Unhurt
<1>3. Leaner(chan'[e], chan[e]) /\ Sound(chan'[e])
  BY <1>2, DoEffect, LeanerEqual, LeanerJoined
<1>4. Leaner(chan'[Peer(e)], chan[Peer(e)]) /\ Sound(chan'[Peer(e)])
  BY <1>2, DoEffect, LeanerEqual, Ends2
<1>5. carrier = "stalled" => \A d \in End : chan'[d] = <<>>
  BY DoEffect, Ends2 DEF Pings, Silent
<1>6. UNCHANGED carrier
  BY DoEffect
<1>7. \A d \in End : Leaner(chan'[d], chan[d]) /\ Sound(chan'[d])
  BY <1>3, <1>4, Ends2
<1> QED BY <1>1, <1>5, <1>6, <1>7, PingsStay

LEMMA ReadsPings ==
  ASSUME IInv, Pings, NEW e \in End, NEW new, NEW frames \in Seq(Message), Reads(e, new, frames),
         chan[Peer(e)] # <<>>, Steady(s[e], new), Plain(frames)
  PROVE  Pings'
<1>1. \A d \in End : Steady(s[d], s'[d])
  BY ReadsEffect, SteadyEnd, Ends2
<1>2. \A d \in End : chan[d] \in Seq(Message) /\ Sound(chan[d])
  BY DEF IInv, TypeOK, Pings, Unhurt
<1>3. Leaner(chan'[e], chan[e]) /\ Sound(chan'[e])
  BY <1>2, ReadsEffect, LeanerEqual, LeanerJoined
<1>4. Leaner(chan'[Peer(e)], chan[Peer(e)]) /\ Sound(chan'[Peer(e)])
  BY <1>2, ReadsEffect, LeanerTail, Ends2
<1>5. carrier # "stalled"
  BY Ends2 DEF Pings, Silent
<1>6. UNCHANGED carrier
  BY ReadsEffect
<1>7. \A d \in End : Leaner(chan'[d], chan[d]) /\ Sound(chan'[d])
  BY <1>3, <1>4, Ends2
<1> QED BY <1>1, <1>5, <1>6, <1>7, PingsStay

\* A step of one end that leaves the carrier to itself.
LEMMA EndPings ==
  ASSUME IInv, Pings, NEW e \in End, NEW new, s' = [s EXCEPT ![e] = new], Steady(s[e], new),
         carrier = "stalled" <=> carrier' = "stalled",
         NEW q, chan' = [chan EXCEPT ![Peer(e)] = q], q = chan[Peer(e)] \/ q = <<>> \/
                        (q = Tail(chan[Peer(e)]) /\ chan[Peer(e)] # <<>>)
  PROVE  Pings'
<1>1. TypeOK
  BY DEF IInv
<1>2. \A d \in End : Steady(s[d], s'[d])
  <2>1. s'[e] = new /\ s'[Peer(e)] = s[Peer(e)]
    BY <1>1, Ends2 DEF TypeOK
  <2> QED BY <2>1, SteadyEnd, Ends2
<1>3. \A d \in End : chan[d] \in Seq(Message) /\ Sound(chan[d])
  BY <1>1 DEF TypeOK, Pings, Unhurt
<1>4. chan'[e] = chan[e] /\ chan'[Peer(e)] = q
  BY <1>1, Ends2 DEF TypeOK
<1>5. Leaner(q, chan[Peer(e)]) /\ Sound(q)
  <2>1. chan[Peer(e)] \in Seq(Message) /\ Sound(chan[Peer(e)])
    BY <1>3, Ends2
  <2>2. CASE q = chan[Peer(e)]
    BY <2>1, <2>2, LeanerEqual
  <2>3. CASE q = <<>>
    BY <2>3, LeanerEmpty
  <2>4. CASE q = Tail(chan[Peer(e)]) /\ chan[Peer(e)] # <<>>
    BY <2>1, <2>4, LeanerTail
  <2> QED BY <2>2, <2>3, <2>4
<1>6. \A d \in End : Leaner(chan'[d], chan[d]) /\ Sound(chan'[d])
  BY <1>3, <1>4, <1>5, LeanerEqual, Ends2
<1>7. carrier' = "stalled" => \A d \in End : chan'[d] = <<>>
  BY <1>4, Ends2 DEF Pings, Silent
<1> QED BY <1>2, <1>6, <1>7, PingsStay

-----------------------------------------------------------------------------
(* Frames and states.                                                      *)

LEMMA PlainFrame ==
  ASSUME NEW k \in FrameKinds \ Pinging
  PROVE  Plain(<<Signal(k)>>)
<1>1. /\ Signal(k) \in Message /\ Signal(k).code = "" /\ Signal(k).k = k /\ "" \notin Faults
  BY Signals DEF Signal, Frame, Faults
<1>2. \A m \in Message : Len(<<m>>) = 1 /\ <<m>>[1] = m
  OBVIOUS
<1> DEFINE f == <<Signal(k)>>
<1>3. Len(f) = 1 /\ f[1] = Signal(k)
  BY <1>1, <1>2
<1> HIDE DEF f
<1>4. \A i \in 1..Len(f) : i = 1
  BY <1>3
<1>5. \A i \in 1..Len(f) : f[i].k = k /\ f[i].code \notin Faults
  BY <1>1, <1>3, <1>4
<1>6. Plain(f)
  BY <1>5 DEF Plain, Sound, Without
<1> QED BY <1>6 DEF f

LEMMA PlainClose ==
  ASSUME NEW code \in Codes \ Faults
  PROVE  Plain(<<Close(code), EOF>>) /\ <<Close(code), EOF>> \in Seq(Message)
<1>1. /\ Close(code) \in Message /\ Close(code).code = code /\ Close(code).k = "CLOSE"
  <2>1. Signal("CLOSE") \in Message /\ Signal("CLOSE").k = "CLOSE"
    BY Signals DEF FrameKinds
  <2> QED BY <2>1 DEF Close, Message
<1>2. EOF \in Message /\ EOF.code = "" /\ EOF.k = "EOF" /\ "" \notin Faults
  BY Signals DEF EOF, FrameKinds, Signal, Frame, Faults
<1>3. \A m, n \in Message : /\ Len(<<m, n>>) = 2 /\ <<m, n>>[1] = m /\ <<m, n>>[2] = n
                            /\ <<m, n>> \in Seq(Message)
  OBVIOUS
<1> DEFINE f == <<Close(code), EOF>>
<1>4. Len(f) = 2 /\ f[1] = Close(code) /\ f[2] = EOF /\ f \in Seq(Message)
  BY <1>1, <1>2, <1>3
<1> HIDE DEF f
<1>5. \A i \in 1..Len(f) : i = 1 \/ i = 2
  BY <1>4
<1>6. \A i \in 1..Len(f) : f[i].k \notin Pinging /\ f[i].code \notin Faults
  <2>1. code \notin Faults /\ "CLOSE" \notin Pinging /\ "EOF" \notin Pinging
    BY DEF Pinging
  <2> QED BY <1>1, <1>2, <1>4, <1>5, <2>1
<1>7. Plain(f)
  BY <1>6 DEF Plain, Sound, Without
<1> QED BY <1>4, <1>7 DEF f

LEMMA PlainOpening ==
  ASSUME NEW early \in BOOLEAN PROVE Plain(Opening(early))
<1>1. /\ "TP" \in FrameKinds \ Pinging /\ "FENCE" \in FrameKinds /\ "EARLY" \in FrameKinds
  BY DEF FrameKinds, Pinging
<1>2. CASE ~early
  BY <1>1, <1>2, PlainFrame DEF Opening
<1>3. CASE early
  <2>1. \A k \in {"TP", "FENCE", "EARLY"} : /\ Signal(k) \in Message /\ Signal(k).k \notin Pinging
                                            /\ Signal(k).code \notin Faults
    BY <1>1, Signals DEF Signal, Frame, Faults, Pinging
  <2>2. \A a, b, c \in Message : /\ Len(<<a, b, c>>) = 3 /\ <<a, b, c>>[1] = a
                                 /\ <<a, b, c>>[2] = b /\ <<a, b, c>>[3] = c
    OBVIOUS
  <2> DEFINE f == <<Signal("TP"), Signal("FENCE"), Signal("EARLY")>>
  <2>3. /\ Len(f) = 3 /\ f[1] = Signal("TP") /\ f[2] = Signal("FENCE") /\ f[3] = Signal("EARLY")
    BY <2>1, <2>2
  <2>4. Opening(early) = f
    BY <1>3 DEF Opening
  <2> HIDE DEF f
  <2>5. \A i \in 1..Len(f) : f[i].k \notin Pinging /\ f[i].code \notin Faults
    BY <2>1, <2>3
  <2> QED BY <2>4, <2>5 DEF Plain, Sound, Without
<1> QED BY <1>2, <1>3

\* The session is over for an end that accuses nobody.
LEMMA OverSteady ==
  ASSUME IInv, NEW e \in End, NEW code, NEW whose, code \notin Faults
  PROVE  /\ Steady(s[e], Over(s[e], code, whose))
         /\ Steady(s[e], Shut(s[e], code, whose))
<1>1. s[e] \in Endpoint /\ <<code, whose>>[1] = code
  BY Here
<1>2. ASSUME NEW y \in {Over(s[e], code, whose), Shut(s[e], code, whose)}
      PROVE  Steady(s[e], y)
  <2>1. /\ y.st \in Past /\ y.report[1] = code /\ y.owed = 0 /\ y.top = 0 /\ y.ans = 0
        /\ y.tokens = Budget
    BY <1>1, <1>2, OverFields
  <2> QED BY <2>1 DEF Steady
<1> QED BY <1>2

LEMMA FailPings ==
  ASSUME IInv, Pings, NEW e \in End, NEW code \in Codes \ Faults, Fail(e, code),
         chan[Peer(e)] # <<>>
  PROVE  Pings'
<1> DEFINE new == Over(s[e], code, "local")
           frames == <<Close(Wire(code)), EOF>>
<1>1. Reads(e, new, frames)
  BY DEF Fail
<1>2. Wire(code) \in Codes \ Faults
  BY Wires DEF Wire, Faults
<1>3. Steady(s[e], new) /\ Plain(frames) /\ frames \in Seq(Message)
  BY <1>2, OverSteady, PlainClose
<1> HIDE DEF new, frames
<1> QED BY <1>1, <1>3, ReadsPings

\* Whatever else of an open end changes, its requests stay.
LEMMA LikeSteady ==
  ASSUME IInv, Pings, NEW e \in End, s[e].st \notin Past, NEW y,
         y.waits = s[e].waits, y.req = s[e].req, y.owed = s[e].owed, y.top = s[e].top,
         y.ans = s[e].ans, y.tokens = s[e].tokens, y.report = s[e].report
  PROVE  Steady(s[e], y)
  BY DEF Steady, Pings, Unhurt

LEMMA Nothing == Plain(<<>>) /\ <<>> \in Seq(Message)
  BY LeanerEmpty, EmptyQueue

LEMMA StartPings == ASSUME IInv, Pings, NEW e \in End, Start(e) PROVE Pings'
<1>1. PICK early \in BOOLEAN :
        Do(e, [s[e] EXCEPT !.st = "start", !.early = early], Opening(early))
  BY DEF Start, MayBeEarly
<1> DEFINE new == [s[e] EXCEPT !.st = "start", !.early = early]
<1>2. s[e] \in Endpoint /\ s[e].st = "new"
  BY Here DEF Start
<1>3. Steady(s[e], new)
  <2>1. /\ new.waits = s[e].waits /\ new.req = s[e].req /\ new.owed = s[e].owed
        /\ new.top = s[e].top /\ new.ans = s[e].ans /\ new.tokens = s[e].tokens
        /\ new.report = s[e].report /\ s[e].st \notin Past
    BY <1>2 DEF Past, Endpoint
  <2> HIDE DEF new
  <2> QED BY <2>1, LikeSteady
<1>4. Do(e, new, Opening(early))
  BY <1>1
<1> HIDE DEF new
<1> QED BY <1>3, <1>4, Openings, PlainOpening, DoPings

LEMMA RecvParametersPings == ASSUME IInv, Pings, NEW e \in End, RecvParameters(e) PROVE Pings'
<1> DEFINE bad == Objections(cfg[e], cfg[Peer(e)], Transport(e), s[e].early)
           new == [s[e] EXCEPT !.st = "open", !.timer = 0, !.role = Resolved(e)]
<1>1. /\ s[e].st = "start" /\ chan[Peer(e)] # <<>>
      /\ (bad = {} /\ Reads(e, new, <<>>)) \/ (\E code \in bad : Fail(e, code))
  BY DEF RecvParameters, On, Resolved
<1>2. CASE Reads(e, new, <<>>)
  <2>1. Steady(s[e], new)
    <3>1. s[e] \in Endpoint
      BY Here
    <3>2. /\ new.waits = s[e].waits /\ new.req = s[e].req /\ new.owed = s[e].owed
          /\ new.top = s[e].top /\ new.ans = s[e].ans /\ new.tokens = s[e].tokens
          /\ new.report = s[e].report /\ s[e].st \notin Past
      BY <1>1, <3>1 DEF Past, Endpoint
    <3> HIDE DEF new
    <3> QED BY <3>2, LikeSteady
  <2>2. Reads(e, new, <<>>)
    BY <1>2
  <2> HIDE DEF new
  <2> QED BY <1>1, <2>1, <2>2, Nothing, ReadsPings
<1>3. ASSUME NEW code \in bad, Fail(e, code) PROVE Pings'
  <2>1. code \in Codes \ Faults
    BY DEF Objections, Codes, Faults
  <2> QED BY <1>1, <1>3, <2>1, FailPings
<1> QED BY <1>1, <1>2, <1>3

LEMMA RecvFencePings == ASSUME IInv, Pings, NEW e \in End, RecvFence(e) PROVE Pings'
<1>1. /\ s[e].st = "open" /\ chan[Peer(e)] # <<>>
      /\ IF Acks THEN Reads(e, s[e], <<>>) ELSE Fail(e, "FRAME_ENCODING_ERROR")
  BY DEF RecvFence, On
<1>2. Steady(s[e], s[e]) /\ "FRAME_ENCODING_ERROR" \in Codes \ Faults
  BY SteadyEnd DEF Codes, Faults
<1>3. CASE Acks
  BY <1>1, <1>2, <1>3, Nothing, ReadsPings
<1>4. CASE ~Acks
  BY <1>1, <1>2, <1>4, FailPings
<1> QED BY <1>3, <1>4

\* What an open end hears, and what it passes on, leaves its requests alone.
LEMMA OpenSteady ==
  ASSUME IInv, Pings, NEW e \in End, s[e].st = "open"
  PROVE  /\ Steady(s[e], Heard(s[e])) /\ Steady(s[e], Active(s[e])) /\ Steady(s[e], Passed(s[e]))
         /\ \A v : /\ Steady(s[e], [Heard(s[e]) EXCEPT !.took = v])
                   /\ Steady(s[e], [Passed(s[e]) EXCEPT !.data = v])
                   /\ Steady(s[e], [s[e] EXCEPT !.ackDue = v])
                   /\ Steady(s[e], [s[e] EXCEPT !.kept = v])
<1>1. s[e] \in Endpoint /\ s[e].st \notin Past
  BY Here DEF Past
<1>2. /\ Heard(s[e]) \in Endpoint /\ Active(s[e]) \in Endpoint /\ Passed(s[e]) \in Endpoint
  BY Here
<1>3. Steady(s[e], Heard(s[e])) /\ Steady(s[e], Active(s[e])) /\ Steady(s[e], Passed(s[e]))
  BY <1>1, LikeSteady, HeardFields, ActiveFields, PassedFields
<1>4. ASSUME NEW y \in Endpoint, Steady(s[e], y), NEW v
      PROVE  /\ Steady(s[e], [y EXCEPT !.took = v]) /\ Steady(s[e], [y EXCEPT !.data = v])
             /\ Steady(s[e], [y EXCEPT !.ackDue = v]) /\ Steady(s[e], [y EXCEPT !.kept = v])
  BY <1>4 DEF Steady, Endpoint
<1> QED BY <1>1, <1>2, <1>3, <1>4, SteadyEnd

LEMMA RecvEarlyPings == ASSUME IInv, Pings, NEW e \in End, RecvEarly(e) PROVE Pings'
<1>1. /\ s[e].st = "open" /\ chan[Peer(e)] # <<>>
      /\ \/ Fail(e, "STREAM_LIMIT_ERROR")
         \/ Reads(e, [Heard(s[e]) EXCEPT !.took = TRUE], <<>>)
  BY DEF RecvEarly, On
<1>2. "STREAM_LIMIT_ERROR" \in Codes \ Faults
  BY DEF Codes, Faults
<1>3. Steady(s[e], [Heard(s[e]) EXCEPT !.took = TRUE])
  BY <1>1, OpenSteady
<1> QED BY <1>1, <1>2, <1>3, Nothing, ReadsPings, FailPings

LEMMA SendDataPings == ASSUME IInv, Pings, NEW e \in End, SendData(e) PROVE Pings'
<1>1. /\ s[e].st = "open"
      /\ Do(e, [Passed(s[e]) EXCEPT !.data = Passed(s[e]).data + 1], <<Signal("DATA")>>)
  BY DEF SendData
<1>2. Plain(<<Signal("DATA")>>) /\ <<Signal("DATA")>> \in Seq(Message)
  BY PlainFrame, Signals DEF FrameKinds, Pinging
<1>3. Steady(s[e], [Passed(s[e]) EXCEPT !.data = Passed(s[e]).data + 1])
  BY <1>1, OpenSteady
<1> QED BY <1>1, <1>2, <1>3, DoPings

LEMMA RecvDataPings == ASSUME IInv, Pings, NEW e \in End, RecvData(e) PROVE Pings'
<1>1. s[e].st = "open" /\ chan[Peer(e)] # <<>> /\ Reads(e, Heard(s[e]), <<>>)
  BY DEF RecvData, On
<1> QED BY <1>1, OpenSteady, Nothing, ReadsPings

LEMMA SendAckPings == ASSUME IInv, Pings, NEW e \in End, SendAck(e) PROVE Pings'
<1>1. s[e].st = "open" /\ Do(e, [s[e] EXCEPT !.ackDue = FALSE], <<Signal("ACK")>>)
  BY DEF SendAck
<1>2. Plain(<<Signal("ACK")>>) /\ <<Signal("ACK")>> \in Seq(Message)
  BY PlainFrame, Signals DEF FrameKinds, Pinging
<1>3. Steady(s[e], [s[e] EXCEPT !.ackDue = FALSE])
  BY <1>1, OpenSteady
<1> QED BY <1>1, <1>2, <1>3, DoPings

LEMMA RecvAckPings == ASSUME IInv, Pings, NEW e \in End, RecvAck(e) PROVE Pings'
<1>1. s[e].st = "open" /\ chan[Peer(e)] # <<>> /\ Reads(e, Active(s[e]), <<>>)
  BY DEF RecvAck, On
<1> QED BY <1>1, OpenSteady, Nothing, ReadsPings

-----------------------------------------------------------------------------
(* The exchange itself.                                                    *)

\* A step that moves the requests of e, and what its peer owes on them.
LEMMA AskingMoves ==
  ASSUME IInv, Pings, NEW e \in End, Asking(e)', Asking(Peer(e))',
         \A d \in End : s'[d].ans = 0 /\ s'[d].tokens = s[d].tokens /\ s'[d].report = s[d].report,
         \A d \in End : Sound(chan'[d]),
         UNCHANGED carrier, carrier # "stalled" \/ UNCHANGED chan
  PROVE  Pings'
<1>1. \A d \in End : Asking(d)'
  BY Ends2
<1>2. \A d \in End : Unhurt(d)'
  BY DEF Pings, Unhurt
<1> QED BY <1>1, <1>2 DEF Pings, Silent

\* The next request: the last one is answered, or nothing arrives any more.
LEMMA AsksPings ==
  ASSUME IInv, Pings, NEW e \in End, s[e].st = "open", ~s[e].waits, s[e].req < MaxPings,
         NEW new, new.st = "open", new.req = s[e].req + 1, new.waits, new.owed = s[e].owed,
         new.top = s[e].top, new.ans = s[e].ans, new.tokens = s[e].tokens,
         new.report = s[e].report, Do(e, new, <<Frame("PING", s[e].req + 1)>>)
  PROVE  Pings'
<1> DEFINE p == Peer(e)
           n == s[e].req + 1
           f == <<Frame("PING", n)>>
<1>1. /\ p \in End /\ p # e /\ Peer(p) = e
      /\ s'[e] = new /\ s'[p] = s[p] /\ UNCHANGED carrier
      /\ chan'[e] = IF carrier = "up" THEN chan[e] \o f ELSE chan[e]
      /\ chan'[p] = chan[p] /\ chan[e] \in Seq(Message) /\ chan[p] \in Seq(Message)
  BY DoEffect, Ends2
<1>2. n \in 1..MaxPings /\ n > 0
  BY Here, Fields
<1>3. Asking(e) /\ Asking(p) /\ Unhurt(e) /\ Unhurt(p) /\ Silent
  BY <1>1 DEF Pings
<1> HIDE DEF n
<1>4. CASE carrier = "stalled"
  <2>1. /\ \A d \in End : chan'[d] = chan[d] /\ chan[d] = <<>>
    BY <1>1, <1>3, <1>4, Ends2 DEF Silent
  <2>2. Loose(e)' /\ Loose(p)'
    BY <1>1, <1>4 DEF Loose
  <2>3. Without(<<>>, "PING") /\ Without(<<>>, "PONG") /\ Single(<<>>, "PING") /\ Single(<<>>, "PONG")
    BY DEF Without, Single
  <2>4. Asking(e)' /\ Asking(p)'
    BY <1>1, <2>1, <2>2, <2>3 DEF Asking, Exchange
  <2>5. UNCHANGED chan
    BY <1>4 DEF Do, Sent, IInv, TypeOK
  <2>6. \A d \in End : Sound(chan'[d])
    BY <2>1, LeanerEmpty
  <2> QED BY <1>1, <1>3, <2>4, <2>5, <2>6, Ends2, AskingMoves DEF Unhurt
<1>5. CASE carrier # "stalled"
  <2>1. ~Loose(e) /\ ~Loose(e)'
    BY <1>1, <1>5 DEF Loose, Past
  <2>2. /\ s[e].req = 0 /\ s[p].owed = 0 /\ s[p].top = 0
        /\ Without(chan[e], "PING") /\ Without(chan[p], "PONG")
    BY <1>3, <2>1 DEF Asking, Exchange
  <2>3. /\ Single(chan'[e], "PING") /\ AllAre(chan'[e], "PING", n) /\ Sound(chan'[e])
        /\ Single(chan[e], "PONG") => Single(chan'[e], "PONG")
        /\ Without(chan[e], "PONG") => Without(chan'[e], "PONG")
        /\ \A m : AllAre(chan[e], "PONG", m) => AllAre(chan'[e], "PONG", m)
    <3>1. Sound(chan[e]) /\ Single(chan[e], "PING") /\ AllAre(chan[e], "PING", n)
      BY <1>3, <2>2 DEF Unhurt, Without, Single, AllAre
    <3> QED BY <1>1, <1>2, <2>2, <3>1, Adds DEF Pinging
  <2>4. Asking(e)'
    <3>1. Exchange(FALSE, new.waits, n, s[p].owed, s[p].top, chan'[e], chan[p])
      <4>1. AllAre(chan[p], "PONG", n) /\ Single(chan[p], "PONG")
        BY <2>2 DEF AllAre, Single, Without
      <4> QED BY <1>2, <2>2, <2>3, <4>1 DEF Exchange
    <3>2. Exchange(Loose(e)', s'[e].waits, s'[e].req, s'[p].owed, s'[p].top, chan'[e], chan'[p])
      BY <1>1, <3>1 DEF n, Exchange
    <3> QED BY <3>2 DEF Asking
  <2>5. Asking(p)'
    <3>1. Exchange(Loose(p), s[p].waits, s[p].req, s[e].owed, s[e].top, chan[p], chan[e])
      BY <1>1, <1>3 DEF Asking
    <3>2. Exchange(Loose(p), s[p].waits, s[p].req, s[e].owed, s[e].top, chan[p], chan'[e])
      BY <2>3, <3>1 DEF Exchange
    <3>3. Loose(p)' = Loose(p)
      BY <1>1 DEF Loose
    <3> QED BY <1>1, <3>2, <3>3 DEF Asking
  <2>6. \A d \in End : Sound(chan'[d])
    BY <1>1, <1>3, <2>3, Ends2 DEF Unhurt
  <2>7. \A d \in End : s'[d].ans = 0 /\ s'[d].tokens = s[d].tokens /\ s'[d].report = s[d].report
    BY <1>1, <1>3, Ends2 DEF Unhurt
  <2> QED BY <1>1, <1>5, <2>4, <2>5, <2>6, <2>7, AskingMoves
<1> QED BY <1>4, <1>5

LEMMA AsksFields ==
  ASSUME NEW x \in Endpoint
  PROVE  /\ Asks(x).req = x.req + 1 /\ Asks(x).waits /\ Asks(x).st = x.st
         /\ Asks(x).owed = x.owed /\ Asks(x).top = x.top /\ Asks(x).ans = x.ans
         /\ Asks(x).tokens = x.tokens /\ Asks(x).report = x.report
         /\ Asks(x).timer = x.timer /\ Asks(x).ackDue = x.ackDue /\ Asks(x).kept = x.kept
<1>1. /\ Asks(x).req = x.req + 1 /\ Asks(x).waits = TRUE /\ Asks(x).st = x.st
      /\ Asks(x).owed = x.owed /\ Asks(x).top = x.top /\ Asks(x).ans = x.ans
      /\ Asks(x).tokens = x.tokens /\ Asks(x).report = x.report
      /\ Asks(x).timer = x.timer /\ Asks(x).ackDue = x.ackDue /\ Asks(x).kept = x.kept
  BY DEF Asks, Endpoint
<1>2. Asks(x).waits
  BY ONLY <1>1
<1> QED BY <1>1, <1>2

LEMMA PingPings == ASSUME IInv, Pings, NEW e \in End, Ping(e) PROVE Pings'
<1>1. /\ s[e].st = "open" /\ ~s[e].waits /\ s[e].req < MaxPings
      /\ Do(e, Asks(s[e]), <<Frame("PING", s[e].req + 1)>>)
  BY DEF Ping
<1> QED BY <1>1, Here, AsksFields, AsksPings

LEMMA KeepAlivePings == ASSUME IInv, Pings, NEW e \in End, KeepAlive(e) PROVE Pings'
<1>1. s[e].st = "open"
  BY DEF KeepAlive, KeepAliveDue
<1>2. CASE s[e].waits \/ s[e].req = MaxPings
  <2>1. Do(e, [s[e] EXCEPT !.kept = TRUE], <<>>)
    BY <1>2 DEF KeepAlive
  <2>2. Steady(s[e], [s[e] EXCEPT !.kept = TRUE])
    BY <1>1, OpenSteady
  <2> QED BY <2>1, <2>2, Nothing, DoPings
<1>3. CASE ~(s[e].waits \/ s[e].req = MaxPings)
  <2> DEFINE new == [Asks(s[e]) EXCEPT !.kept = TRUE]
  <2>1. Do(e, new, <<Frame("PING", s[e].req + 1)>>)
    BY <1>3 DEF KeepAlive
  <2>2. s[e].req < MaxPings /\ ~s[e].waits
    BY <1>3, Here, Fields
  <2>3. /\ s[e] \in Endpoint /\ Asks(s[e]) \in Endpoint
    BY <2>2, Here, Asked
  <2>4. /\ new.req = s[e].req + 1 /\ new.waits = Asks(s[e]).waits /\ new.st = "open"
        /\ new.owed = s[e].owed /\ new.top = s[e].top /\ new.ans = s[e].ans
        /\ new.tokens = s[e].tokens /\ new.report = s[e].report
    BY <1>1, <2>3, AsksFields DEF Endpoint
  <2> HIDE DEF new
  <2>5. new.waits
    BY <2>3, <2>4, AsksFields
  <2> QED BY <1>1, <2>1, <2>2, <2>4, <2>5, AsksPings
<1> QED BY <1>2, <1>3

\* On a carrier that delivers nothing more a request may be given up.
LEMMA GiveUpPings == ASSUME IInv, Pings, NEW e \in End, GiveUp(e) PROVE Pings'
<1> DEFINE new == [s[e] EXCEPT !.waits = FALSE]
<1>1. carrier = "stalled" /\ s[e].st = "open" /\ Do(e, new, <<>>)
  BY DEF GiveUp
<1>2. /\ s[e] \in Endpoint /\ Peer(e) \in End
  BY Here, Ends2
<1>3. /\ new.owed = s[e].owed /\ new.top = s[e].top /\ new.ans = s[e].ans
      /\ new.tokens = s[e].tokens /\ new.report = s[e].report
  BY <1>2 DEF Endpoint
<1> HIDE DEF new
<1>4. /\ s'[e] = new /\ s'[Peer(e)] = s[Peer(e)] /\ UNCHANGED carrier
  BY <1>1, DoEffect
<1>5. UNCHANGED chan
  BY <1>1 DEF Do, Sent, IInv, TypeOK
<1>6. \A d \in End : /\ s'[d].ans = 0 /\ s'[d].tokens = s[d].tokens
                     /\ s'[d].report = s[d].report
                     /\ s'[d].owed = s[d].owed /\ s'[d].top = s[d].top
  BY <1>3, <1>4, Ends2 DEF Pings, Unhurt
<1>7. ASSUME NEW d \in End PROVE Asking(d)'
  <2>1. Loose(d)' /\ Peer(d) \in End /\ Asking(d)
    BY <1>1, <1>4, Ends2 DEF Loose, Pings
  <2>2. Exchange(Loose(d)', s'[d].waits, s'[d].req, s[Peer(d)].owed, s[Peer(d)].top,
                 chan[d], chan[Peer(d)])
    BY <2>1 DEF Asking, Exchange
  <2> QED BY <1>5, <1>6, <2>1, <2>2 DEF Asking
<1>8. \A d \in End : Sound(chan'[d])
  BY <1>5 DEF Pings, Unhurt
<1> QED BY <1>4, <1>5, <1>6, <1>7, <1>8, Ends2, AskingMoves

\* What e reads, it reads of a carrier that is not silent, and of a sound queue.
LEMMA Heads ==
  ASSUME IInv, Pings, NEW e \in End, chan[Peer(e)] # <<>>
  PROVE  /\ carrier # "stalled" /\ chan[Peer(e)] \in Seq(Message) /\ chan[e] \in Seq(Message)
         /\ Sound(chan[Peer(e)]) /\ Sound(chan[e]) /\ Got(e) = Head(chan[Peer(e)])
         /\ Got(e).code \in Codes \ Faults /\ Got(e) \in Message
<1>1. /\ chan[Peer(e)] \in Seq(Message) /\ chan[e] \in Seq(Message)
      /\ Sound(chan[Peer(e)]) /\ Sound(chan[e]) /\ carrier # "stalled"
  BY Ends2 DEF IInv, TypeOK, Pings, Unhurt, Silent
<1>2. /\ 1 \in 1..Len(chan[Peer(e)]) /\ Got(e) = chan[Peer(e)][1] /\ Got(e) \in Message
      /\ Got(e) = Head(chan[Peer(e)])
  BY <1>1, Shorter DEF Got
<1>3. Got(e).code \in Codes \ Faults
  BY <1>1, <1>2 DEF Sound, Message
<1> QED BY <1>1, <1>2, <1>3

LEMMA RecvPingPings == ASSUME IInv, Pings, NEW e \in End, RecvPing(e) PROVE Pings'
<1> DEFINE p == Peer(e)
           n == Got(e).n
           x == [Heard(s[e]) EXCEPT !.top = n, !.owed = n]
           new == [x EXCEPT !.tokens = x.tokens]
<1>1. /\ s[e].st = "open" /\ chan[p] # <<>> /\ Got(e).k = "PING"
      /\ ~(n <= s[e].top) /\ ~(s[e].owed > 0) => Reads(e, new, <<>>)
  BY DEF RecvPing, On, Got, Charged
<1>2. /\ p \in End /\ Peer(p) = e /\ p # e /\ carrier # "stalled"
      /\ chan[p] \in Seq(Message) /\ Sound(chan[p]) /\ Got(e) = Head(chan[p])
      /\ Asking(e) /\ Asking(p)
  BY <1>1, Heads, Ends2 DEF Pings
<1>3. Exchange(Loose(p), s[p].waits, s[p].req, s[e].owed, s[e].top, chan[p], chan[e])
  BY <1>2 DEF Asking
<1>4. /\ Without(Tail(chan[p]), "PING") /\ ~Without(chan[p], "PING") /\ n > 0
      /\ \A m : AllAre(chan[p], "PING", m) => n = m
      /\ Leaner(Tail(chan[p]), chan[p]) /\ Sound(Tail(chan[p]))
  <2>1. Single(chan[p], "PING")
    BY <1>3 DEF Exchange
  <2> QED BY <1>1, <1>2, <2>1, Removes, LeanerTail DEF Pinging
<1>5. s[e].owed = 0 /\ s[e].top = 0 /\ Without(chan[e], "PONG")
  BY <1>3, <1>4 DEF Exchange
<1>6. Reads(e, new, <<>>)
  <2>1. n \in 0..MaxPings /\ MaxPings \in Nat
    BY <1>1, NextFrame, BoundAssumption
  <2>2. ~(n <= 0) /\ ~(0 > 0)
    BY <1>4, <2>1
  <2> QED BY <1>1, <1>5, <2>2
<1>7. /\ new.owed = n /\ new.top = n /\ new.ans = s[e].ans /\ new.tokens = s[e].tokens
      /\ new.report = s[e].report /\ new.st = s[e].st /\ new.waits = s[e].waits
      /\ new.req = s[e].req
  <2>1. s[e] \in Endpoint /\ Heard(s[e]) \in Endpoint
    BY Here
  <2>2. /\ new.owed = n /\ new.top = n /\ new.ans = Heard(s[e]).ans
        /\ new.tokens = Heard(s[e]).tokens /\ new.report = Heard(s[e]).report
        /\ new.st = Heard(s[e]).st /\ new.waits = Heard(s[e]).waits /\ new.req = Heard(s[e]).req
    BY <2>1 DEF Endpoint
  <2> HIDE DEF new
  <2> QED BY <2>1, <2>2, HeardFields
<1> HIDE DEF new
<1>8. /\ s'[e] = new /\ s'[p] = s[p] /\ UNCHANGED carrier
      /\ chan'[p] = Tail(chan[p]) /\ chan'[e] = chan[e]
  <2>1. chan[e] \o <<>> = chan[e]
    BY <1>1, Heads
  <2> QED BY <1>6, <2>1, ReadsEffect
<1> HIDE DEF n, x
<1>9. Asking(p)'
  <2>1. Loose(p)' = Loose(p)
    BY <1>8 DEF Loose
  <2>2. Exchange(Loose(p), s[p].waits, s[p].req, n, n, Tail(chan[p]), chan[e])
    <3>1. Leaner(Tail(chan[p]), chan[p]) /\ Without(Tail(chan[p]), "PING")
      BY <1>4
    <3>2. /\ Single(Tail(chan[p]), "PING")
          /\ \A m : AllAre(Tail(chan[p]), "PING", m)
      BY <1>4 DEF Without, Single, AllAre
    <3> QED BY <1>3, <1>4, <1>5, <3>2 DEF Exchange
  <2> QED BY <1>2, <1>7, <1>8, <2>1, <2>2 DEF Asking
<1>10. Asking(e)'
  <2>1. Loose(e)' = Loose(e)
    BY <1>7, <1>8 DEF Loose
  <2>2. Exchange(Loose(e), s[e].waits, s[e].req, s[p].owed, s[p].top, chan[e], chan[p])
    BY <1>2 DEF Asking
  <2>3. Exchange(Loose(e), s[e].waits, s[e].req, s[p].owed, s[p].top, chan[e], Tail(chan[p]))
    BY <1>4, <2>2, Weaker, LeanerEqual
  <2> QED BY <1>2, <1>7, <1>8, <2>1, <2>3 DEF Asking
<1>11. \A d \in End : s'[d].ans = 0 /\ s'[d].tokens = s[d].tokens /\ s'[d].report = s[d].report
  BY <1>7, <1>8, Ends2 DEF Pings, Unhurt
<1>12. \A d \in End : Sound(chan'[d])
  BY <1>4, <1>8, Ends2 DEF Pings, Unhurt
<1> QED BY <1>2, <1>8, <1>9, <1>10, <1>11, <1>12, AskingMoves

LEMMA RespondPings == ASSUME IInv, Pings, NEW e \in End, Respond(e) PROVE Pings'
<1> DEFINE p == Peer(e)
           n == s[e].owed
           f == <<Frame("PONG", n)>>
           new == [Passed(s[e]) EXCEPT !.owed = 0]
<1>1. s[e].st = "open" /\ n > 0 /\ Do(e, new, f)
  BY DEF Respond
<1>2. /\ n \in 1..MaxPings /\ n # 0
      /\ p \in End /\ Peer(p) = e /\ p # e
  BY <1>1, Here, Fields, Ends2
<1>3. /\ Asking(e) /\ Asking(p) /\ Sound(chan[e]) /\ Sound(chan[p]) /\ Silent
  BY <1>2 DEF Pings, Unhurt
<1>4. Exchange(Loose(p), s[p].waits, s[p].req, n, s[e].top, chan[p], chan[e])
  BY <1>2, <1>3 DEF Asking
<1>5. Without(chan[p], "PING") /\ Without(chan[e], "PONG")
  BY <1>2, <1>4 DEF Exchange
<1>6. /\ new.owed = 0 /\ new.top = s[e].top /\ new.ans = s[e].ans /\ new.tokens = s[e].tokens
      /\ new.report = s[e].report /\ new.st = s[e].st /\ new.waits = s[e].waits
      /\ new.req = s[e].req
  <2>1. s[e] \in Endpoint /\ Passed(s[e]) \in Endpoint
    BY Here
  <2>2. /\ new.owed = 0 /\ new.top = Passed(s[e]).top /\ new.ans = Passed(s[e]).ans
        /\ new.tokens = Passed(s[e]).tokens /\ new.report = Passed(s[e]).report
        /\ new.st = Passed(s[e]).st /\ new.waits = Passed(s[e]).waits
        /\ new.req = Passed(s[e]).req
    BY <2>1 DEF Endpoint
  <2> HIDE DEF new
  <2> QED BY <2>1, <2>2, PassedFields
<1> HIDE DEF new
<1>7. /\ s'[e] = new /\ s'[p] = s[p] /\ UNCHANGED carrier
      /\ chan'[e] = IF carrier = "up" THEN chan[e] \o f ELSE chan[e]
      /\ chan'[p] = chan[p] /\ chan[e] \in Seq(Message) /\ chan[p] \in Seq(Message)
  BY <1>1, DoEffect
<1>8. /\ Single(chan'[e], "PONG") /\ AllAre(chan'[e], "PONG", n) /\ Sound(chan'[e])
      /\ Single(chan[e], "PING") => Single(chan'[e], "PING")
      /\ Without(chan[e], "PING") => Without(chan'[e], "PING")
      /\ \A m : AllAre(chan[e], "PING", m) => AllAre(chan'[e], "PING", m)
  <2>1. Single(chan[e], "PONG") /\ AllAre(chan[e], "PONG", n)
    BY <1>5 DEF Without, Single, AllAre
  <2> HIDE DEF n
  <2> QED BY <1>2, <1>3, <1>5, <1>7, <2>1, Adds DEF Pinging
<1>9. Asking(p)'
  <2>1. Loose(p)' = Loose(p)
    BY <1>7 DEF Loose
  <2>2. Exchange(Loose(p), s[p].waits, s[p].req, 0, s[e].top, chan[p], chan'[e])
    BY <1>2, <1>4, <1>5, <1>8 DEF Exchange
  <2> QED BY <1>2, <1>6, <1>7, <2>1, <2>2 DEF Asking
<1>10. Asking(e)'
  <2>1. Loose(e)' = Loose(e)
    BY <1>6, <1>7 DEF Loose
  <2>2. Exchange(Loose(e), s[e].waits, s[e].req, s[p].owed, s[p].top, chan[e], chan[p])
    BY <1>3 DEF Asking
  <2>3. Exchange(Loose(e), s[e].waits, s[e].req, s[p].owed, s[p].top, chan'[e], chan[p])
    BY <1>8, <2>2 DEF Exchange
  <2> QED BY <1>2, <1>6, <1>7, <2>1, <2>3 DEF Asking
<1>11. \A d \in End : s'[d].ans = 0 /\ s'[d].tokens = s[d].tokens /\ s'[d].report = s[d].report
  BY <1>6, <1>7, Ends2 DEF Pings, Unhurt
<1>12. \A d \in End : Sound(chan'[d])
  BY <1>3, <1>7, <1>8, Ends2
<1>13. carrier # "stalled" \/ UNCHANGED chan
  BY <1>1 DEF Do, Sent, IInv, TypeOK
<1> QED BY <1>7, <1>9, <1>10, <1>11, <1>12, <1>13, AskingMoves

\* A response is to the last request, and ends the exchange.
LEMMA RecvPongPings == ASSUME IInv, Pings, NEW e \in End, RecvPong(e) PROVE Pings'
<1> DEFINE p == Peer(e)
           n == Got(e).n
           mine == [Heard(s[e]) EXCEPT !.ans = 0, !.req = 0, !.waits = FALSE]
           other == [s[p] EXCEPT !.top = 0]
<1>1. s[e].st = "open" /\ chan[p] # <<>> /\ Got(e).k = "PONG"
  BY DEF RecvPong, On, Got
<1>2. /\ p \in End /\ Peer(p) = e /\ p # e /\ carrier # "stalled"
      /\ chan[p] \in Seq(Message) /\ Sound(chan[p]) /\ Sound(chan[e]) /\ Got(e) = Head(chan[p])
      /\ Asking(e) /\ Asking(p)
  BY <1>1, Heads, Ends2 DEF Pings
<1>3. Exchange(FALSE, s[e].waits, s[e].req, s[p].owed, s[p].top, chan[e], chan[p])
  <2>1. ~Loose(e)
    BY <1>1, <1>2 DEF Loose, Past
  <2> QED BY <1>2, <2>1 DEF Asking, Exchange
<1>4. /\ Without(Tail(chan[p]), "PONG") /\ ~Without(chan[p], "PONG") /\ n > 0
      /\ \A m : AllAre(chan[p], "PONG", m) => n = m
      /\ Leaner(Tail(chan[p]), chan[p]) /\ Sound(Tail(chan[p]))
  <2>1. Single(chan[p], "PONG")
    BY <1>3 DEF Exchange
  <2> QED BY <1>1, <1>2, <2>1, Removes, LeanerTail DEF Pinging
<1>5. n = s[e].req /\ s[p].owed = 0 /\ Without(chan[e], "PING") /\ s[e].ans = 0
  BY <1>3, <1>4 DEF Exchange, Pings, Unhurt
<1>6. ~(n > s[e].req) /\ ~(n < s[e].req \/ n <= s[e].ans)
  <2>1. n \in 0..MaxPings /\ MaxPings \in Nat
    BY <1>1, NextFrame, BoundAssumption
  <2> HIDE DEF n
  <2> QED BY <1>4, <1>5, <2>1
<1>7. /\ s' = [s EXCEPT ![e] = mine, ![p] = other]
      /\ chan' = [chan EXCEPT ![p] = Tail(chan[p])]
      /\ UNCHANGED <<cfg, carrier>>
  BY <1>2, <1>6 DEF RecvPong
<1>8. /\ s'[e] = mine /\ s'[p] = other /\ chan'[p] = Tail(chan[p]) /\ chan'[e] = chan[e]
  BY <1>2, <1>7 DEF IInv, TypeOK
<1>9. /\ mine.ans = 0 /\ mine.req = 0 /\ mine.waits = FALSE /\ mine.tokens = s[e].tokens
      /\ mine.report = s[e].report /\ mine.st = s[e].st
      /\ mine.owed = s[e].owed /\ mine.top = s[e].top
  <2>1. s[e] \in Endpoint /\ Heard(s[e]) \in Endpoint
    BY Here
  <2>2. /\ mine.ans = 0 /\ mine.req = 0 /\ mine.waits = FALSE
        /\ mine.tokens = Heard(s[e]).tokens /\ mine.report = Heard(s[e]).report
        /\ mine.st = Heard(s[e]).st /\ mine.owed = Heard(s[e]).owed /\ mine.top = Heard(s[e]).top
    BY <2>1 DEF Endpoint
  <2> HIDE DEF mine
  <2> QED BY <2>1, <2>2, HeardFields
<1>10. /\ other.ans = s[p].ans /\ other.req = s[p].req /\ other.waits = s[p].waits
       /\ other.tokens = s[p].tokens /\ other.report = s[p].report /\ other.st = s[p].st
       /\ other.owed = s[p].owed /\ other.top = 0
  BY <1>2, Here DEF Endpoint
<1> HIDE DEF n, mine, other
<1>11. Asking(e)'
  <2>1. /\ Single(Tail(chan[p]), "PONG") /\ Single(chan[e], "PING")
    BY <1>4, <1>5 DEF Without, Single
  <2>2. ~mine.waits
    BY ONLY <1>9
  <2>3. Exchange(FALSE, mine.waits, mine.req, other.owed, other.top, chan[e], Tail(chan[p]))
    BY <1>4, <1>5, <1>9, <1>10, <2>1, <2>2 DEF Exchange
  <2>4. Exchange(Loose(e)', mine.waits, mine.req, other.owed, other.top, chan[e], Tail(chan[p]))
    BY <2>3 DEF Exchange
  <2> QED BY <1>8, <2>4 DEF Asking
<1>12. Asking(p)'
  <2>1. Loose(p)' = Loose(p)
    BY <1>7, <1>8, <1>10 DEF Loose
  <2>2. Exchange(Loose(p), s[p].waits, s[p].req, s[e].owed, s[e].top, chan[p], chan[e])
    BY <1>2 DEF Asking
  <2>3. Exchange(Loose(p), s[p].waits, s[p].req, s[e].owed, s[e].top, Tail(chan[p]), chan[e])
    BY <1>4, <2>2, Weaker, LeanerEqual
  <2> QED BY <1>2, <1>8, <1>9, <1>10, <2>1, <2>3 DEF Asking
<1>13. \A d \in End : s'[d].ans = 0 /\ s'[d].tokens = s[d].tokens /\ s'[d].report = s[d].report
  BY <1>8, <1>9, <1>10, Ends2 DEF Pings, Unhurt
<1>14. \A d \in End : Sound(chan'[d])
  BY <1>2, <1>4, <1>8, Ends2
<1> QED BY <1>2, <1>7, <1>11, <1>12, <1>13, <1>14, AskingMoves

\* An end that gives up of itself, and leaves the queue to it as it is.
LEMMA ShutPings ==
  ASSUME IInv, Pings, NEW e \in End, NEW new, s' = [s EXCEPT ![e] = new], Steady(s[e], new),
         carrier' = IF carrier = "up" THEN "gone" ELSE carrier, UNCHANGED chan
  PROVE  Pings'
<1>1. chan = [chan EXCEPT ![Peer(e)] = chan[Peer(e)]]
  BY QueueStays DEF IInv
<1> QED BY <1>1, EndPings

LEMMA HandshakeTimesOutPings == ASSUME IInv, Pings, NEW e \in End, HandshakeTimesOut(e) PROVE Pings'
<1> DEFINE new == Shut(s[e], "HANDSHAKE_TIMEOUT", "local")
<1>1. /\ s' = [s EXCEPT ![e] = new] /\ UNCHANGED chan
      /\ carrier' = IF carrier = "up" THEN "gone" ELSE carrier
  BY DEF HandshakeTimesOut, Shut
<1>2. Steady(s[e], new)
  BY OverSteady DEF Faults
<1> HIDE DEF new
<1> QED BY <1>1, <1>2, ShutPings

LEMMA LingerEndsPings == ASSUME IInv, Pings, NEW e \in End, LingerEnds(e) PROVE Pings'
<1> DEFINE new == [s[e] EXCEPT !.st = "closed", !.timer = 0]
<1>1. /\ s' = [s EXCEPT ![e] = new] /\ UNCHANGED chan /\ s[e].st = "closing"
      /\ carrier' = IF carrier = "up" THEN "gone" ELSE carrier
  BY DEF LingerEnds
<1>2. Steady(s[e], new)
  BY Here DEF Steady, Pings, Unhurt, Past, Endpoint
<1> HIDE DEF new
<1> QED BY <1>1, <1>2, ShutPings

LEMMA ClosedSteady ==
  ASSUME IInv, Pings, NEW e \in End
  PROVE  Steady(s[e], [s[e] EXCEPT !.st = "closed", !.timer = 0])
  BY Here DEF Steady, Pings, Unhurt, Past, Endpoint

LEMMA CarrierErrorPings == ASSUME IInv, Pings, NEW e \in End, CarrierError(e) PROVE Pings'
<1> DEFINE new == IF s[e].report = None THEN Shut(s[e], "PIPES_LOST", "local")
                                        ELSE [s[e] EXCEPT !.st = "closed", !.timer = 0]
<1>1. /\ s' = [s EXCEPT ![e] = new] /\ chan' = [chan EXCEPT ![Peer(e)] = <<>>]
      /\ UNCHANGED carrier
  BY DEF CarrierError, Shut
<1>2. Steady(s[e], new)
  BY OverSteady, ClosedSteady DEF Faults
<1> HIDE DEF new
<1> QED BY <1>1, <1>2, EndPings

LEMMA PlainEof == Plain(<<EOF>>) /\ <<EOF>> \in Seq(Message)
  BY PlainFrame, Signals DEF EOF, FrameKinds, Pinging

LEMMA IdleTimeoutPings == ASSUME IInv, Pings, NEW e \in End, IdleTimeout(e) PROVE Pings'
<1> DEFINE frames == IF Acks THEN <<Close(Wire("IDLE_TIMEOUT")), EOF>> ELSE <<EOF>>
           new == Over(s[e], "IDLE_TIMEOUT", "local")
<1>1. Do(e, new, frames)
  BY DEF IdleTimeout
<1>2. Steady(s[e], new)
  BY OverSteady DEF Faults
<1>3. Plain(frames) /\ frames \in Seq(Message)
  <2>1. Wire("IDLE_TIMEOUT") \in Codes \ Faults
    BY DEF Wire, Codes, Faults
  <2> QED BY <2>1, PlainClose, PlainEof
<1> HIDE DEF new, frames
<1> QED BY <1>1, <1>2, <1>3, DoPings

LEMMA AppClosePings == ASSUME IInv, Pings, NEW e \in End, AppClose(e) PROVE Pings'
<1> DEFINE frames == <<Close("APPLICATION"), EOF>>
           new == Over(s[e], "APPLICATION", "local")
<1>1. Do(e, new, frames)
  BY DEF AppClose
<1>2. Steady(s[e], new)
  BY OverSteady DEF Faults
<1>3. Plain(frames) /\ frames \in Seq(Message)
  BY PlainClose DEF Codes, Faults
<1> HIDE DEF new, frames
<1> QED BY <1>1, <1>2, <1>3, DoPings

LEMMA RecvClosePings == ASSUME IInv, Pings, NEW e \in End, RecvClose(e) PROVE Pings'
<1> DEFINE code == IF Got(e).code = "ZMUX_IDLE_TIMEOUT" THEN "IDLE_TIMEOUT" ELSE Got(e).code
           new == Over(s[e], code, "remote")
<1>1. chan[Peer(e)] # <<>> /\ Reads(e, new, <<EOF>>)
  BY DEF RecvClose, On
<1>2. code \notin Faults
  BY <1>1, Heads DEF Faults
<1> HIDE DEF code
<1>3. Steady(s[e], new)
  BY <1>2, OverSteady
<1> HIDE DEF new
<1> QED BY <1>1, <1>3, PlainEof, ReadsPings

LEMMA RecvEofPings == ASSUME IInv, Pings, NEW e \in End, RecvEof(e) PROVE Pings'
<1>1. CASE Acks
  <2> DEFINE new == Shut(s[e], "PIPES_LOST", "local")
  <2>1. /\ s' = [s EXCEPT ![e] = new] /\ chan' = [chan EXCEPT ![Peer(e)] = Tail(chan[Peer(e)])]
        /\ carrier' = IF carrier = "up" THEN "gone" ELSE carrier
        /\ chan[Peer(e)] # <<>>
    BY <1>1, Ends2 DEF RecvEof, On, Shut
  <2>2. Steady(s[e], new)
    BY OverSteady DEF Faults
  <2> HIDE DEF new
  <2> QED BY <2>1, <2>2, EndPings
<1>2. CASE ~Acks
  <2> DEFINE new == Over(s[e], "IDLE_TIMEOUT", "remote")
  <2>1. chan[Peer(e)] # <<>> /\ Reads(e, new, <<EOF>>)
    BY <1>2 DEF RecvEof, On
  <2>2. Steady(s[e], new)
    BY OverSteady DEF Faults
  <2> HIDE DEF new
  <2> QED BY <2>1, <2>2, PlainEof, ReadsPings
<1> QED BY <1>1, <1>2

LEMMA IgnorePings == ASSUME IInv, Pings, NEW e \in End, Ignore(e) PROVE Pings'
<1> DEFINE new == IF On(e, "EOF") THEN [s[e] EXCEPT !.st = "closed", !.timer = 0] ELSE s[e]
<1>1. chan[Peer(e)] # <<>> /\ Reads(e, new, <<>>)
  BY DEF Ignore
<1>2. Steady(s[e], new)
  BY ClosedSteady, SteadyEnd
<1> HIDE DEF new
<1> QED BY <1>1, <1>2, Nothing, ReadsPings

-----------------------------------------------------------------------------
(* The carrier, and time.                                                  *)

LEMMA StallPings == ASSUME IInv, Pings, Stall PROVE Pings'
<1>1. UNCHANGED s /\ carrier' = "stalled" /\ chan' = [e \in End |-> <<>>]
  BY DEF Stall
<1>2. \A e \in End : Leaner(chan'[e], chan[e]) /\ Sound(chan'[e]) /\ chan'[e] = <<>>
  BY <1>1, LeanerEmpty
<1>3. \A e \in End : Steady(s[e], s'[e])
  BY <1>1, SteadyEnd
<1> QED BY <1>1, <1>2, <1>3, PingsStay

LEMMA QuietPings == ASSUME Pings, UNCHANGED <<s, chan>>, carrier' # "stalled" \/ UNCHANGED carrier,
                           carrier = "stalled" => UNCHANGED carrier PROVE Pings'
<1>1. \A e \in End : Leaner(chan'[e], chan[e]) /\ Sound(chan'[e]) /\ Steady(s[e], s'[e])
  BY LeanerEqual, SteadyEnd DEF Pings, Unhurt
<1>2. carrier' = "stalled" => \A e \in End : chan'[e] = <<>>
  BY DEF Pings, Silent
<1> QED BY <1>1, <1>2, PingsStay

LEMMA CutPings == ASSUME Pings, Cut PROVE Pings'
  BY QuietPings DEF Cut

\* Time gives no tokens to an end that has them all.
LEMMA LaterSteady == ASSUME IInv, Pings, NEW e \in End PROVE Steady(s[e], Later(s[e]))
<1> DEFINE t == IF Rests(s[e]) THEN s[e].timer ELSE s[e].timer + 1
           v == Min({Budget, s[e].tokens + Refill})
<1>1. s[e].tokens = Budget /\ s[e] \in Endpoint
  BY Here DEF Pings, Unhurt
<1>2. v = Budget
  <2>1. Budget \in Int /\ Budget + Refill \in Int /\ Budget <= Budget + Refill
    BY BoundAssumption
  <2>2. Min({Budget, Budget + Refill}) \in {Budget, Budget + Refill}
        /\ Min({Budget, Budget + Refill}) <= Budget
    BY <2>1, Extremes
  <2>3. \A m \in {Budget, Budget + Refill} : m <= Budget => m = Budget
    BY <2>1
  <2>4. Min({Budget, Budget + Refill}) = Budget
    BY <2>2, <2>3
  <2> QED BY <1>1, <2>4
<1>3. CASE s[e].st = "closed"
  BY <1>3, SteadyEnd DEF Later
<1>4. CASE s[e].st # "closed"
  <2>1. Later(s[e]) = [s[e] EXCEPT !.timer = t, !.tokens = v]
    BY <1>4 DEF Later
  <2> HIDE DEF t, v
  <2>2. Steady(s[e], [s[e] EXCEPT !.timer = t, !.tokens = v])
    BY <1>1, <1>2 DEF Steady, Pings, Unhurt, Endpoint
  <2> QED BY <2>1, <2>2
<1> QED BY <1>3, <1>4

LEMMA TickPings == ASSUME IInv, Pings, Tick PROVE Pings'
<1>1. /\ s' = [e \in End |-> Later(s[e])] /\ chan' = [e \in End |-> Aged(chan[e])]
      /\ UNCHANGED carrier
  BY DEF Tick, Aged
<1>2. \A e \in End : chan[e] \in Seq(Message) /\ Sound(chan[e])
  BY DEF IInv, TypeOK, Pings, Unhurt
<1>3. \A e \in End : Leaner(chan'[e], chan[e]) /\ Sound(chan'[e])
  BY <1>1, <1>2, LeanerAged
<1>4. \A e \in End : Steady(s[e], s'[e])
  BY <1>1, LaterSteady
<1>5. carrier = "stalled" => \A e \in End : chan'[e] = <<>>
  <2>1. \A e \in End : carrier = "stalled" => Len(chan[e]) = 0
    BY DEF Pings, Silent
  <2>2. \A e \in End : carrier = "stalled" => chan'[e] \in Seq(Message) /\ Len(chan'[e]) = 0
    BY <1>1, <1>2, <2>1, Older
  <2>3. \A q \in Seq(Message) : Len(q) = 0 => q = <<>>
    OBVIOUS
  <2> QED BY <2>2, <2>3
<1> QED BY <1>1, <1>3, <1>4, <1>5, PingsStay

LEMMA InitPings == Init => Pings
<1> SUFFICES ASSUME Init PROVE Pings
  OBVIOUS
<1>1. /\ s = [e \in End |-> New] /\ chan = [e \in End |-> <<>>] /\ carrier = "up"
  BY DEF Init
<1>2. /\ New.ans = 0 /\ New.tokens = Budget /\ New.report[1] \notin Faults
      /\ New.waits = FALSE /\ New.req = 0 /\ New.owed = 0 /\ New.top = 0
  BY DEF New, None, Faults
<1>3. ~New.waits
  BY ONLY <1>2
<1>4. /\ Single(<<>>, "PING") /\ Single(<<>>, "PONG")
      /\ Without(<<>>, "PING") /\ Without(<<>>, "PONG")
  BY DEF Single, Without
<1>5. \A e \in End : Asking(e)
  <2>1. \A l : Exchange(l, New.waits, New.req, New.owed, New.top, <<>>, <<>>)
    BY <1>2, <1>3, <1>4 DEF Exchange
  <2> QED BY <1>1, <2>1, Ends2 DEF Asking
<1>6. \A e \in End : Unhurt(e)
  BY <1>1, <1>2, LeanerEmpty DEF Unhurt
<1> QED BY <1>1, <1>5, <1>6 DEF Pings, Silent

LEMMA NextPings == IInv /\ Pings /\ [Next]_vars => Pings'
<1> SUFFICES ASSUME IInv, Pings, [Next]_vars PROVE Pings'
  OBVIOUS
<1>1. CASE UNCHANGED vars \/ Ended
  BY <1>1, QuietPings DEF Ended, vars
<1>2. ASSUME NEW e \in End, Read(e) PROVE Pings'
  BY <1>2, RecvParametersPings, RecvFencePings, RecvEarlyPings, RecvDataPings, RecvAckPings,
     RecvPingPings, RecvPongPings, RecvClosePings, RecvEofPings, IgnorePings DEF Read
<1>3. ASSUME NEW e \in End, Timer(e) PROVE Pings'
  BY <1>3, HandshakeTimesOutPings, IdleTimeoutPings, LingerEndsPings DEF Timer
<1>4. ASSUME NEW e \in End,
             \/ Start(e) \/ Respond(e) \/ SendAck(e) \/ KeepAlive(e) \/ CarrierError(e)
             \/ SendData(e) \/ Ping(e) \/ GiveUp(e) \/ AppClose(e)
      PROVE  Pings'
  BY <1>4, StartPings, RespondPings, SendAckPings, KeepAlivePings, CarrierErrorPings,
     SendDataPings, PingPings, GiveUpPings, AppClosePings
<1>5. CASE Stall \/ Cut \/ Tick
  BY <1>5, StallPings, CutPings, TickPings
<1> QED BY <1>1, <1>2, <1>3, <1>4, <1>5 DEF Next

\* Of an exchange at most one frame is under way, or one answer owed, and numbers that
\* start again meet none of an older one.
THEOREM PingsAreSettled == Spec => []Pings
<1>1. Init => Pings
  BY InitPings
<1>2. IInv /\ Pings /\ [Next]_vars => Pings'
  BY NextPings
<1> QED BY <1>1, <1>2, Inductive, PTL DEF Spec

\* A peer that conforms breaks no rule of pings and costs no token, however its pings,
\* keep-alives and answers interleave with timers, losses and the other end's.
THEOREM NobodyIsCutOff == Spec => []NeverCutOff
<1>1. Pings => NeverCutOff
  BY DEF Pings, Unhurt, NeverCutOff, Faults
<1> QED BY <1>1, PingsAreSettled, PTL

-----------------------------------------------------------------------------
(* Reasons.  While its peer has not ended, an end that has ended lingers,     *)
(* and its last frame is under way: behind the CONNECTION_CLOSE that says     *)
(* why, or alone after an idle timeout without acknowledgement.  On a carrier *)
(* that is up this frame arrives before lingering ends, as the parameters     *)
(* arrive before the handshake times out, so no end closes a carrier on which *)
(* the other still waits for a reason.                                        *)

Final == {"CLOSE", "EOF"}
Early == {"new", "start"}

\* A later frame arrives later.
Sorted(q) == \A i, j \in 1..Len(q) : i < j => q[i].left <= q[j].left

\* The end of the stream is behind a reason.
Announced(q) == \A i \in 1..Len(q) : q[i].k = "EOF" => \E j \in 1..(i - 1) : q[j].k = "CLOSE"

\* What an end in state x has put into queue q.
Own(x, q) ==
  /\ x.report = None <=> x.st \notin Past
  /\ x.st = "new" => x.timer = 0 /\ q = <<>>
  /\ Sorted(q)
  /\ \A i \in 1..Len(q) :
       /\ q[i].k = "CLOSE" => x.report[2] = "local" /\ q[i].code = Wire(x.report[1])
       /\ q[i].k = "EOF" => x.report # None

\* The parameters of an end in state x reach its peer, in state y, in time.
Greeted(x, y, q) ==
  \/ x.st = "new" /\ y.timer = 0
  \/ q # <<>> /\ Head(q).k = "TP" /\ Head(q).left + y.timer <= Delay

\* The last frame arrives in time.
Parting(x, q) == \E i \in 1..Len(q) : q[i].k = "EOF" /\ q[i].left + x.timer <= Delay

\* What its peer, in state y, still finds there.
Due(live, acks, x, y, q) ==
  /\ y.st \notin Past => Announced(q) \/ (~acks /\ x.report = <<"IDLE_TIMEOUT", "local">>)
  /\ live => /\ y.st \in Early => Greeted(x, y, q)
             /\ x.st \in Past /\ y.st \notin Past => x.st = "closing" /\ Parting(x, q)

Gone == carrier = "gone" => \A e \in End : s[e].report # None

Reasons ==
  /\ \A e \in End : /\ Own(s[e], chan[e])
                    /\ Due(carrier = "up", Acks, s[e], s[Peer(e)], chan[e])
  /\ Gone /\ TrueReason

-----------------------------------------------------------------------------
\* Queue r is in order as q is, and ends nothing that q does not end.
Remains(r, q) ==
  /\ Sorted(q) => Sorted(r)
  /\ \A i \in 1..Len(r) : r[i].k \in Final =>
       \E j \in 1..Len(q) : q[j].k = r[i].k /\ q[j].code = r[i].code

Latest(r) == \A i \in 1..Len(r) : r[i].left = Delay
Mere(r)   == Latest(r) /\ \A i \in 1..Len(r) : r[i].k \notin Final

LEMMA RemainsEqual == ASSUME NEW q PROVE Remains(q, q)
  BY DEF Remains

LEMMA RemainsEmpty == ASSUME NEW q PROVE Remains(<<>>, q) /\ Announced(<<>>)
  BY DEF Remains, Sorted, Announced

LEMMA SortedJoined ==
  ASSUME NEW q \in Seq(Message), NEW r \in Seq(Message), Sorted(q), Latest(r)
  PROVE  Sorted(q \o r)
<1> SUFFICES ASSUME NEW i \in 1..Len(q \o r), NEW j \in 1..Len(q \o r), i < j
             PROVE  (q \o r)[i].left <= (q \o r)[j].left
  BY DEF Sorted
<1>1. /\ i \in Int /\ j \in Int /\ Len(q) \in Int /\ (q \o r)[i] \in Message
  BY Joined
<1>2. (q \o r)[i].left <= Delay
  BY <1>1, BoundAssumption DEF Message
<1>3. CASE j \in 1..Len(q) /\ (q \o r)[j] = q[j]
  <2>1. i \in 1..Len(q)
    BY <1>1, <1>3
  <2> QED BY <1>3, <2>1, Joined DEF Sorted
<1>4. CASE j - Len(q) \in 1..Len(r) /\ (q \o r)[j] = r[j - Len(q)]
  BY <1>2, <1>4 DEF Latest
<1> QED BY <1>3, <1>4, Joined

LEMMA RemainsJoined ==
  ASSUME NEW q \in Seq(Message), NEW r \in Seq(Message), Mere(r)
  PROVE  Remains(q \o r, q) /\ (Announced(q) => Announced(q \o r))
<1>1. \A i \in 1..Len(q \o r) : (q \o r)[i].k \in Final => i \in 1..Len(q) /\ (q \o r)[i] = q[i]
  BY Joined DEF Mere
<1>2. Sorted(q) => Sorted(q \o r)
  BY SortedJoined DEF Mere
<1>3. ASSUME Announced(q), NEW i \in 1..Len(q \o r), (q \o r)[i].k = "EOF"
      PROVE  \E j \in 1..(i - 1) : (q \o r)[j].k = "CLOSE"
  <2>1. i \in 1..Len(q) /\ q[i].k = "EOF"
    BY <1>1, <1>3 DEF Final
  <2>2. PICK j \in 1..(i - 1) : q[j].k = "CLOSE"
    BY <1>3, <2>1 DEF Announced
  <2>3. j \in 1..Len(q)
    BY <2>1, Joined
  <2> QED BY <2>2, <2>3, Joined
<1> QED BY <1>1, <1>2, <1>3 DEF Remains, Announced

LEMMA RemainsTail ==
  ASSUME NEW q \in Seq(Message), q # <<>>
  PROVE  /\ Remains(Tail(q), q)
         /\ Announced(q) /\ Head(q).k # "CLOSE" => Announced(Tail(q))
<1>1. Sorted(q) => Sorted(Tail(q))
  <2> SUFFICES ASSUME Sorted(q), NEW i \in 1..Len(Tail(q)), NEW j \in 1..Len(Tail(q)), i < j
               PROVE  Tail(q)[i].left <= Tail(q)[j].left
    BY DEF Sorted
  <2>1. i + 1 \in 1..Len(q) /\ j + 1 \in 1..Len(q) /\ i + 1 < j + 1
    BY Shorter
  <2> QED BY <2>1, Shorter DEF Sorted
<1>2. \A i \in 1..Len(Tail(q)) : i + 1 \in 1..Len(q) /\ Tail(q)[i] = q[i + 1]
  BY Shorter
<1>3. ASSUME Announced(q), Head(q).k # "CLOSE", NEW i \in 1..Len(Tail(q)), Tail(q)[i].k = "EOF"
      PROVE  \E j \in 1..(i - 1) : Tail(q)[j].k = "CLOSE"
  <2>1. PICK j \in 1..((i + 1) - 1) : q[j].k = "CLOSE"
    BY <1>2, <1>3 DEF Announced
  <2>2. j # 1 /\ j \in 1..Len(q)
    BY <1>2, <1>3, <2>1, Shorter
  <2>3. j - 1 \in 1..(i - 1) /\ Tail(q)[j - 1].k = "CLOSE"
    BY <2>1, <2>2, Shorter
  <2> QED BY <2>3
<1> QED BY <1>1, <1>2, <1>3 DEF Remains, Announced

LEMMA RemainsAged ==
  ASSUME NEW q \in Seq(Message)
  PROVE  Remains(Aged(q), q) /\ (Announced(q) => Announced(Aged(q)))
<1>1. ASSUME Sorted(q), NEW i \in 1..Len(q), NEW j \in 1..Len(q), i < j
      PROVE  Aged(q)[i].left <= Aged(q)[j].left
  <2>1. q[i].left \in Int /\ q[j].left \in Int /\ q[i].left <= q[j].left
    <3>1. q[i] \in Message /\ q[j] \in Message
      BY Older
    <3>2. q[i].left \in Int /\ q[j].left \in Int
      BY <3>1 DEF Message
    <3>3. q[i].left <= q[j].left
      BY <1>1 DEF Sorted
    <3> QED BY <3>2, <3>3
  <2>2. /\ Aged(q)[i].left = Max({0, q[i].left - 1}) /\ Aged(q)[j].left = Max({0, q[j].left - 1})
    BY Older
  <2> DEFINE a == Max({0, q[i].left - 1})
             b == Max({0, q[j].left - 1})
  <2>3. a \in {0, q[i].left - 1} /\ b >= 0 /\ b >= q[j].left - 1
    <3>1. 0 \in Int /\ q[i].left - 1 \in Int /\ q[j].left - 1 \in Int
      BY <2>1
    <3> QED BY <3>1, Extremes
  <2>4. b \in Int
    <3>1. 0 \in Int /\ q[j].left - 1 \in Int
      BY <2>1
    <3>2. b \in {0, q[j].left - 1}
      BY <3>1, Extremes
    <3> QED BY <3>1, <3>2
  <2> HIDE DEF a, b
  <2>5. a <= b
    BY <2>1, <2>3, <2>4
  <2> QED BY <2>2, <2>5 DEF a, b
<1>2. Sorted(q) => Sorted(Aged(q))
  BY <1>1, Older DEF Sorted
<1>3. ASSUME Announced(q), NEW i \in 1..Len(q), Aged(q)[i].k = "EOF"
      PROVE  \E j \in 1..(i - 1) : Aged(q)[j].k = "CLOSE"
  <2>1. PICK j \in 1..(i - 1) : q[j].k = "CLOSE"
    BY <1>3, Older DEF Announced
  <2>2. j \in 1..Len(q)
    BY Older
  <2> QED BY <2>1, <2>2, Older
<1> QED BY <1>2, <1>3, Older DEF Remains, Announced

-----------------------------------------------------------------------------
(* One queue: its writer is in state x, its reader in state y.             *)

\* A writer that has not ended has ended nothing.
LEMMA OwnOpen ==
  ASSUME NEW x, NEW q, Own(x, q), x.st \notin Past
  PROVE  \A i \in 1..Len(q) : q[i].k \notin Final
<1>1. x.report = None
  BY DEF Own
<1>2. x.report[2] # "local"
  BY <1>1 DEF None
<1> QED BY <1>1, <1>2 DEF Own, Final

\* A writer that goes on.
LEMMA OwnStays ==
  ASSUME NEW x, NEW q, NEW z, NEW r, Own(x, q), z.report = x.report, z.st \in Past <=> x.st \in Past,
         z.st = "new" => x.st = "new" /\ z.timer = 0 /\ r = <<>>,
         Remains(r, q)
  PROVE  Own(z, r)
<1>1. Sorted(r)
  BY DEF Own, Remains
<1>2. \A i \in 1..Len(r) :
        /\ r[i].k = "CLOSE" => z.report[2] = "local" /\ r[i].code = Wire(z.report[1])
        /\ r[i].k = "EOF" => z.report # None
  BY DEF Own, Remains, Final
<1>3. z.report = None <=> z.st \notin Past
  BY DEF Own
<1> QED BY <1>1, <1>2, <1>3 DEF Own

\* A writer that ends, for a reason, and may say so.
LEMMA OwnEnds ==
  ASSUME NEW x, NEW q \in Seq(Message), NEW z, NEW r \in Seq(Message), Own(x, q), x.st \notin Past,
         NEW code, NEW whose \in {"local", "remote"}, z.report = <<code, whose>>, z.st \in Past,
         Latest(r),
         \A i \in 1..Len(r) : r[i].k = "CLOSE" => whose = "local" /\ r[i].code = Wire(code)
  PROVE  Own(z, q) /\ Own(z, q \o r)
<1>1. /\ z.report # None /\ z.report[1] = code /\ z.report[2] = whose /\ z.st # "new"
  BY DEF None, Past
<1>2. \A i \in 1..Len(q) : q[i].k \notin Final
  BY OwnOpen
<1>3. Sorted(q) /\ Sorted(q \o r)
  BY SortedJoined DEF Own
<1>4. Own(z, q)
  BY <1>1, <1>2, <1>3 DEF Own, Final
<1>5. \A i \in 1..Len(q \o r) :
        (q \o r)[i].k = "CLOSE" => z.report[2] = "local" /\ (q \o r)[i].code = Wire(z.report[1])
  BY <1>1, <1>2, Joined DEF Final
<1>6. Own(z, q \o r)
  BY <1>1, <1>3, <1>5 DEF Own
<1> QED BY <1>4, <1>6

\* A writer that goes on, and writes or not.
LEMMA DueWrites ==
  ASSUME NEW live, NEW acks, NEW x, NEW y, NEW q \in Seq(Message), NEW r \in Seq(Message),
         Own(x, q), Due(live, acks, x, y, q), x.st \notin Past \union {"new"},
         NEW z, z.st \notin Past, NEW w, w.st = y.st, w.timer = y.timer,
         Mere(r), NEW u \in {q, q \o r}
  PROVE  Due(live, acks, z, w, u)
<1>1. Announced(u)
  <2>1. Announced(q)
    BY OwnOpen DEF Announced, Final
  <2> QED BY <2>1, RemainsJoined
<1>2. ASSUME live, y.st \in Early PROVE Greeted(z, w, u)
  <2>1. q # <<>> /\ Head(q).k = "TP" /\ Head(q).left + y.timer <= Delay
    BY <1>2 DEF Due, Greeted
  <2>2. u # <<>> /\ Head(u) = Head(q)
    <3>1. CASE u = q
      BY <2>1, <3>1
    <3>2. CASE u = q \o r
      BY <2>1, <3>2
    <3> QED BY <3>1, <3>2
  <2> QED BY <2>1, <2>2 DEF Greeted
<1> QED BY <1>1, <1>2 DEF Due

\* The reader goes on, and what it has read was no end.
LEMMA DueReads ==
  ASSUME NEW live, NEW acks, NEW x, NEW y, NEW q \in Seq(Message), q # <<>>,
         Due(live, acks, x, y, q), y.st \notin Past, Head(q).k \notin Final,
         NEW z, z.st = x.st, z.report = x.report, z.timer = x.timer,
         NEW w, w.st \notin Past \union Early
  PROVE  Due(live, acks, z, w, Tail(q))
<1>1. ASSUME Announced(q) PROVE Announced(Tail(q))
  BY <1>1, RemainsTail DEF Final
<1>2. ASSUME Parting(x, q) PROVE Parting(z, Tail(q))
  <2>1. PICK i \in 1..Len(q) : q[i].k = "EOF" /\ q[i].left + x.timer <= Delay
    BY <1>2 DEF Parting
  <2>2. i # 1
    BY <2>1, Shorter DEF Final
  <2>3. i - 1 \in 1..Len(Tail(q)) /\ Tail(q)[i - 1] = q[i]
    BY <2>2, Shorter
  <2> QED BY <2>1, <2>3 DEF Parting
<1> QED BY <1>1, <1>2 DEF Due

\* Of an ended reader nothing is due.
LEMMA DueNothing ==
  ASSUME NEW live, NEW acks, NEW x, NEW y, NEW q, y.st \in Past
  PROVE  Due(live, acks, x, y, q)
  BY DEF Due, Past, Early

\* The reader neither reads nor ends, the writer stays.
LEMMA DueStays ==
  ASSUME NEW live, NEW acks, NEW x, NEW y, NEW q, Due(live, acks, x, y, q),
         NEW z, z.st = x.st, z.report = x.report, z.timer = x.timer,
         NEW w, w.st \in Past \/ y.st \notin Past,
         w.st \in Early => y.st \in Early /\ w.timer = y.timer
  PROVE  Due(live, acks, z, w, q)
  BY DEF Due, Greeted, Parting

\* A writer that ends with a last frame, and says why or need not.
LEMMA DueEnds ==
  ASSUME NEW live, NEW acks, NEW x, NEW y \in Endpoint, NEW q \in Seq(Message), NEW r \in Seq(Message),
         Own(x, q), Due(live, acks, x, y, q), x.st \notin Past \union {"new"},
         NEW z, z.st = "closing", z.timer = 0, NEW u, u = IF live THEN q \o r ELSE q,
         Latest(r), Announced(r) \/ (~acks /\ z.report = <<"IDLE_TIMEOUT", "local">>),
         \E i \in 1..Len(r) : r[i].k = "EOF"
  PROVE  Due(live, acks, z, y, u)
<1>1. \A i \in 1..Len(q) : q[i].k \notin Final
  BY OwnOpen
<1>2. /\ \A l \in 1..Len(r) : (q \o r)[Len(q) + l] = r[l]
      /\ \A i \in 1..Len(q \o r) :
           \/ i \in 1..Len(q) /\ (q \o r)[i] = q[i]
           \/ i - Len(q) \in 1..Len(r) /\ (q \o r)[i] = r[i - Len(q)]
  BY Joined
<1>3. ASSUME Announced(r) PROVE Announced(u)
  <2>1. Announced(q)
    BY <1>1 DEF Announced, Final
  <2>2. ASSUME NEW i \in 1..Len(q \o r), (q \o r)[i].k = "EOF"
        PROVE  \E j \in 1..(i - 1) : (q \o r)[j].k = "CLOSE"
    <3>1. i - Len(q) \in 1..Len(r) /\ r[i - Len(q)].k = "EOF"
      BY <1>1, <1>2, <2>2 DEF Final
    <3>2. PICK j \in 1..(i - Len(q) - 1) : r[j].k = "CLOSE"
      BY <1>3, <3>1 DEF Announced
    <3>3. j \in 1..Len(r) /\ Len(q) + j \in 1..(i - 1)
      BY <3>1, <3>2, Joined
    <3>4. (q \o r)[Len(q) + j].k = "CLOSE"
      BY <1>2, <3>2, <3>3
    <3> QED BY <3>3, <3>4
  <2>3. Announced(q \o r)
    BY <2>2 DEF Announced
  <2> QED BY <2>1, <2>3
<1>4. ASSUME live PROVE Parting(z, u)
  <2>1. PICK i \in 1..Len(r) : r[i].k = "EOF"
    OBVIOUS
  <2>2. /\ Len(q) + i \in 1..Len(q \o r) /\ (q \o r)[Len(q) + i].k = "EOF"
        /\ (q \o r)[Len(q) + i].left = Delay
    BY <2>1, Joined DEF Latest
  <2>3. Delay + 0 <= Delay
    BY BoundAssumption
  <2> QED BY <1>4, <2>2, <2>3 DEF Parting
<1>5. ASSUME live, y.st \in Early PROVE Greeted(z, y, u)
  <2>1. q # <<>> /\ Head(q).k = "TP" /\ Head(q).left + y.timer <= Delay
    BY <1>5 DEF Due, Greeted
  <2>2. u # <<>> /\ Head(u) = Head(q)
    BY <1>5, <2>1
  <2> QED BY <2>1, <2>2 DEF Greeted
<1> QED BY <1>3, <1>4, <1>5 DEF Due

\* The two ends of a step of e, and their queues.
LEMMA Pair ==
  ASSUME IInv, Reasons, NEW e \in End
  PROVE  LET p == Peer(e)
         IN  /\ p \in End /\ p # e /\ Peer(p) = e
             /\ s[e] \in Endpoint /\ s[p] \in Endpoint
             /\ chan[e] \in Seq(Message) /\ chan[p] \in Seq(Message)
             /\ Own(s[e], chan[e]) /\ Due(carrier = "up", Acks, s[e], s[p], chan[e])
             /\ Own(s[p], chan[p]) /\ Due(carrier = "up", Acks, s[p], s[e], chan[p])
             /\ Gone /\ TrueReason
<1>1. Peer(e) \in End /\ Peer(e) # e /\ Peer(Peer(e)) = e
  BY Ends2
<1>2. s[e] \in Endpoint /\ s[Peer(e)] \in Endpoint
  BY <1>1, Here
<1> QED BY <1>1, <1>2 DEF IInv, TypeOK, Reasons

\* It is enough to look at the two queues, and at what is reported.
LEMMA Paired ==
  ASSUME NEW e \in End, UNCHANGED cfg,
         Own(s'[e], chan'[e]), Due(carrier' = "up", Acks, s'[e], s'[Peer(e)], chan'[e]),
         Own(s'[Peer(e)], chan'[Peer(e)]),
         Due(carrier' = "up", Acks, s'[Peer(e)], s'[e], chan'[Peer(e)]),
         Gone', TrueReason'
  PROVE  Reasons'
<1>1. Acks' = Acks
  BY DEF Acks
<1>2. \A d \in End : d = e \/ (d = Peer(e) /\ Peer(d) = e)
  BY Ends2
<1> QED BY <1>1, <1>2 DEF Reasons

\* No reason is reported that was not.
LEMMA SameReports ==
  ASSUME Gone, TrueReason, \A d \in End : s'[d].report = s[d].report,
         UNCHANGED carrier \/ (carrier = "up" /\ carrier' \in {"stalled", "cut"})
  PROVE  Gone' /\ TrueReason'
<1>1. \A d \in End : Peer(d) \in End
  BY Ends2
<1> QED BY <1>1 DEF Gone, TrueReason

\* e reports a reason.
LEMMA OneReports ==
  ASSUME Gone, TrueReason, NEW e \in End, NEW code, NEW whose \in {"local", "remote"},
         s[e].report = None, s'[e].report = <<code, whose>>,
         s'[Peer(e)].report = s[Peer(e)].report, UNCHANGED carrier,
         code = "PIPES_LOST" => carrier = "cut",
         whose = "remote" => /\ s[Peer(e)].report[2] = "local"
                             /\ Wire(s[Peer(e)].report[1]) = Wire(code)
  PROVE  Gone' /\ TrueReason'
<1> DEFINE p == Peer(e)
<1>1. p \in End /\ Peer(p) = e /\ \A d \in End : d = e \/ d = p
  BY Ends2
<1>2. /\ s'[e].report # None /\ s'[e].report[1] = code /\ s'[e].report[2] = whose
      /\ s[e].report[2] = "none"
  BY DEF None
<1>3. Gone'
  BY <1>1, <1>2 DEF Gone
<1>4. s[p].report[2] = "remote" => FALSE
  BY <1>1, <1>2 DEF TrueReason
<1>5. s[p].report[1] = "PIPES_LOST" => carrier = "cut"
  BY <1>1 DEF TrueReason
<1>6. TrueReason'
  <2>1. ASSUME NEW d \in End
        PROVE  /\ s'[d].report[2] = "remote" => /\ s'[Peer(d)].report[2] = "local"
                                                /\ Wire(s'[Peer(d)].report[1]) = Wire(s'[d].report[1])
               /\ s'[d].report[1] = "PIPES_LOST" => carrier' = "cut"
    <3>1. CASE d = e
      BY <1>2, <3>1
    <3>2. CASE d = p
      BY <1>4, <1>5, <3>2
    <3> QED BY <1>1, <3>1, <3>2
  <2> QED BY <2>1 DEF TrueReason
<1> QED BY <1>3, <1>6

-----------------------------------------------------------------------------
(* Steps of an end that goes on.                                           *)

LEMMA WritesOn ==
  ASSUME IInv, Reasons, NEW e \in End, NEW new, NEW frames \in Seq(Message), Do(e, new, frames),
         s[e].st = "open", new.st = "open", new.report = s[e].report, Mere(frames)
  PROVE  Reasons'
<1> DEFINE p == Peer(e)
           q == chan[e]
<1>1. /\ s'[e] = new /\ s'[p] = s[p] /\ UNCHANGED cfg /\ UNCHANGED carrier
      /\ chan'[e] \in {q, q \o frames} /\ chan'[p] = chan[p]
  BY DoEffect
<1>2. /\ q \in Seq(Message) /\ Own(s[e], q) /\ Due(carrier = "up", Acks, s[e], s[p], q)
      /\ Own(s[p], chan[p]) /\ Due(carrier = "up", Acks, s[p], s[e], chan[p])
      /\ Gone /\ TrueReason
  BY Pair
<1>3. Own(new, chan'[e])
  <2>1. Remains(chan'[e], q)
    BY <1>1, <1>2, RemainsEqual, RemainsJoined
  <2>2. new.st # "new" /\ s[e].st \notin Past /\ new.st \notin Past
    BY DEF Past
  <2> QED BY <1>2, <2>1, <2>2, OwnStays
<1>4. Due(carrier = "up", Acks, new, s[p], chan'[e])
  <2>1. s[e].st \notin Past \union {"new"} /\ new.st \notin Past
    BY DEF Past
  <2> DEFINE live == carrier = "up"
  <2>2. Due(live, Acks, s[e], s[p], q)
    BY <1>2
  <2> HIDE DEF live
  <2>3. Due(live, Acks, new, s[p], chan'[e])
    BY <1>1, <1>2, <2>1, <2>2, DueWrites
  <2> QED BY <2>3 DEF live
<1>5. Due(carrier = "up", Acks, s[p], new, chan[p])
  <2>1. s[e].st \notin Past /\ new.st \notin Early
    BY DEF Past, Early
  <2> QED BY <1>2, <2>1, DueStays
<1>6. Gone' /\ TrueReason'
  <2>1. \A d \in End : s'[d].report = s[d].report
    BY <1>1, Ends2
  <2> QED BY <1>1, <1>2, <2>1, SameReports
<1> QED BY <1>1, <1>2, <1>3, <1>4, <1>5, <1>6, Paired

LEMMA ReadsOn ==
  ASSUME IInv, Reasons, NEW e \in End, UNCHANGED <<cfg, carrier>>,
         s[e].st \in {"start", "open"}, s'[e].st = "open", s'[e].report = s[e].report,
         s'[Peer(e)].st = s[Peer(e)].st, s'[Peer(e)].report = s[Peer(e)].report,
         s'[Peer(e)].timer = s[Peer(e)].timer,
         chan[Peer(e)] # <<>>, Head(chan[Peer(e)]).k \notin Final,
         chan'[e] = chan[e], chan'[Peer(e)] = Tail(chan[Peer(e)])
  PROVE  Reasons'
<1> DEFINE p == Peer(e)
<1>1. /\ chan[e] \in Seq(Message) /\ chan[p] \in Seq(Message)
      /\ Own(s[e], chan[e]) /\ Due(carrier = "up", Acks, s[e], s[p], chan[e])
      /\ Own(s[p], chan[p]) /\ Due(carrier = "up", Acks, s[p], s[e], chan[p])
      /\ Gone /\ TrueReason
  BY Pair
<1>2. s[e].st \notin Past \union {"new"} /\ s'[e].st \notin Past \union Early /\ s'[e].st # "new"
  BY DEF Past, Early
<1>3. Own(s'[e], chan'[e])
  BY <1>1, <1>2, OwnStays, RemainsEqual
<1>4. Due(carrier = "up", Acks, s'[e], s'[p], chan'[e])
  <2>1. <<>> \in Seq(Message) /\ Mere(<<>>)
    BY DEF Mere, Latest
  <2> DEFINE live == carrier = "up"
  <2>2. Due(live, Acks, s[e], s[p], chan[e])
    BY <1>1
  <2> HIDE DEF live
  <2>3. Due(live, Acks, s'[e], s'[p], chan'[e])
    BY <1>1, <1>2, <2>1, <2>2, DueWrites
  <2> QED BY <2>3 DEF live
<1>5. Own(s'[p], chan'[p])
  <2>1. s[p].st # "new"
    BY <1>1 DEF Own
  <2> QED BY <1>1, <2>1, OwnStays, RemainsTail
<1>6. Due(carrier = "up", Acks, s'[p], s'[e], chan'[p])
  BY <1>1, <1>2, DueReads
<1>7. Gone' /\ TrueReason'
  <2>1. \A d \in End : s'[d].report = s[d].report
    BY Ends2
  <2> QED BY <1>1, <2>1, SameReports
<1> QED BY <1>1, <1>3, <1>4, <1>5, <1>6, <1>7, Paired

-----------------------------------------------------------------------------
(* Steps of an end that ends.                                              *)

LEMMA EndsReason ==
  ASSUME IInv, Reasons, NEW e \in End, NEW code, NEW whose \in {"local", "remote"},
         NEW frames \in Seq(Message), UNCHANGED <<cfg, carrier>>, s[e].st \in {"start", "open"},
         s'[e] = Over(s[e], code, whose), s'[Peer(e)] = s[Peer(e)],
         chan'[e] = IF carrier = "up" THEN chan[e] \o frames ELSE chan[e],
         chan'[Peer(e)] = chan[Peer(e)] \/
           (chan[Peer(e)] # <<>> /\ chan'[Peer(e)] = Tail(chan[Peer(e)])),
         code = "PIPES_LOST" => carrier = "cut",
         whose = "remote" => /\ s[Peer(e)].report[2] = "local"
                             /\ Wire(s[Peer(e)].report[1]) = Wire(code),
         Latest(frames), \E i \in 1..Len(frames) : frames[i].k = "EOF",
         \A i \in 1..Len(frames) :
           frames[i].k = "CLOSE" => whose = "local" /\ frames[i].code = Wire(code),
         \/ s[Peer(e)].st \in Past \/ Announced(frames)
         \/ ~Acks /\ code = "IDLE_TIMEOUT" /\ whose = "local"
  PROVE  Reasons'
<1> DEFINE p == Peer(e)
           new == s'[e]
<1>1. /\ s[e] \in Endpoint /\ s[p] \in Endpoint
      /\ chan[e] \in Seq(Message) /\ chan[p] \in Seq(Message)
      /\ Own(s[e], chan[e]) /\ Due(carrier = "up", Acks, s[e], s[p], chan[e])
      /\ Own(s[p], chan[p]) /\ Due(carrier = "up", Acks, s[p], s[e], chan[p])
      /\ Gone /\ TrueReason
  BY Pair
<1>2. /\ new.st = "closing" /\ new.st \in Past /\ new.report = <<code, whose>> /\ new.timer = 0
      /\ s[e].st \notin Past \union {"new"}
  BY <1>1, OverFields DEF Past
<1>3. Own(new, chan'[e])
  <2>1. Own(new, chan[e]) /\ Own(new, chan[e] \o frames)
    BY <1>1, <1>2, OwnEnds
  <2> QED BY <2>1
<1>4. Due(carrier = "up", Acks, new, s[p], chan'[e])
  <2>1. CASE s[p].st \in Past
    BY <2>1, DueNothing
  <2>2. CASE Announced(frames) \/ (~Acks /\ new.report = <<"IDLE_TIMEOUT", "local">>)
    <3> DEFINE live == carrier = "up"
    <3>1. chan'[e] = IF live THEN chan[e] \o frames ELSE chan[e]
      OBVIOUS
    <3>2. Due(live, Acks, s[e], s[p], chan[e])
      BY <1>1
    <3> HIDE DEF live
    <3>3. Due(live, Acks, new, s[p], chan'[e])
      BY <1>1, <1>2, <2>2, <3>1, <3>2, DueEnds
    <3> QED BY <3>3 DEF live
  <2> QED BY <1>2, <2>1, <2>2
<1>5. Own(s[p], chan'[p])
  <2>1. CASE chan'[p] = chan[p]
    BY <1>1, <2>1
  <2>2. CASE chan[p] # <<>> /\ chan'[p] = Tail(chan[p])
    <3>1. s[p].st # "new"
      BY <1>1, <2>2 DEF Own
    <3> QED BY <1>1, <2>2, <3>1, OwnStays, RemainsTail
  <2> QED BY <2>1, <2>2
<1>6. Due(carrier = "up", Acks, s[p], new, chan'[p])
  BY <1>2, DueNothing
<1>7. Gone' /\ TrueReason'
  <2>1. s[e].report = None
    BY <1>1, <1>2 DEF Own
  <2> QED BY <1>1, <1>2, <2>1, OneReports
<1> QED BY <1>3, <1>4, <1>5, <1>6, <1>7, Paired

\* Nothing is due on a carrier that is not up but what was.
LEMMA ShutReason ==
  ASSUME IInv, Reasons, NEW e \in End, UNCHANGED <<cfg, carrier>>, carrier # "up",
         s'[Peer(e)] = s[Peer(e)], chan'[e] = chan[e],
         chan'[Peer(e)] = chan[Peer(e)] \/ chan'[Peer(e)] = <<>>,
         s'[e].st \in Past,
         \/ s[e].report # None /\ s'[e].report = s[e].report
         \/ /\ s[e].report = None
            /\ \E code : /\ s'[e].report = <<code, "local">>
                         /\ code = "PIPES_LOST" => carrier = "cut"
  PROVE  Reasons'
<1> DEFINE p == Peer(e)
           new == s'[e]
<1>1. /\ chan[e] \in Seq(Message) /\ chan[p] \in Seq(Message)
      /\ Own(s[e], chan[e]) /\ Due(carrier = "up", Acks, s[e], s[p], chan[e])
      /\ Own(s[p], chan[p]) /\ Gone /\ TrueReason /\ p \in End
  BY Pair
<1>2. Own(s[p], chan'[p])
  <2>1. CASE chan'[p] = chan[p]
    BY <1>1, <2>1
  <2>2. CASE chan'[p] = <<>>
    <3>1. Own(s[p], <<>>)
      BY <1>1, RemainsEmpty DEF Own, Remains
    <3> QED BY <2>2, <3>1
  <2> QED BY <2>1, <2>2
<1>3. Due(carrier = "up", Acks, s[p], new, chan'[p])
  BY DueNothing
<1>4. CASE s[e].report # None /\ new.report = s[e].report
  <2>1. s[e].st \in Past /\ new.st # "new"
    BY <1>1, <1>4 DEF Own, Past
  <2>2. Own(new, chan[e])
    BY <1>1, <1>4, <2>1, OwnStays, RemainsEqual
  <2>3. Due(carrier = "up", Acks, new, s[p], chan[e])
    BY <1>1, <1>4 DEF Due
  <2>4. Gone' /\ TrueReason'
    <3>1. \A d \in End : s'[d].report = s[d].report
      BY <1>4, Ends2
    <3> QED BY <1>1, <3>1, SameReports
  <2> QED BY <1>2, <1>3, <2>2, <2>3, <2>4, Paired
<1>5. ASSUME s[e].report = None, NEW code, new.report = <<code, "local">>,
             code = "PIPES_LOST" => carrier = "cut"
      PROVE  Reasons'
  <2>1. s[e].st \notin Past
    BY <1>1, <1>5 DEF Own
  <2>2. Own(new, chan[e])
    <3>1. <<>> \in Seq(Message) /\ Latest(<<>>) /\ Len(<<>>) = 0
      BY DEF Latest
    <3>2. "local" \in {"local", "remote"} /\ \A i \in 1..Len(<<>>) : FALSE
      BY <3>1
    <3> QED BY <1>1, <1>5, <2>1, <3>1, <3>2, OwnEnds
  <2>3. Due(carrier = "up", Acks, new, s[p], chan[e])
    <3>1. Announced(chan[e])
      BY <1>1, <2>1, OwnOpen DEF Announced, Final
    <3> QED BY <3>1 DEF Due
  <2>4. Gone' /\ TrueReason'
    BY <1>1, <1>5, OneReports
  <2> QED BY <1>2, <1>3, <2>2, <2>3, <2>4, Paired
<1> QED BY <1>4, <1>5

-----------------------------------------------------------------------------
(* The frames of a step.                                                   *)

LEMMA MereFrame ==
  ASSUME NEW k \in FrameKinds \ Final, NEW n \in 0..MaxPings
  PROVE  /\ Mere(<<Frame(k, n)>>) /\ <<Frame(k, n)>> \in Seq(Message)
         /\ Mere(<<Signal(k)>>) /\ <<Signal(k)>> \in Seq(Message)
<1>1. ASSUME NEW m \in 0..MaxPings PROVE Mere(<<Frame(k, m)>>) /\ <<Frame(k, m)>> \in Seq(Message)
  <2>1. /\ Frame(k, m) \in Message /\ Frame(k, m).k = k /\ Frame(k, m).left = Delay
    BY BoundAssumption DEF Frame, Message, Codes
  <2>2. \A f \in Message : <<f>> \in Seq(Message) /\ Len(<<f>>) = 1 /\ <<f>>[1] = f
    OBVIOUS
  <2> DEFINE r == <<Frame(k, m)>>
  <2>3. r \in Seq(Message) /\ Len(r) = 1 /\ r[1] = Frame(k, m)
    BY <2>1, <2>2
  <2> HIDE DEF r
  <2>4. \A i \in 1..Len(r) : i = 1
    BY <2>3
  <2>5. Mere(r)
    BY <2>1, <2>3, <2>4 DEF Mere, Latest
  <2> QED BY <2>3, <2>5 DEF r
<1>2. 0 \in 0..MaxPings
  BY BoundAssumption
<1> QED BY <1>1, <1>2 DEF Signal

LEMMA MereSignal ==
  ASSUME NEW k \in FrameKinds \ Final
  PROVE  Mere(<<Signal(k)>>) /\ <<Signal(k)>> \in Seq(Message)
<1>1. 0 \in 0..MaxPings
  BY BoundAssumption
<1> QED BY <1>1, MereFrame

LEMMA MereNothing == Mere(<<>>) /\ <<>> \in Seq(Message)
  BY DEF Mere, Latest

LEMMA Greeting ==
  ASSUME NEW early \in BOOLEAN
  PROVE  /\ Opening(early) \in Seq(Message) /\ Mere(Opening(early))
         /\ Opening(early) # <<>> /\ Head(Opening(early)).k = "TP"
         /\ Head(Opening(early)).left = Delay
<1>1. \A k \in {"TP", "FENCE", "EARLY"} : /\ Signal(k) \in Message /\ Signal(k).k = k
                                          /\ Signal(k).left = Delay
  BY Signals DEF Signal, Frame, FrameKinds
<1>2. CASE ~early
  <2>1. Opening(early) = <<Signal("TP")>>
    BY <1>2 DEF Opening
  <2>2. \A m \in Message : <<m>> # <<>> /\ Head(<<m>>) = m
    OBVIOUS
  <2>3. Mere(<<Signal("TP")>>) /\ <<Signal("TP")>> \in Seq(Message)
    <3>1. "TP" \in FrameKinds \ Final /\ 0 \in 0..MaxPings
      BY BoundAssumption DEF FrameKinds, Final
    <3> QED BY <3>1, MereFrame
  <2> QED BY <1>1, <2>1, <2>2, <2>3
<1>3. CASE early
  <2> DEFINE f == <<Signal("TP"), Signal("FENCE"), Signal("EARLY")>>
  <2>1. \A a, b, c \in Message :
          /\ Len(<<a, b, c>>) = 3 /\ <<a, b, c>>[1] = a /\ <<a, b, c>>[2] = b
          /\ <<a, b, c>>[3] = c /\ <<a, b, c>> \in Seq(Message)
          /\ <<a, b, c>> # <<>> /\ Head(<<a, b, c>>) = a
    OBVIOUS
  <2>2. /\ Len(f) = 3 /\ f[1] = Signal("TP") /\ f[2] = Signal("FENCE") /\ f[3] = Signal("EARLY")
        /\ f \in Seq(Message) /\ f # <<>> /\ Head(f) = Signal("TP")
    BY <1>1, <2>1
  <2>3. Opening(early) = f
    BY <1>3 DEF Opening
  <2> HIDE DEF f
  <2>4. \A i \in 1..Len(f) : i = 1 \/ i = 2 \/ i = 3
    BY <2>2
  <2>5. \A i \in 1..Len(f) : f[i].left = Delay /\ f[i].k \notin Final
    BY <1>1, <2>2, <2>4 DEF Final
  <2>6. Mere(f)
    BY <2>5 DEF Mere, Latest
  <2> QED BY <1>1, <2>2, <2>3, <2>6
<1> QED BY <1>2, <1>3

LEMMA LastWords ==
  ASSUME NEW code \in Codes
  PROVE  LET r == <<Close(code), EOF>>
         IN  /\ r \in Seq(Message) /\ Latest(r) /\ Announced(r)
             /\ \E i \in 1..Len(r) : r[i].k = "EOF"
             /\ \A i \in 1..Len(r) : r[i].k = "CLOSE" => r[i].code = code
<1>1. /\ Close(code) \in Message /\ Close(code).code = code /\ Close(code).k = "CLOSE"
      /\ Close(code).left = Delay
  <2>1. Signal("CLOSE") \in Message /\ Signal("CLOSE").k = "CLOSE" /\ Signal("CLOSE").left = Delay
    BY Signals DEF FrameKinds, Signal, Frame
  <2> QED BY <2>1 DEF Close, Message
<1>2. EOF \in Message /\ EOF.k = "EOF" /\ EOF.left = Delay
  BY Signals DEF EOF, FrameKinds, Signal, Frame
<1>3. \A m, n \in Message : /\ Len(<<m, n>>) = 2 /\ <<m, n>>[1] = m /\ <<m, n>>[2] = n
                            /\ <<m, n>> \in Seq(Message)
  OBVIOUS
<1> DEFINE f == <<Close(code), EOF>>
<1>4. Len(f) = 2 /\ f[1] = Close(code) /\ f[2] = EOF /\ f \in Seq(Message)
  BY <1>1, <1>2, <1>3
<1> HIDE DEF f
<1>5. /\ \A i \in 1..Len(f) : i = 1 \/ i = 2
      /\ 1 \in 1..(2 - 1) /\ 2 \in 1..Len(f)
  BY <1>4
<1>6. Latest(f) /\ Announced(f)
  BY <1>1, <1>2, <1>4, <1>5 DEF Latest, Announced
<1>7. \E i \in 1..Len(f) : f[i].k = "EOF"
  BY <1>2, <1>4, <1>5
<1>8. \A i \in 1..Len(f) : f[i].k = "CLOSE" => f[i].code = code
  BY <1>1, <1>2, <1>4, <1>5
<1> QED BY <1>4, <1>6, <1>7, <1>8 DEF f

LEMMA LastWord ==
  /\ <<EOF>> \in Seq(Message) /\ Latest(<<EOF>>)
  /\ \E i \in 1..Len(<<EOF>>) : <<EOF>>[i].k = "EOF"
  /\ \A i \in 1..Len(<<EOF>>) : <<EOF>>[i].k # "CLOSE"
<1>1. EOF \in Message /\ EOF.k = "EOF" /\ EOF.left = Delay
  BY Signals DEF EOF, FrameKinds, Signal, Frame
<1>2. \A m \in Message : <<m>> \in Seq(Message) /\ Len(<<m>>) = 1 /\ <<m>>[1] = m
  OBVIOUS
<1> DEFINE f == <<EOF>>
<1>3. f \in Seq(Message) /\ Len(f) = 1 /\ f[1] = EOF
  BY <1>1, <1>2
<1> HIDE DEF f
<1>4. (\A i \in 1..Len(f) : i = 1) /\ 1 \in 1..Len(f)
  BY <1>3
<1>5. Latest(f) /\ (\E i \in 1..Len(f) : f[i].k = "EOF") /\ \A i \in 1..Len(f) : f[i].k # "CLOSE"
  BY <1>1, <1>3, <1>4 DEF Latest
<1> QED BY <1>3, <1>5 DEF f

\* A failure is announced.
LEMMA FailReason ==
  ASSUME IInv, Reasons, NEW e \in End, NEW code \in Codes \ {"PIPES_LOST"}, Fail(e, code),
         s[e].st \in {"start", "open"}, chan[Peer(e)] # <<>>
  PROVE  Reasons'
<1> DEFINE frames == <<Close(Wire(code)), EOF>>
<1>1. Reads(e, Over(s[e], code, "local"), frames)
  BY DEF Fail
<1>2. Wire(code) \in Codes
  BY Wires
<1>3. /\ frames \in Seq(Message) /\ Latest(frames) /\ Announced(frames)
      /\ \E i \in 1..Len(frames) : frames[i].k = "EOF"
      /\ \A i \in 1..Len(frames) : frames[i].k = "CLOSE" => frames[i].code = Wire(code)
  BY <1>2, LastWords
<1> HIDE DEF frames
<1>4. /\ s'[e] = Over(s[e], code, "local") /\ s'[Peer(e)] = s[Peer(e)]
      /\ UNCHANGED <<cfg, carrier>>
      /\ chan'[e] = IF carrier = "up" THEN chan[e] \o frames ELSE chan[e]
      /\ chan'[Peer(e)] = Tail(chan[Peer(e)])
  BY <1>1, ReadsEffect
<1> QED BY <1>3, <1>4, EndsReason

\* e reads a frame that ends nothing.
LEMMA ReadsReason ==
  ASSUME IInv, Reasons, NEW e \in End, NEW new, Reads(e, new, <<>>),
         s[e].st \in {"start", "open"}, new.st = "open", new.report = s[e].report,
         chan[Peer(e)] # <<>>, Head(chan[Peer(e)]).k \notin Final
  PROVE  Reasons'
<1>1. /\ s'[e] = new /\ s'[Peer(e)] = s[Peer(e)] /\ UNCHANGED <<cfg, carrier>>
      /\ chan'[e] \in {chan[e], chan[e] \o <<>>} /\ chan'[Peer(e)] = Tail(chan[Peer(e)])
      /\ chan[e] \in Seq(Message)
  BY ReadsEffect
<1>2. chan'[e] = chan[e]
  BY <1>1
<1> QED BY <1>1, <1>2, ReadsOn

LEMMA StartReason == ASSUME IInv, Reasons, NEW e \in End, Start(e) PROVE Reasons'
<1> DEFINE p == Peer(e)
<1>1. PICK early \in BOOLEAN :
        Do(e, [s[e] EXCEPT !.st = "start", !.early = early], Opening(early))
  BY DEF Start, MayBeEarly
<1> DEFINE new == [s[e] EXCEPT !.st = "start", !.early = early]
           f == Opening(early)
<1>2. /\ f \in Seq(Message) /\ Mere(f) /\ f # <<>> /\ Head(f).k = "TP" /\ Head(f).left = Delay
  BY Greeting
<1>3. s[e] \in Endpoint /\ s[e].st = "new"
  BY Here DEF Start
<1>4. new.st = "start" /\ new.report = s[e].report /\ new.timer = s[e].timer
  BY <1>3 DEF Endpoint
<1>5. Do(e, new, f)
  BY <1>1
<1> HIDE DEF new, f
<1>6. /\ s'[e] = new /\ s'[p] = s[p] /\ UNCHANGED cfg /\ UNCHANGED carrier
      /\ chan'[e] = IF carrier = "up" THEN chan[e] \o f ELSE chan[e]
      /\ chan'[p] = chan[p]
  BY <1>5, DoEffect
<1>7. /\ Own(s[e], chan[e]) /\ Due(carrier = "up", Acks, s[e], s[p], chan[e])
      /\ Own(s[p], chan[p]) /\ Due(carrier = "up", Acks, s[p], s[e], chan[p])
      /\ Gone /\ TrueReason
  BY Pair
<1>8. chan[e] = <<>> /\ chan[e] \o f = f
  BY <1>2, <1>3, <1>7 DEF Own
<1>9. chan'[e] \in {<<>>, f} /\ (carrier = "up" => chan'[e] = f)
  BY <1>6, <1>8
<1>10. Remains(chan'[e], chan[e]) /\ Announced(chan'[e])
  <2>1. Remains(f, <<>>) /\ Announced(f)
    <3>1. <<>> \in Seq(Message) /\ <<>> \o f = f
      BY <1>2
    <3> QED BY <1>2, <3>1, RemainsJoined, RemainsEmpty
  <2> QED BY <1>8, <1>9, <2>1, RemainsEmpty
<1>11. Own(new, chan'[e])
  <2>1. new.st # "new" /\ new.st \notin Past /\ s[e].st \notin Past
    BY <1>3, <1>4 DEF Past
  <2> QED BY <1>4, <1>7, <1>10, <2>1, OwnStays
<1>12. Due(carrier = "up", Acks, new, s[p], chan'[e])
  <2>1. ASSUME carrier = "up", s[p].st \in Early PROVE Greeted(new, s[p], chan'[e])
    <3>1. s[p].timer = 0
      BY <1>7, <1>8, <2>1 DEF Due, Greeted
    <3>2. Delay + 0 <= Delay
      BY BoundAssumption
    <3> QED BY <1>2, <1>9, <2>1, <3>1, <3>2 DEF Greeted
  <2>2. new.st \notin Past
    BY <1>4 DEF Past
  <2> QED BY <1>10, <2>1, <2>2 DEF Due
<1>13. Due(carrier = "up", Acks, s[p], new, chan[p])
  <2>1. s[e].st \notin Past /\ s[e].st \in Early
    BY <1>3 DEF Past, Early
  <2> QED BY <1>4, <1>7, <2>1, DueStays
<1>14. Gone' /\ TrueReason'
  <2>1. \A d \in End : s'[d].report = s[d].report
    BY <1>4, <1>6, Ends2
  <2> QED BY <1>6, <1>7, <2>1, SameReports
<1> QED BY <1>6, <1>7, <1>11, <1>12, <1>13, <1>14, Paired

LEMMA RecvParametersReason == ASSUME IInv, Reasons, NEW e \in End, RecvParameters(e) PROVE Reasons'
<1> DEFINE bad == Objections(cfg[e], cfg[Peer(e)], Transport(e), s[e].early)
           new == [s[e] EXCEPT !.st = "open", !.timer = 0, !.role = Resolved(e)]
<1>1. /\ s[e].st = "start" /\ chan[Peer(e)] # <<>> /\ Head(chan[Peer(e)]).k \notin Final
      /\ (bad = {} /\ Reads(e, new, <<>>)) \/ (\E code \in bad : Fail(e, code))
  BY DEF RecvParameters, On, Resolved, Final
<1>2. CASE Reads(e, new, <<>>)
  <2>1. new.st = "open" /\ new.report = s[e].report
    BY Here DEF Endpoint
  <2>2. Reads(e, new, <<>>)
    BY <1>2
  <2> HIDE DEF new
  <2> QED BY <1>1, <2>1, <2>2, ReadsReason
<1>3. ASSUME NEW code \in bad, Fail(e, code) PROVE Reasons'
  <2>1. code \in Codes \ {"PIPES_LOST"}
    BY DEF Objections, Codes
  <2> QED BY <1>1, <1>3, <2>1, FailReason
<1> QED BY <1>1, <1>2, <1>3

LEMMA RecvFenceReason == ASSUME IInv, Reasons, NEW e \in End, RecvFence(e) PROVE Reasons'
<1>1. /\ s[e].st = "open" /\ chan[Peer(e)] # <<>> /\ Head(chan[Peer(e)]).k \notin Final
      /\ Reads(e, s[e], <<>>) \/ Fail(e, "FRAME_ENCODING_ERROR")
  BY DEF RecvFence, On, Final
<1>2. "FRAME_ENCODING_ERROR" \in Codes \ {"PIPES_LOST"}
  BY DEF Codes
<1> QED BY <1>1, <1>2, ReadsReason, FailReason

LEMMA RecvEarlyReason == ASSUME IInv, Reasons, NEW e \in End, RecvEarly(e) PROVE Reasons'
<1> DEFINE new == [Heard(s[e]) EXCEPT !.took = TRUE]
<1>1. /\ s[e].st = "open" /\ chan[Peer(e)] # <<>> /\ Head(chan[Peer(e)]).k \notin Final
      /\ Fail(e, "STREAM_LIMIT_ERROR") \/ Reads(e, new, <<>>)
  BY DEF RecvEarly, On, Final
<1>2. "STREAM_LIMIT_ERROR" \in Codes \ {"PIPES_LOST"}
  BY DEF Codes
<1>3. new.st = "open" /\ new.report = s[e].report
  <2>1. Heard(s[e]) \in Endpoint /\ s[e] \in Endpoint
    BY Here
  <2>2. new.st = Heard(s[e]).st /\ new.report = Heard(s[e]).report
    BY <2>1 DEF Endpoint
  <2> QED BY <1>1, <2>1, <2>2, HeardFields
<1> HIDE DEF new
<1> QED BY <1>1, <1>2, <1>3, FailReason, ReadsReason

LEMMA RecvDataReason == ASSUME IInv, Reasons, NEW e \in End, RecvData(e) PROVE Reasons'
<1>1. /\ s[e].st = "open" /\ chan[Peer(e)] # <<>> /\ Head(chan[Peer(e)]).k \notin Final
      /\ Reads(e, Heard(s[e]), <<>>)
  BY DEF RecvData, On, Final
<1> QED BY <1>1, Here, HeardFields, ReadsReason

LEMMA RecvAckReason == ASSUME IInv, Reasons, NEW e \in End, RecvAck(e) PROVE Reasons'
<1>1. /\ s[e].st = "open" /\ chan[Peer(e)] # <<>> /\ Head(chan[Peer(e)]).k \notin Final
      /\ Reads(e, Active(s[e]), <<>>)
  BY DEF RecvAck, On, Final
<1> QED BY <1>1, Here, ActiveFields, ReadsReason

LEMMA SendDataReason == ASSUME IInv, Reasons, NEW e \in End, SendData(e) PROVE Reasons'
<1> DEFINE new == [Passed(s[e]) EXCEPT !.data = Passed(s[e]).data + 1]
<1>1. s[e].st = "open" /\ Do(e, new, <<Signal("DATA")>>)
  BY DEF SendData
<1>2. Mere(<<Signal("DATA")>>) /\ <<Signal("DATA")>> \in Seq(Message)
  BY MereSignal DEF FrameKinds, Final
<1>3. new.st = "open" /\ new.report = s[e].report
  <2>1. Passed(s[e]) \in Endpoint /\ s[e] \in Endpoint
    BY Here
  <2>2. new.st = Passed(s[e]).st /\ new.report = Passed(s[e]).report
    BY <2>1 DEF Endpoint
  <2> QED BY <1>1, <2>1, <2>2, PassedFields
<1> HIDE DEF new
<1> QED BY <1>1, <1>2, <1>3, WritesOn

LEMMA SendAckReason == ASSUME IInv, Reasons, NEW e \in End, SendAck(e) PROVE Reasons'
<1> DEFINE new == [s[e] EXCEPT !.ackDue = FALSE]
<1>1. s[e].st = "open" /\ Do(e, new, <<Signal("ACK")>>)
  BY DEF SendAck
<1>2. Mere(<<Signal("ACK")>>) /\ <<Signal("ACK")>> \in Seq(Message)
  BY MereSignal DEF FrameKinds, Final
<1>3. new.st = "open" /\ new.report = s[e].report
  BY <1>1, Here DEF Endpoint
<1> HIDE DEF new
<1> QED BY <1>1, <1>2, <1>3, WritesOn

LEMMA AskReason ==
  ASSUME IInv, Reasons, NEW e \in End, s[e].st = "open", s[e].req < MaxPings,
         NEW new, new.st = Asks(s[e]).st, new.report = Asks(s[e]).report,
         Do(e, new, <<Frame("PING", s[e].req + 1)>>)
  PROVE  Reasons'
<1>1. s[e].req + 1 \in 0..MaxPings
  BY Here, Fields
<1>2. /\ Mere(<<Frame("PING", s[e].req + 1)>>) /\ <<Frame("PING", s[e].req + 1)>> \in Seq(Message)
  BY <1>1, MereFrame DEF FrameKinds, Final
<1>3. new.st = "open" /\ new.report = s[e].report
  BY Here, AsksFields
<1> QED BY <1>2, <1>3, WritesOn

LEMMA PingReason == ASSUME IInv, Reasons, NEW e \in End, Ping(e) PROVE Reasons'
  BY AskReason DEF Ping

LEMMA KeepAliveReason == ASSUME IInv, Reasons, NEW e \in End, KeepAlive(e) PROVE Reasons'
<1>1. s[e].st = "open"
  BY DEF KeepAlive, KeepAliveDue
<1>2. CASE s[e].waits \/ s[e].req = MaxPings
  <2> DEFINE new == [s[e] EXCEPT !.kept = TRUE]
  <2>1. Do(e, new, <<>>)
    BY <1>2 DEF KeepAlive
  <2>2. new.st = "open" /\ new.report = s[e].report
    BY <1>1, Here DEF Endpoint
  <2> HIDE DEF new
  <2> QED BY <1>1, <2>1, <2>2, MereNothing, WritesOn
<1>3. CASE ~(s[e].waits \/ s[e].req = MaxPings)
  <2> DEFINE new == [Asks(s[e]) EXCEPT !.kept = TRUE]
  <2>1. Do(e, new, <<Frame("PING", s[e].req + 1)>>)
    BY <1>3 DEF KeepAlive
  <2>2. s[e].req < MaxPings
    BY <1>3, Here, Fields
  <2>3. new.st = Asks(s[e]).st /\ new.report = Asks(s[e]).report
    BY <2>2, Asked DEF Endpoint
  <2> HIDE DEF new
  <2> QED BY <1>1, <2>1, <2>2, <2>3, AskReason
<1> QED BY <1>2, <1>3

LEMMA GiveUpReason == ASSUME IInv, Reasons, NEW e \in End, GiveUp(e) PROVE Reasons'
<1> DEFINE new == [s[e] EXCEPT !.waits = FALSE]
<1>1. s[e].st = "open" /\ Do(e, new, <<>>)
  BY DEF GiveUp
<1>2. new.st = "open" /\ new.report = s[e].report
  BY <1>1, Here DEF Endpoint
<1> HIDE DEF new
<1> QED BY <1>1, <1>2, MereNothing, WritesOn

LEMMA RespondReason == ASSUME IInv, Reasons, NEW e \in End, Respond(e) PROVE Reasons'
<1> DEFINE new == [Passed(s[e]) EXCEPT !.owed = 0]
<1>1. s[e].st = "open" /\ Do(e, new, <<Frame("PONG", s[e].owed)>>)
  BY DEF Respond
<1>2. s[e].owed \in 0..MaxPings
  BY Here, Fields
<1>3. Mere(<<Frame("PONG", s[e].owed)>>) /\ <<Frame("PONG", s[e].owed)>> \in Seq(Message)
  BY <1>2, MereFrame DEF FrameKinds, Final
<1>4. new.st = "open" /\ new.report = s[e].report
  <2>1. Passed(s[e]) \in Endpoint /\ s[e] \in Endpoint
    BY Here
  <2>2. new.st = Passed(s[e]).st /\ new.report = Passed(s[e]).report
    BY <2>1 DEF Endpoint
  <2> QED BY <1>1, <2>1, <2>2, PassedFields
<1> HIDE DEF new
<1> QED BY <1>1, <1>3, <1>4, WritesOn

LEMMA ChargedReason ==
  ASSUME IInv, Reasons, NEW e \in End, NEW costs \in BOOLEAN, NEW new \in Endpoint,
         Charged(e, costs, new), s[e].st = "open", new.st = "open", new.report = s[e].report,
         chan[Peer(e)] # <<>>, Head(chan[Peer(e)]).k \notin Final
  PROVE  Reasons'
<1>1. CASE costs /\ s[e].tokens = 0
  <2>1. Fail(e, "ZMUX_EXCESSIVE_LOAD")
    BY <1>1 DEF Charged
  <2> QED BY <2>1, FailReason DEF Codes
<1>2. CASE ~(costs /\ s[e].tokens = 0)
  <2> DEFINE v == IF costs THEN new.tokens - 1 ELSE new.tokens
  <2>1. Reads(e, [new EXCEPT !.tokens = v], <<>>)
    BY <1>2 DEF Charged
  <2> HIDE DEF v
  <2>2. [new EXCEPT !.tokens = v].st = "open" /\ [new EXCEPT !.tokens = v].report = s[e].report
    BY DEF Endpoint
  <2> QED BY <2>1, <2>2, ReadsReason
<1> QED BY <1>1, <1>2

LEMMA RecvPingReason == ASSUME IInv, Reasons, NEW e \in End, RecvPing(e) PROVE Reasons'
<1> DEFINE n == Got(e).n
           new == [Heard(s[e]) EXCEPT !.top = n, !.owed = n]
<1>1. /\ s[e].st = "open" /\ chan[Peer(e)] # <<>> /\ Head(chan[Peer(e)]).k \notin Final
      /\ Fail(e, "PROTOCOL_VIOLATION") \/ Charged(e, s[e].owed > 0, new)
  BY DEF RecvPing, On, Final
<1>2. new \in Endpoint /\ new.st = "open" /\ new.report = s[e].report
  <2>1. Heard(s[e]) \in Endpoint /\ s[e] \in Endpoint /\ n \in 0..MaxPings
    BY <1>1, Here, NextFrame
  <2> HIDE DEF n
  <2>2. new \in Endpoint /\ new.st = Heard(s[e]).st /\ new.report = Heard(s[e]).report
    BY <2>1 DEF Endpoint
  <2> QED BY <1>1, <2>1, <2>2, HeardFields
<1>3. (s[e].owed > 0) \in BOOLEAN /\ "PROTOCOL_VIOLATION" \in Codes \ {"PIPES_LOST"}
  BY DEF Codes
<1> HIDE DEF new
<1> QED BY <1>1, <1>2, <1>3, FailReason, ChargedReason

LEMMA RecvPongReason == ASSUME IInv, Reasons, NEW e \in End, RecvPong(e) PROVE Reasons'
<1> DEFINE p == Peer(e)
           n == Got(e).n
           more == [Heard(s[e]) EXCEPT !.ans = Max({n, Heard(s[e]).ans})]
           mine == [Heard(s[e]) EXCEPT !.ans = 0, !.req = 0, !.waits = FALSE]
           other == [s[p] EXCEPT !.top = 0]
<1>1. s[e].st = "open" /\ chan[p] # <<>> /\ Head(chan[p]).k \notin Final
  BY DEF RecvPong, On, Final
<1>2. Heard(s[e]) \in Endpoint /\ s[e] \in Endpoint /\ p \in End /\ Heard(s[e]).ans = s[e].ans
  BY Here, Ends2
<1>3. CASE Fail(e, "PROTOCOL_VIOLATION")
  BY <1>1, <1>3, FailReason DEF Codes
<1>4. CASE Charged(e, n <= s[e].ans, more)
  <2>1. Max({n, Heard(s[e]).ans}) \in 0..MaxPings
    <3>1. n \in 0..MaxPings /\ s[e].ans \in 0..MaxPings /\ n \in Int /\ s[e].ans \in Int
      BY <1>1, NextFrame, Here, Fields
    <3>2. Max({n, s[e].ans}) \in {n, s[e].ans}
      BY <3>1, Extremes
    <3> HIDE DEF n
    <3> QED BY <1>2, <3>1, <3>2
  <2> DEFINE v == Max({n, Heard(s[e]).ans})
  <2> HIDE DEF v
  <2>2. /\ [Heard(s[e]) EXCEPT !.ans = v] \in Endpoint
        /\ [Heard(s[e]) EXCEPT !.ans = v].st = Heard(s[e]).st
        /\ [Heard(s[e]) EXCEPT !.ans = v].report = Heard(s[e]).report
    BY <1>2, <2>1 DEF Endpoint, v
  <2>3. more \in Endpoint /\ more.st = "open" /\ more.report = s[e].report
    BY <1>1, <1>2, <2>2, HeardFields DEF v
  <2>4. (n <= s[e].ans) \in BOOLEAN
    OBVIOUS
  <2> HIDE DEF more
  <2> QED BY <1>1, <1>4, <2>3, <2>4, ChargedReason
<1>5. CASE /\ s' = [s EXCEPT ![e] = mine, ![p] = other]
           /\ chan' = [chan EXCEPT ![p] = Tail(chan[p])] /\ UNCHANGED <<cfg, carrier>>
  <2>1. mine.st = "open" /\ mine.report = s[e].report
    <3>1. mine.st = Heard(s[e]).st /\ mine.report = Heard(s[e]).report
      BY <1>2 DEF Endpoint
    <3> QED BY <1>1, <1>2, <3>1, HeardFields
  <2>2. other.st = s[p].st /\ other.report = s[p].report /\ other.timer = s[p].timer
    BY <1>2, Here DEF Endpoint
  <2> HIDE DEF mine, other
  <2>3. /\ s'[e] = mine /\ s'[p] = other /\ chan'[p] = Tail(chan[p]) /\ chan'[e] = chan[e]
    BY <1>5, Ends2 DEF IInv, TypeOK
  <2> QED BY <1>1, <1>5, <2>1, <2>2, <2>3, ReadsOn
<1> QED BY <1>2, <1>3, <1>4, <1>5 DEF RecvPong

LEMMA IdleTimeoutReason == ASSUME IInv, Reasons, NEW e \in End, IdleTimeout(e) PROVE Reasons'
<1> DEFINE frames == IF Acks THEN <<Close(Wire("IDLE_TIMEOUT")), EOF>> ELSE <<EOF>>
<1>1. s[e].st = "open" /\ Do(e, Over(s[e], "IDLE_TIMEOUT", "local"), frames)
  BY DEF IdleTimeout, IdleDue
<1>2. Wire("IDLE_TIMEOUT") \in Codes
  BY Wires DEF Codes
<1>3. /\ frames \in Seq(Message) /\ Latest(frames)
      /\ \E i \in 1..Len(frames) : frames[i].k = "EOF"
      /\ \A i \in 1..Len(frames) : frames[i].k = "CLOSE" => frames[i].code = Wire("IDLE_TIMEOUT")
      /\ Announced(frames) \/ ~Acks
  <2>1. CASE Acks
    BY <1>2, <2>1, LastWords
  <2>2. CASE ~Acks
    BY <2>2, LastWord
  <2> QED BY <2>1, <2>2
<1> HIDE DEF frames
<1>4. /\ s'[e] = Over(s[e], "IDLE_TIMEOUT", "local") /\ s'[Peer(e)] = s[Peer(e)]
      /\ UNCHANGED <<cfg, carrier>> /\ chan'[Peer(e)] = chan[Peer(e)]
      /\ chan'[e] = IF carrier = "up" THEN chan[e] \o frames ELSE chan[e]
  BY <1>1, DoEffect
<1> QED BY <1>1, <1>3, <1>4, EndsReason

LEMMA AppCloseReason == ASSUME IInv, Reasons, NEW e \in End, AppClose(e) PROVE Reasons'
<1> DEFINE frames == <<Close("APPLICATION"), EOF>>
<1>1. s[e].st = "open" /\ Do(e, Over(s[e], "APPLICATION", "local"), frames)
  BY DEF AppClose
<1>2. "APPLICATION" \in Codes /\ Wire("APPLICATION") = "APPLICATION"
  BY DEF Codes, Wire
<1>3. /\ frames \in Seq(Message) /\ Latest(frames) /\ Announced(frames)
      /\ \E i \in 1..Len(frames) : frames[i].k = "EOF"
      /\ \A i \in 1..Len(frames) : frames[i].k = "CLOSE" => frames[i].code = "APPLICATION"
  BY <1>2, LastWords
<1> HIDE DEF frames
<1>4. /\ s'[e] = Over(s[e], "APPLICATION", "local") /\ s'[Peer(e)] = s[Peer(e)]
      /\ UNCHANGED <<cfg, carrier>> /\ chan'[Peer(e)] = chan[Peer(e)]
      /\ chan'[e] = IF carrier = "up" THEN chan[e] \o frames ELSE chan[e]
  BY <1>1, DoEffect
<1> QED BY <1>1, <1>2, <1>3, <1>4, EndsReason

\* What a CONNECTION_CLOSE says of its sender.
LEMMA WireTwice ==
  \A r : LET code == IF Wire(r) = "ZMUX_IDLE_TIMEOUT" THEN "IDLE_TIMEOUT" ELSE Wire(r)
         IN  Wire(code) = Wire(r) /\ (code = "PIPES_LOST" => r = "PIPES_LOST")
  BY DEF Wire

\* The first frame e reads is one of those that its peer has sent.
LEMMA ReadsEnd ==
  ASSUME IInv, Reasons, NEW e \in End, s[e].st = "open", chan[Peer(e)] # <<>>
  PROVE  /\ Got(e).k \in Final => s[Peer(e)].report # None /\ s[Peer(e)].st \in Past
         /\ Got(e).k = "CLOSE" => /\ s[Peer(e)].report[2] = "local"
                                  /\ Got(e).code = Wire(s[Peer(e)].report[1])
         /\ Got(e).k = "EOF" => ~Acks /\ s[Peer(e)].report = <<"IDLE_TIMEOUT", "local">>
<1> DEFINE p == Peer(e)
<1>1. /\ chan[p] \in Seq(Message) /\ Own(s[p], chan[p])
      /\ Due(carrier = "up", Acks, s[p], s[e], chan[p])
  BY Pair
<1>2. 1 \in 1..Len(chan[p]) /\ Got(e) = chan[p][1]
  BY <1>1, Shorter DEF Got
<1>3. /\ Got(e).k = "CLOSE" => s[p].report[2] = "local" /\ Got(e).code = Wire(s[p].report[1])
      /\ Got(e).k = "EOF" => s[p].report # None
  BY <1>1, <1>2 DEF Own
<1>4. Got(e).k \in Final => s[p].report # None /\ s[p].st \in Past
  <2>1. s[p].report # None => s[p].st \in Past
    BY <1>1 DEF Own
  <2>2. None[2] # "local"
    BY DEF None
  <2> QED BY <1>3, <2>1, <2>2 DEF Final
<1>5. Got(e).k = "EOF" => ~Announced(chan[p])
  <2>1. \A j \in 1..(1 - 1) : FALSE
    OBVIOUS
  <2> QED BY <1>2, <2>1 DEF Announced
<1>6. s[e].st \notin Past
  BY DEF Past
<1> QED BY <1>1, <1>3, <1>4, <1>5, <1>6 DEF Due

LEMMA RecvCloseReason == ASSUME IInv, Reasons, NEW e \in End, RecvClose(e) PROVE Reasons'
<1> DEFINE p == Peer(e)
           code == IF Got(e).code = "ZMUX_IDLE_TIMEOUT" THEN "IDLE_TIMEOUT" ELSE Got(e).code
<1>1. /\ s[e].st = "open" /\ chan[p] # <<>> /\ Got(e).k = "CLOSE"
      /\ Reads(e, Over(s[e], code, "remote"), <<EOF>>)
  BY DEF RecvClose, On, Got
<1>2. /\ s[p].report[2] = "local" /\ Got(e).code = Wire(s[p].report[1]) /\ s[p].st \in Past
  BY <1>1, ReadsEnd DEF Final
<1>3. Wire(s[p].report[1]) = Wire(code) /\ (code = "PIPES_LOST" => s[p].report[1] = "PIPES_LOST")
  BY <1>2, WireTwice
<1> HIDE DEF code
<1>4. /\ s'[e] = Over(s[e], code, "remote") /\ s'[p] = s[p]
      /\ UNCHANGED <<cfg, carrier>> /\ chan'[p] = Tail(chan[p])
      /\ chan'[e] = IF carrier = "up" THEN chan[e] \o <<EOF>> ELSE chan[e]
  BY <1>1, ReadsEffect
<1>5. code = "PIPES_LOST" => carrier = "cut"
  BY <1>3, Pair DEF TrueReason
<1> QED BY <1>1, <1>2, <1>3, <1>4, <1>5, LastWord, EndsReason

LEMMA RecvEofReason == ASSUME IInv, Reasons, NEW e \in End, RecvEof(e) PROVE Reasons'
<1> DEFINE p == Peer(e)
<1>1. s[e].st = "open" /\ chan[p] # <<>> /\ Got(e).k = "EOF"
  BY DEF RecvEof, On, Got
<1>2. ~Acks /\ s[p].report = <<"IDLE_TIMEOUT", "local">> /\ s[p].st \in Past
  BY <1>1, ReadsEnd DEF Final
<1>3. Reads(e, Over(s[e], "IDLE_TIMEOUT", "remote"), <<EOF>>)
  BY <1>2 DEF RecvEof
<1>4. s[p].report[2] = "local" /\ Wire(s[p].report[1]) = Wire("IDLE_TIMEOUT")
  BY <1>2
<1>5. /\ s'[e] = Over(s[e], "IDLE_TIMEOUT", "remote") /\ s'[p] = s[p]
      /\ UNCHANGED <<cfg, carrier>> /\ chan'[p] = Tail(chan[p])
      /\ chan'[e] = IF carrier = "up" THEN chan[e] \o <<EOF>> ELSE chan[e]
  BY <1>3, ReadsEffect
<1> QED BY <1>1, <1>2, <1>4, <1>5, LastWord, EndsReason

\* An end of a handshake that does not time out: the parameters come first.
LEMMA HandshakeTimesOutReason ==
  ASSUME IInv, Reasons, NEW e \in End, HandshakeTimesOut(e) PROVE Reasons'
<1> DEFINE p == Peer(e)
           new == Shut(s[e], "HANDSHAKE_TIMEOUT", "local")
<1>1. /\ s[e].st = "start" /\ s[e].timer >= HandshakeTimeout
      /\ s' = [s EXCEPT ![e] = new] /\ UNCHANGED <<cfg, chan>>
      /\ carrier' = IF carrier = "up" THEN "gone" ELSE carrier
  BY DEF HandshakeTimesOut, Shut
<1>2. /\ s[e] \in Endpoint /\ chan[p] \in Seq(Message) /\ p \in End /\ p # e
      /\ Own(s[e], chan[e]) /\ Due(carrier = "up", Acks, s[p], s[e], chan[p])
  BY Pair
<1>3. carrier # "up"
  <2> SUFFICES ASSUME carrier = "up" PROVE FALSE
    OBVIOUS
  <2>1. Greeted(s[p], s[e], chan[p])
    BY <1>1, <1>2 DEF Due, Early
  <2>2. s[e].timer \in Nat
    BY <1>2, Fields
  <2>3. s[e].timer > Delay /\ s[e].timer # 0
    BY <1>1, <2>2, TimeAssumption, BoundAssumption
  <2>4. chan[p] # <<>> /\ Head(chan[p]).left + s[e].timer <= Delay
    BY <2>1, <2>3 DEF Greeted
  <2>5. Head(chan[p]) \in Message
    BY <1>2, <2>4, Shorter
  <2>6. Head(chan[p]).left \in 0..Delay
    BY <2>5 DEF Message
  <2> QED BY <2>2, <2>3, <2>4, <2>6, BoundAssumption
<1>4. s'[e] = new /\ s'[p] = s[p] /\ UNCHANGED carrier
  BY <1>1, <1>2, <1>3 DEF IInv, TypeOK
<1>5. new.st \in Past /\ new.report = <<"HANDSHAKE_TIMEOUT", "local">> /\ s[e].report = None
  <2>1. s[e].st \notin Past
    BY <1>1 DEF Past
  <2> QED BY <1>2, <2>1, OverFields DEF Own
<1> HIDE DEF new
<1> QED BY <1>1, <1>3, <1>4, <1>5, ShutReason

LEMMA CarrierErrorReason == ASSUME IInv, Reasons, NEW e \in End, CarrierError(e) PROVE Reasons'
<1> DEFINE p == Peer(e)
           new == IF s[e].report = None THEN Shut(s[e], "PIPES_LOST", "local")
                                        ELSE [s[e] EXCEPT !.st = "closed", !.timer = 0]
<1>1. /\ s' = [s EXCEPT ![e] = new] /\ chan' = [chan EXCEPT ![p] = <<>>]
      /\ UNCHANGED <<cfg, carrier>> /\ carrier \in {"cut", "gone"}
  BY DEF CarrierError, Shut
<1>2. s[e] \in Endpoint /\ p \in End /\ p # e /\ Gone
  BY Pair
<1>3. /\ s'[e] = new /\ s'[p] = s[p] /\ chan'[e] = chan[e] /\ chan'[p] = <<>>
  BY <1>1, <1>2 DEF IInv, TypeOK
<1>4. /\ new.st \in Past
      /\ s[e].report = None => new.report = <<"PIPES_LOST", "local">> /\ carrier = "cut"
      /\ s[e].report # None => new.report = s[e].report
  <2>1. CASE s[e].report = None
    <3>1. new = Shut(s[e], "PIPES_LOST", "local")
      BY <2>1
    <3>2. carrier = "cut"
      BY <1>1, <1>2, <2>1 DEF Gone
    <3> QED BY <1>2, <2>1, <3>1, <3>2, OverFields
  <2>2. CASE s[e].report # None
    BY <1>2, <2>2 DEF Endpoint, Past
  <2> QED BY <2>1, <2>2
<1> HIDE DEF new
<1>5. carrier # "up"
  BY <1>1
<1>6. CASE s[e].report = None
  BY <1>1, <1>3, <1>4, <1>5, <1>6, ShutReason
<1>7. CASE s[e].report # None
  BY <1>1, <1>3, <1>4, <1>5, <1>7, ShutReason
<1> QED BY <1>6, <1>7

\* Whoever is done with lingering leaves an end that knows why.
LEMMA LingerEndsReason == ASSUME IInv, Reasons, NEW e \in End, LingerEnds(e) PROVE Reasons'
<1> DEFINE p == Peer(e)
           new == [s[e] EXCEPT !.st = "closed", !.timer = 0]
<1>1. /\ s[e].st = "closing" /\ s[e].timer >= Linger
      /\ s' = [s EXCEPT ![e] = new] /\ UNCHANGED <<cfg, chan>>
      /\ carrier' = IF carrier = "up" THEN "gone" ELSE carrier
  BY DEF LingerEnds
<1>2. /\ s[e] \in Endpoint /\ chan[e] \in Seq(Message) /\ p \in End /\ p # e
      /\ Own(s[e], chan[e]) /\ Own(s[p], chan[p]) /\ Gone /\ TrueReason
      /\ Due(carrier = "up", Acks, s[e], s[p], chan[e])
  BY Pair
<1>3. s'[e] = new /\ s'[p] = s[p]
  BY <1>1, <1>2 DEF IInv, TypeOK
<1>4. new.st \in Past /\ new.st # "new" /\ new.report = s[e].report
  BY <1>2 DEF Endpoint, Past
<1> HIDE DEF new
<1>5. s[e].report # None /\ s[e].st \in Past
  BY <1>1, <1>2 DEF Own, Past
<1>6. CASE carrier # "up"
  BY <1>1, <1>3, <1>4, <1>5, <1>6, ShutReason
<1>7. CASE carrier = "up"
  <2>1. s[p].report # None
    <3> SUFFICES ASSUME s[p].report = None PROVE FALSE
      OBVIOUS
    <3>1. s[p].st \notin Past
      BY <1>2 DEF Own
    <3>2. PICK i \in 1..Len(chan[e]) : chan[e][i].left + s[e].timer <= Delay
      BY <1>2, <1>5, <1>7, <3>1 DEF Due, Parting
    <3>3. chan[e][i] \in Message
      BY <1>2
    <3>4. chan[e][i].left \in 0..Delay /\ s[e].timer \in Nat
      BY <1>2, <3>3, Fields DEF Message
    <3> QED BY <1>1, <3>2, <3>4, TimeAssumption, BoundAssumption
  <2>2. Own(new, chan'[e])
    BY <1>1, <1>2, <1>4, <1>5, OwnStays, RemainsEqual
  <2>3. Due(carrier' = "up", Acks, new, s[p], chan'[e])
    <3>1. s[p].st \in Past
      BY <1>2, <2>1 DEF Own
    <3> QED BY <3>1, DueNothing
  <2>4. Due(carrier' = "up", Acks, s[p], new, chan'[p])
    BY <1>4, DueNothing
  <2>5. \A d \in End : s'[d].report = s[d].report /\ s[d].report # None
    BY <1>3, <1>4, <1>5, <2>1, Ends2
  <2>6. Gone'
    BY <2>5 DEF Gone
  <2>7. TrueReason'
    <3>1. \A d \in End : s[d].report[1] # "PIPES_LOST" /\ Peer(d) \in End
      BY <1>2, <1>7, Ends2 DEF TrueReason
    <3> QED BY <1>2, <2>5, <3>1 DEF TrueReason
  <2> QED BY <1>1, <1>2, <1>3, <2>2, <2>3, <2>4, <2>6, <2>7, Paired
<1> QED BY <1>6, <1>7

LEMMA IgnoreReason == ASSUME IInv, Reasons, NEW e \in End, Ignore(e) PROVE Reasons'
<1> DEFINE p == Peer(e)
           new == IF On(e, "EOF") THEN [s[e] EXCEPT !.st = "closed", !.timer = 0] ELSE s[e]
<1>1. s[e].st = "closing" /\ chan[p] # <<>> /\ Reads(e, new, <<>>)
  BY DEF Ignore
<1>2. /\ s[e] \in Endpoint /\ chan[e] \in Seq(Message) /\ chan[p] \in Seq(Message) /\ p \in End
      /\ Own(s[e], chan[e]) /\ Own(s[p], chan[p]) /\ Gone /\ TrueReason
      /\ Due(carrier = "up", Acks, s[e], s[p], chan[e])
  BY Pair
<1>3. /\ new.st \in Past /\ new.st # "new" /\ new.report = s[e].report
      /\ ~On(e, "EOF") => new = s[e]
  BY <1>1, <1>2 DEF Endpoint, Past
<1> HIDE DEF new
<1>4. /\ s'[e] = new /\ s'[p] = s[p] /\ UNCHANGED cfg /\ UNCHANGED carrier
      /\ chan'[e] = chan[e] /\ chan'[p] = Tail(chan[p])
  <2>1. chan[e] \o <<>> = chan[e]
    BY <1>2
  <2> QED BY <1>1, <2>1, ReadsEffect
<1>5. s[e].st \in Past
  BY <1>1 DEF Past
<1>6. Own(new, chan'[e])
  BY <1>2, <1>3, <1>4, <1>5, OwnStays, RemainsEqual
<1>7. Due(carrier = "up", Acks, new, s[p], chan'[e])
  <2>1. CASE On(e, "EOF")
    <3>1. 1 \in 1..Len(chan[p]) /\ chan[p][1].k = "EOF"
      BY <1>1, <1>2, <2>1, Shorter DEF On
    <3>2. s[p].st \in Past
      BY <1>2, <3>1 DEF Own
    <3> QED BY <3>2, DueNothing
  <2>2. CASE ~On(e, "EOF")
    BY <1>2, <1>3, <1>4, <2>2
  <2> QED BY <2>1, <2>2
<1>8. Own(s[p], chan'[p])
  <2>1. s[p].st # "new"
    BY <1>1, <1>2 DEF Own
  <2> QED BY <1>1, <1>2, <1>4, <2>1, OwnStays, RemainsTail
<1>9. Due(carrier = "up", Acks, s[p], new, chan'[p])
  BY <1>3, DueNothing
<1>10. Gone' /\ TrueReason'
  <2>1. \A d \in End : s'[d].report = s[d].report
    BY <1>3, <1>4, Ends2
  <2> QED BY <1>2, <1>4, <2>1, SameReports
<1> QED BY <1>4, <1>6, <1>7, <1>8, <1>9, <1>10, Paired

LEMMA StallCutReason == ASSUME IInv, Reasons, Stall \/ Cut PROVE Reasons'
<1>1. /\ UNCHANGED <<cfg, s>> /\ carrier = "up" /\ carrier' \in {"stalled", "cut"}
      /\ \A e \in End : chan'[e] \in {chan[e], <<>>}
  BY DEF Stall, Cut
<1>2. \A e \in End : /\ Own(s[e], chan[e]) /\ Gone /\ TrueReason
                     /\ Due(carrier = "up", Acks, s[e], s[Peer(e)], chan[e])
  BY Pair
<1>3. ASSUME NEW e \in End PROVE Own(s[e], chan'[e])
  BY <1>1, <1>2, RemainsEmpty DEF Own, Remains
<1>4. ASSUME NEW e \in End PROVE Due(carrier' = "up", Acks, s[e], s[Peer(e)], chan'[e])
  BY <1>1, <1>2, RemainsEmpty DEF Due
<1>5. Gone' /\ TrueReason'
  <2>1. Gone /\ TrueReason
    BY DEF Reasons
  <2> QED BY <1>1, <2>1, SameReports
<1>6. Acks' = Acks
  BY <1>1 DEF Acks
<1> QED BY <1>1, <1>3, <1>4, <1>5, <1>6 DEF Reasons

LEMMA StutterReason == ASSUME Reasons, UNCHANGED vars PROVE Reasons'
<1>1. UNCHANGED cfg /\ UNCHANGED s /\ UNCHANGED chan /\ UNCHANGED carrier
  BY DEF vars
<1>2. Acks' = Acks
  BY <1>1 DEF Acks
<1> QED BY <1>1, <1>2 DEF Reasons, Gone, TrueReason

\* Time moves the timer of an end by no more than one.
LEMMA LaterFields ==
  ASSUME NEW x \in Endpoint
  PROVE  /\ Later(x).st = x.st /\ Later(x).report = x.report
         /\ Later(x).waits = x.waits /\ Later(x).req = x.req /\ Later(x).owed = x.owed
         /\ Later(x).kept = x.kept /\ Later(x).ackDue = x.ackDue
         /\ Later(x).timer \in {x.timer, x.timer + 1} /\ x.timer \in Nat
         /\ x.st \in {"new", "start", "closing"} => Later(x).timer = x.timer + 1
         /\ x.st = "open" /\ ~Rests(x) => Later(x).timer = x.timer + 1
         /\ x.st = "open" /\ Rests(x) => Later(x).timer = x.timer
<1> DEFINE t == IF Rests(x) THEN x.timer ELSE x.timer + 1
           v == Min({Budget, x.tokens + Refill})
<1>1. CASE x.st = "closed"
  BY <1>1, Fields DEF Later
<1>2. CASE x.st # "closed"
  <2>1. Later(x) = [x EXCEPT !.timer = t, !.tokens = v]
    BY <1>2 DEF Later
  <2>2. /\ t \in {x.timer, x.timer + 1}
        /\ x.st \in {"new", "start", "closing"} => t = x.timer + 1
        /\ x.st = "open" /\ ~Rests(x) => t = x.timer + 1
        /\ x.st = "open" /\ Rests(x) => t = x.timer
    BY DEF Rests
  <2> HIDE DEF t, v
  <2>3. /\ Later(x).st = x.st /\ Later(x).report = x.report
        /\ Later(x).waits = x.waits /\ Later(x).req = x.req /\ Later(x).owed = x.owed
        /\ Later(x).kept = x.kept /\ Later(x).ackDue = x.ackDue /\ Later(x).timer = t
    BY <2>1 DEF Endpoint
  <2> QED BY <2>2, <2>3, Fields
<1> QED BY <1>1, <1>2

\* A frame that could still wait comes nearer.
LEMMA Nearer ==
  ASSUME NEW q \in Seq(Message), NEW i \in 1..Len(q), q[i].left # 0
  PROVE  /\ q[i].left \in 1..Delay /\ Aged(q)[i].left = q[i].left - 1
<1>1. q[i] \in Message /\ Aged(q)[i].left = Max({0, q[i].left - 1})
  BY Older
<1>2. q[i].left \in 1..Delay /\ q[i].left - 1 >= 0 /\ q[i].left - 1 \in Int /\ 0 \in Int
  BY <1>1, BoundAssumption DEF Message
<1>3. Max({0, q[i].left - 1}) \in {0, q[i].left - 1} /\ Max({0, q[i].left - 1}) >= q[i].left - 1
  BY <1>2, Extremes
<1> DEFINE m == Max({0, q[i].left - 1})
<1>4. m = q[i].left - 1
  <2>1. m \in {0, q[i].left - 1} /\ m >= q[i].left - 1
    BY <1>3
  <2> HIDE DEF m
  <2> QED BY <1>2, <2>1
<1> QED BY <1>1, <1>2, <1>4

\* Time does not pass while the next frame is due.
LEMMA TickWaits ==
  ASSUME IInv, Tick, NEW e \in End
  PROVE  /\ s'[e] = Later(s[e]) /\ chan'[e] = Aged(chan[e]) /\ UNCHANGED cfg /\ UNCHANGED carrier
         /\ s[e].st # "new"
         /\ s[e].st # "closed" /\ chan[Peer(e)] # <<>> => Head(chan[Peer(e)]).left # 0
         /\ s[e].st = "open" => ~(s[e].owed > 0) /\ ~s[e].ackDue
         /\ ~KeepAliveDue(e) /\ ~IdleDue(e)
  BY DEF Tick, Busy, Aged, Got

LEMMA DueLater ==
  ASSUME NEW live, NEW acks, NEW x \in Endpoint, NEW y \in Endpoint, NEW q \in Seq(Message),
         Own(x, q), Due(live, acks, x, y, q), x.st # "new",
         y.st # "closed" /\ q # <<>> => Head(q).left # 0
  PROVE  Due(live, acks, Later(x), Later(y), Aged(q))
<1>1. /\ Later(x).st = x.st /\ Later(x).report = x.report /\ Later(y).st = y.st
      /\ Later(x).timer \in {x.timer, x.timer + 1} /\ x.timer \in Nat
      /\ Later(y).timer \in {y.timer, y.timer + 1} /\ y.timer \in Nat
  BY LaterFields
<1>2. Announced(q) => Announced(Aged(q))
  BY RemainsAged
<1>3. ASSUME live, y.st \in Early PROVE Greeted(Later(x), Later(y), Aged(q))
  <2>1. q # <<>> /\ Head(q).k = "TP" /\ Head(q).left + y.timer <= Delay
    BY <1>3 DEF Due, Greeted
  <2>2. Head(q).left # 0 /\ 1 \in 1..Len(q) /\ Head(q) = q[1]
    BY <1>3, <2>1, Shorter DEF Early
  <2>3. q[1].left \in 1..Delay /\ Aged(q)[1].left = q[1].left - 1 /\ Aged(q)[1].k = "TP"
    BY <2>1, <2>2, Nearer, Older
  <2>4. Aged(q) # <<>> /\ Head(Aged(q)) = Aged(q)[1]
    <3>1. Aged(q) \in Seq(Message) /\ Len(Aged(q)) >= 1
      BY <2>2, Older
    <3> DEFINE r == Aged(q)
    <3> HIDE DEF r
    <3>2. r \in Seq(Message) /\ Len(r) >= 1 => r # <<>> /\ Head(r) = r[1]
      OBVIOUS
    <3> QED BY <3>1, <3>2 DEF r
  <2>5. Head(Aged(q)).left + Later(y).timer <= Delay
    BY <1>1, <2>1, <2>2, <2>3, <2>4, BoundAssumption
  <2> QED BY <2>3, <2>4, <2>5 DEF Greeted
<1>4. ASSUME live, x.st \in Past, y.st \notin Past
      PROVE  x.st = "closing" /\ Parting(Later(x), Aged(q))
  <2>1. x.st = "closing" /\ Parting(x, q)
    BY <1>4 DEF Due
  <2>2. PICK i \in 1..Len(q) : q[i].k = "EOF" /\ q[i].left + x.timer <= Delay
    BY <2>1 DEF Parting
  <2>3. q # <<>> /\ Len(q) \in Nat
    BY <2>2
  <2>4. Head(q).left # 0 /\ 1 \in 1..Len(q) /\ Head(q) = q[1]
    BY <1>4, <2>3, Shorter DEF Past
  <2>5. q[1].left \in 1..Delay /\ q[i].left \in 0..Delay
    BY <2>4, Nearer, Older DEF Message
  <2>6. q[1].left <= q[i].left
    <3>1. CASE i = 1
      BY <2>5, <3>1, BoundAssumption
    <3>2. CASE i # 1
      BY <2>3, <2>4, <3>2 DEF Own, Sorted
    <3> QED BY <3>1, <3>2
  <2>7. q[i].left # 0
    BY <2>5, <2>6, BoundAssumption
  <2>8. Aged(q)[i].left = q[i].left - 1 /\ Aged(q)[i].k = "EOF" /\ i \in 1..Len(Aged(q))
    BY <2>2, <2>7, Nearer, Older
  <2>9. Aged(q)[i].left + Later(x).timer <= Delay
    BY <1>1, <2>2, <2>5, <2>8, BoundAssumption
  <2> QED BY <2>1, <2>8, <2>9 DEF Parting
<1> QED BY <1>1, <1>2, <1>3, <1>4 DEF Due

LEMMA TickReason == ASSUME IInv, Reasons, Tick PROVE Reasons'
<1>1. \A e \in End : /\ s'[e] = Later(s[e]) /\ chan'[e] = Aged(chan[e]) /\ s[e].st # "new"
                     /\ UNCHANGED cfg /\ UNCHANGED carrier
                     /\ s[e].st # "closed" /\ chan[Peer(e)] # <<>> => Head(chan[Peer(e)]).left # 0
  BY TickWaits
<1>2. UNCHANGED cfg /\ UNCHANGED carrier
  BY DEF Tick
<1>3. ASSUME NEW e \in End
      PROVE  /\ Own(s'[e], chan'[e])
             /\ Due(carrier = "up", Acks, s'[e], s'[Peer(e)], chan'[e])
             /\ s'[e].report = s[e].report
  <2>1. /\ s[e] \in Endpoint /\ s[Peer(e)] \in Endpoint /\ chan[e] \in Seq(Message)
        /\ Own(s[e], chan[e]) /\ Due(carrier = "up", Acks, s[e], s[Peer(e)], chan[e])
        /\ Peer(e) \in End /\ Peer(Peer(e)) = e
    BY Pair
  <2>2. s'[e] = Later(s[e]) /\ s'[Peer(e)] = Later(s[Peer(e)]) /\ chan'[e] = Aged(chan[e])
    BY <1>1, <2>1
  <2>3. Later(s[e]).st = s[e].st /\ Later(s[e]).report = s[e].report
    BY <2>1, LaterFields
  <2>4. Own(Later(s[e]), Aged(chan[e]))
    BY <1>1, <2>1, <2>3, OwnStays, RemainsAged
  <2>5. s[Peer(e)].st # "closed" /\ chan[e] # <<>> => Head(chan[e]).left # 0
    BY <1>1, <2>1
  <2> DEFINE live == carrier = "up"
  <2>6. Due(live, Acks, s[e], s[Peer(e)], chan[e])
    BY <2>1
  <2> HIDE DEF live
  <2>7. Due(live, Acks, Later(s[e]), Later(s[Peer(e)]), Aged(chan[e]))
    BY <1>1, <2>1, <2>5, <2>6, DueLater
  <2> QED BY <2>2, <2>3, <2>4, <2>7 DEF live
<1>4. Gone' /\ TrueReason'
  BY <1>2, <1>3, SameReports DEF Reasons
<1>5. Acks' = Acks
  BY <1>2 DEF Acks
<1> QED BY <1>2, <1>3, <1>4, <1>5 DEF Reasons

LEMMA InitReasons == Init => Reasons
<1> SUFFICES ASSUME Init PROVE Reasons
  OBVIOUS
<1>1. /\ s = [e \in End |-> New] /\ chan = [e \in End |-> <<>>] /\ carrier = "up"
  BY DEF Init
<1>2. New.st = "new" /\ New.report = None /\ New.timer = 0
  BY DEF New
<1>3. Own(New, <<>>)
  BY <1>2 DEF Own, Past, Sorted
<1>4. \A l, a : Due(l, a, New, New, <<>>)
  BY <1>2, RemainsEmpty DEF Due, Greeted, Past
<1>5. Gone /\ TrueReason
  <2>1. None[1] # "PIPES_LOST" /\ None[2] # "remote"
    BY DEF None
  <2> QED BY <1>1, <1>2, <2>1, Ends2 DEF Gone, TrueReason
<1> QED BY <1>1, <1>3, <1>4, <1>5, Ends2 DEF Reasons

LEMMA NextReasons == IInv /\ Reasons /\ [Next]_vars => Reasons'
<1> SUFFICES ASSUME IInv, Reasons, [Next]_vars PROVE Reasons'
  OBVIOUS
<1>1. CASE UNCHANGED vars \/ Ended
  BY <1>1, StutterReason DEF Ended
<1>2. ASSUME NEW e \in End, Read(e) PROVE Reasons'
  BY <1>2, RecvParametersReason, RecvFenceReason, RecvEarlyReason, RecvDataReason, RecvAckReason,
     RecvPingReason, RecvPongReason, RecvCloseReason, RecvEofReason, IgnoreReason DEF Read
<1>3. ASSUME NEW e \in End, Timer(e) PROVE Reasons'
  BY <1>3, HandshakeTimesOutReason, IdleTimeoutReason, LingerEndsReason DEF Timer
<1>4. ASSUME NEW e \in End,
             \/ Start(e) \/ Respond(e) \/ SendAck(e) \/ KeepAlive(e) \/ CarrierError(e)
             \/ SendData(e) \/ Ping(e) \/ GiveUp(e) \/ AppClose(e)
      PROVE  Reasons'
  BY <1>4, StartReason, RespondReason, SendAckReason, KeepAliveReason, CarrierErrorReason,
     SendDataReason, PingReason, GiveUpReason, AppCloseReason
<1>5. CASE Stall \/ Cut \/ Tick
  BY <1>5, StallCutReason, TickReason
<1> QED BY <1>1, <1>2, <1>3, <1>4, <1>5 DEF Next

\* An end that has ended is announced, in time, to a peer that has not.
THEOREM ReasonsArrive == Spec => []Reasons
<1>1. Init => Reasons
  BY InitReasons
<1>2. IInv /\ Reasons /\ [Next]_vars => Reasons'
  BY NextReasons
<1> QED BY <1>1, <1>2, Inductive, PTL DEF Spec

\* What an end reports of its peer the peer has reported of itself, and lost pipes are
\* reported only of a carrier that was cut.
THEOREM ReasonsAreTrue == Spec => []TrueReason
<1>1. Reasons => TrueReason
  BY DEF Reasons
<1> QED BY <1>1, ReasonsArrive, PTL

-----------------------------------------------------------------------------
(* Keep-alives.  As long as the carrier is up, what an end hears comes in      *)
(* time: no end is silent for longer than the period of a keeper and a round   *)
(* trip.  An end that sent no keep-alive since its last activity has been      *)
(* silent for no longer than the period; the QX_PING of one that did is under  *)
(* way, owed, or answered; and its peer either has the next frame before it,   *)
(* or owes one itself, or was heard after the keeper's last activity.          *)

\* What an end writes only when it has just heard, or is heard of at once.
Prompt(acks) == IF acks THEN {"PONG", "ACK"} ELSE {"PONG", "ACK", "DATA"}
News == {"PING", "PONG", "ACK", "DATA", "EOF"}

\* A frame of those kinds arrives in queue q before a timer, now at t, is beyond b.
Coming(q, kinds, t, b) == \E i \in 1..Len(q) : q[i].k \in kinds /\ q[i].left + t <= b

\* An end in state x answers at once, and restarts its timer as it does.
Swift(acks, x, q) ==
  /\ x.st # "open" => ~x.kept /\ ~x.waits /\ x.owed = 0
  /\ x.st = "open" =>
       /\ x.ackDue \/ x.owed > 0 => x.timer = 0
       /\ \A i \in 1..Len(q) : q[i].k \in Prompt(acks) => q[i].left + x.timer <= Delay

\* Its request is under way, owed by its peer, in state y, or answered in queue r.
Answerable(x, q, y, r) ==
  x.st = "open" /\ x.waits /\ y.st \notin Past =>
    ~Without(q, "PING") \/ y.owed > 0 \/ ~Without(r, "PONG")

\* A keeper of period P hears of its keep-alive in time.
Kept(P, x, q, y, r) ==
  x.st = "open" =>
    IF x.kept
    THEN \/ y.st \notin Past /\ Coming(q, {"PING"}, x.timer + Delay, P + 2 * Delay)
         \/ y.owed > 0 /\ x.timer + Delay <= P + 2 * Delay
         \/ Coming(r, {"PONG", "EOF"}, x.timer, P + 2 * Delay)
    ELSE x.timer <= P

\* Its peer, in state y, hears of it in time.
Fed(P, x, q, y, r) ==
  y.st = "open" =>
    \/ Coming(q, News, y.timer, P + 2 * Delay)
    \/ x.st = "open" /\ ~x.kept /\ y.timer <= x.timer + Delay
    \/ x.st = "open" /\ x.kept /\ (y.owed > 0 \/ ~Without(r, "PONG"))
    \/ x.st = "open" /\ (x.ackDue \/ x.owed > 0) /\ y.timer <= P + Delay
    \/ x.st = "start" /\ y.timer <= x.timer

Keeper(e) == cfg[e].keepAlive > 0

Lives ==
  /\ \A e \in End : /\ Swift(Acks, s[e], chan[e])
                    /\ Answerable(s[e], chan[e], s[Peer(e)], chan[Peer(e)])
  /\ \A e \in End : Keeper(e) => /\ Kept(Period(e), s[e], chan[e], s[Peer(e)], chan[Peer(e)])
                                 /\ Fed(Period(e), s[e], chan[e], s[Peer(e)], chan[Peer(e)])

Lasting ==
  /\ carrier = "up" => Lives
  /\ \A e \in End : s[e].report[1] # "ZMUX_IDLE_TIMEOUT"
  /\ KeptAlive

-----------------------------------------------------------------------------
(* Queues.                                                                 *)

\* One frame, written last.
Only(f, k) == f \in Seq(Message) /\ Len(f) = 1 /\ f[1].k = k /\ f[1].left = Delay

LEMMA ComingJoined ==
  ASSUME NEW q \in Seq(Message), NEW f \in Seq(Message)
  PROVE  /\ \A kinds, t, b : Coming(q, kinds, t, b) => Coming(q \o f, kinds, t, b)
         /\ \A k : ~Without(q, k) => ~Without(q \o f, k)
         /\ \A kinds, t, b : Latest(f) /\ Delay + t <= b /\ (\E i \in 1..Len(f) : f[i].k \in kinds)
                               => Coming(q \o f, kinds, t, b)
         /\ \A k : (\E i \in 1..Len(f) : f[i].k = k) => ~Without(q \o f, k)
<1>1. /\ \A i \in 1..Len(q) : i \in 1..Len(q \o f) /\ (q \o f)[i] = q[i]
      /\ \A i \in 1..Len(f) : Len(q) + i \in 1..Len(q \o f) /\ (q \o f)[Len(q) + i] = f[i]
  BY Joined
<1>2. /\ \A kinds, t, b : Coming(q, kinds, t, b) => Coming(q \o f, kinds, t, b)
      /\ \A k : ~Without(q, k) => ~Without(q \o f, k)
  BY <1>1 DEF Coming, Without
<1>3. ASSUME NEW kinds, NEW t, NEW b, Latest(f), Delay + t <= b, \E i \in 1..Len(f) : f[i].k \in kinds
      PROVE  Coming(q \o f, kinds, t, b)
  <2>1. PICK i \in 1..Len(f) : f[i].k \in kinds
    BY <1>3
  <2>2. f[i].left = Delay
    BY <1>3 DEF Latest
  <2> QED BY <1>1, <1>3, <2>1, <2>2 DEF Coming
<1>4. \A k : (\E i \in 1..Len(f) : f[i].k = k) => ~Without(q \o f, k)
  BY <1>1 DEF Without
<1> QED BY <1>2, <1>3, <1>4

LEMMA ComingTail ==
  ASSUME NEW q \in Seq(Message), q # <<>>
  PROVE  /\ \A kinds, t, b : Head(q).k \notin kinds /\ Coming(q, kinds, t, b) => Coming(Tail(q), kinds, t, b)
         /\ \A k : Head(q).k # k /\ ~Without(q, k) => ~Without(Tail(q), k)
         /\ \A i \in 1..Len(Tail(q)) : i + 1 \in 1..Len(q) /\ Tail(q)[i] = q[i + 1]
<1>1. /\ \A i \in 1..Len(Tail(q)) : i + 1 \in 1..Len(q) /\ Tail(q)[i] = q[i + 1]
      /\ \A i \in 1..Len(q) : i = 1 \/ (i - 1 \in 1..Len(Tail(q)) /\ Tail(q)[i - 1] = q[i])
      /\ Head(q) = q[1]
  BY Shorter
<1>2. \A k : Head(q).k # k /\ ~Without(q, k) => ~Without(Tail(q), k)
  BY <1>1 DEF Without
<1>3. ASSUME NEW kinds, NEW t, NEW b, Head(q).k \notin kinds, Coming(q, kinds, t, b)
      PROVE  Coming(Tail(q), kinds, t, b)
  <2>1. PICK i \in 1..Len(q) : q[i].k \in kinds /\ q[i].left + t <= b
    BY <1>3 DEF Coming
  <2>2. i # 1
    BY <1>1, <1>3, <2>1
  <2>3. i - 1 \in 1..Len(Tail(q)) /\ Tail(q)[i - 1] = q[i]
    BY <1>1, <2>2
  <2> QED BY <2>1, <2>3 DEF Coming
<1> QED BY <1>1, <1>2, <1>3

\* What comes in time leaves time, and comes in time for an earlier timer and for more.
LEMMA ComingSooner ==
  ASSUME NEW q \in Seq(Message), NEW kinds, NEW more, kinds \subseteq more,
         NEW t \in Nat, NEW u \in Nat, u <= t, NEW b \in Nat, Coming(q, kinds, t, b)
  PROVE  Coming(q, more, u, b) /\ t <= b
<1>1. PICK i \in 1..Len(q) : q[i].k \in kinds /\ q[i].left + t <= b
  BY DEF Coming
<1>2. q[i] \in Message /\ q[i].left \in Nat
  <2>1. q[i] \in Message
    BY Older
  <2> QED BY <2>1, BoundAssumption DEF Message
<1>3. q[i].left + u <= b /\ t <= b
  BY <1>1, <1>2
<1> QED BY <1>1, <1>3 DEF Coming

LEMMA ComingLater ==
  ASSUME NEW q \in Seq(Message), \A i \in 1..Len(q) : q[i].left # 0
  PROVE  /\ \A kinds : \A t \in Nat, b \in Nat : \A u \in {t, t + 1} :
              Coming(q, kinds, t, b) => Coming(Aged(q), kinds, u, b)
         /\ \A k : ~Without(q, k) => ~Without(Aged(q), k)
<1>1. ASSUME NEW kinds, NEW t \in Nat, NEW b \in Nat, NEW u \in {t, t + 1}, Coming(q, kinds, t, b)
      PROVE  Coming(Aged(q), kinds, u, b)
  <2>1. PICK i \in 1..Len(q) : q[i].k \in kinds /\ q[i].left + t <= b
    BY <1>1 DEF Coming
  <2>2. q[i].left \in 1..Delay /\ Aged(q)[i].left = q[i].left - 1
    BY Nearer
  <2>3. i \in 1..Len(Aged(q)) /\ Aged(q)[i].k \in kinds
    BY <2>1, Older
  <2>4. Aged(q)[i].left + u <= b
    BY <2>1, <2>2, BoundAssumption
  <2> QED BY <2>3, <2>4 DEF Coming
<1>2. \A k : ~Without(q, k) => ~Without(Aged(q), k)
  BY Older DEF Without
<1> QED BY <1>1, <1>2

-----------------------------------------------------------------------------
(* A keeper in state x writes queue q, its peer in state y queue r.          *)

LEMMA PromptAnswer ==
  ASSUME NEW acks, NEW x \in Endpoint, NEW q \in Seq(Message), Swift(acks, x, q), x.st = "open",
         x.owed > 0 \/ x.ackDue \/ ~Without(q, "PONG")
  PROVE  x.timer <= Delay
<1>1. CASE x.owed > 0 \/ x.ackDue
  BY <1>1, BoundAssumption DEF Swift
<1>2. CASE ~Without(q, "PONG")
  <2>1. PICK i \in 1..Len(q) : q[i].k = "PONG"
    BY <1>2 DEF Without
  <2>2. q[i].left + x.timer <= Delay
    BY <2>1 DEF Swift, Prompt
  <2>3. q[i].left \in Nat /\ x.timer \in Nat
    <3>1. q[i] \in Message
      BY Older
    <3> QED BY <3>1, Fields, BoundAssumption DEF Message
  <2> QED BY <2>2, <2>3, BoundAssumption
<1> QED BY <1>1, <1>2

\* An end that does not see the next frame come has been silent for no longer than that.
LEMMA SilentFor ==
  ASSUME NEW P \in Nat, NEW acks, NEW x \in Endpoint, NEW y \in Endpoint,
         NEW q \in Seq(Message), NEW r \in Seq(Message),
         Kept(P, x, q, y, r), Fed(P, x, q, y, r), Swift(acks, y, r), y.st = "open",
         x.st = "start" => x.timer <= Delay
  PROVE  /\ Coming(q, News, y.timer, P + 2 * Delay) \/ y.timer <= P + Delay
         /\ y.timer <= P + 2 * Delay
         /\ x.st \notin {"start", "open"} => Coming(q, News, y.timer, P + 2 * Delay)
<1>1. x.timer \in Nat /\ y.timer \in Nat /\ Delay \in Nat /\ P + 2 * Delay \in Nat
  BY Fields, BoundAssumption
<1>2. Coming(q, News, y.timer, P + 2 * Delay) => y.timer <= P + 2 * Delay
  BY <1>1, ComingSooner
<1>3. CASE Coming(q, News, y.timer, P + 2 * Delay)
  BY <1>2, <1>3
<1>4. CASE x.st = "open" /\ ~x.kept /\ y.timer <= x.timer + Delay
  BY <1>1, <1>4 DEF Kept
<1>5. CASE x.st = "open" /\ x.kept /\ (y.owed > 0 \/ ~Without(r, "PONG"))
  <2>1. y.timer <= Delay
    BY <1>5, PromptAnswer
  <2> QED BY <1>1, <1>5, <2>1
<1>6. CASE x.st = "open" /\ (x.ackDue \/ x.owed > 0) /\ y.timer <= P + Delay
  BY <1>1, <1>6
<1>7. CASE x.st = "start" /\ y.timer <= x.timer
  BY <1>1, <1>7
<1> QED BY <1>3, <1>4, <1>5, <1>6, <1>7 DEF Fed

-----------------------------------------------------------------------------
(* An end goes from state x to z and writes one frame of kind k.           *)

Writes(acks, x, z, k) ==
  /\ x.st = "open" /\ z.st = "open" /\ k \in News \ {"EOF"}
  /\ z.timer \in {x.timer, 0} /\ (k \in Prompt(acks) => z.timer = 0)
  /\ z.kept => (x.kept \/ k = "PING") /\ z.timer = x.timer
  /\ ~z.kept => ~x.kept \/ z.timer = 0
  /\ z.owed = x.owed \/ (z.owed = 0 /\ k = "PONG")
  /\ z.ackDue => x.ackDue
  /\ x.ackDue => z.ackDue \/ k = "ACK"
  /\ z.waits => x.waits \/ k = "PING"

LEMMA KeeperWrites ==
  ASSUME NEW P \in Nat, NEW acks, NEW x \in Endpoint, NEW y \in Endpoint, NEW z,
         NEW q \in Seq(Message), NEW r \in Seq(Message), NEW f, NEW k, Only(f, k),
         Kept(P, x, q, y, r), Fed(P, x, q, y, r), Swift(acks, y, r), Writes(acks, x, z, k),
         y.st \in Past => Parting(y, r)
  PROVE  Kept(P, z, q \o f, y, r) /\ Fed(P, z, q \o f, y, r)
<1> DEFINE b == P + 2 * Delay
           u == q \o f
<1>1. /\ x.timer \in Nat /\ y.timer \in Nat /\ z.timer \in Nat /\ Delay \in Nat /\ b \in Nat
      /\ b = P + 2 * Delay
  BY Fields, BoundAssumption DEF Writes
<1>2. /\ \A kinds, t : Coming(q, kinds, t, b) => Coming(u, kinds, t, b)
      /\ \A kinds, t : Delay + t <= b /\ k \in kinds => Coming(u, kinds, t, b)
  <2>1. f \in Seq(Message) /\ Latest(f) /\ 1 \in 1..Len(f) /\ f[1].k = k
    BY DEF Only, Latest
  <2> QED BY <2>1, ComingJoined
<1> HIDE DEF u
<1>3. Fed(P, z, u, y, r)
  <2>1. ASSUME y.st = "open" PROVE Coming(u, News, y.timer, b)
    <3>1. Coming(q, News, y.timer, b) \/ y.timer <= P + Delay
      <4>1. x.st # "start"
        BY DEF Writes
      <4> QED BY <2>1, <4>1, SilentFor
    <3>2. k \in News
      BY DEF Writes
    <3> QED BY <1>1, <1>2, <3>1, <3>2
  <2> QED BY <2>1 DEF Fed
<1>4. Kept(P, z, u, y, r)
  <2>1. CASE ~z.kept
    <3>1. z.timer = 0 \/ (~x.kept /\ z.timer = x.timer)
      BY <2>1 DEF Writes
    <3>2. z.timer <= P
      BY <1>1, <3>1 DEF Kept, Writes
    <3> QED BY <2>1, <3>2 DEF Kept
  <2>2. CASE z.kept /\ x.kept
    <3>1. z.timer = x.timer /\ x.st = "open"
      BY <2>2 DEF Writes
    <3> QED BY <1>1, <1>2, <2>2, <3>1 DEF Kept
  <2>3. CASE z.kept /\ ~x.kept
    <3>1. z.timer = x.timer /\ k = "PING" /\ x.timer <= P
      BY <2>3 DEF Kept, Writes
    <3>2. CASE y.st \notin Past
      <4>1. Coming(u, {"PING"}, z.timer + Delay, b)
        BY <1>1, <1>2, <3>1
      <4> QED BY <2>3, <3>2, <4>1 DEF Kept
    <3>3. CASE y.st \in Past
      <4>1. PICK i \in 1..Len(r) : r[i].k = "EOF" /\ r[i].left + y.timer <= Delay
        BY <3>3 DEF Parting
      <4>2. r[i].left \in Nat
        <5>1. r[i] \in Message
          BY Older
        <5> QED BY <5>1, BoundAssumption DEF Message
      <4>3. r[i].left + z.timer <= b
        BY <1>1, <3>1, <4>1, <4>2
      <4>4. Coming(r, {"PONG", "EOF"}, z.timer, b)
        BY <4>1, <4>3 DEF Coming
      <4> QED BY <2>3, <4>4 DEF Kept
    <3> QED BY <3>2, <3>3
  <2> QED BY <2>1, <2>2, <2>3
<1> QED BY <1>3, <1>4 DEF u

LEMMA PeerWrites ==
  ASSUME NEW P \in Nat, NEW acks, NEW x \in Endpoint, NEW y \in Endpoint, NEW z,
         NEW q \in Seq(Message), NEW r \in Seq(Message), NEW f, NEW k, Only(f, k),
         Kept(P, y, r, x, q), Fed(P, y, r, x, q), Swift(acks, x, q), Writes(acks, x, z, k)
  PROVE  Kept(P, y, r, z, q \o f) /\ Fed(P, y, r, z, q \o f)
<1> DEFINE b == P + 2 * Delay
           u == q \o f
<1>1. /\ x.timer \in Nat /\ y.timer \in Nat /\ z.timer \in Nat /\ Delay \in Nat /\ b \in Nat
      /\ b = P + 2 * Delay /\ z.timer <= x.timer /\ x.st = "open" /\ z.st = "open"
  BY Fields, BoundAssumption DEF Writes
<1>2. /\ \A kinds, t : Coming(q, kinds, t, b) => Coming(u, kinds, t, b)
      /\ \A kinds, t : Delay + t <= b /\ k \in kinds => Coming(u, kinds, t, b)
      /\ ~Without(q, "PONG") \/ k = "PONG" => ~Without(u, "PONG")
  <2>1. f \in Seq(Message) /\ Latest(f) /\ 1 \in 1..Len(f) /\ f[1].k = k
    BY DEF Only, Latest
  <2> QED BY <2>1, ComingJoined
<1> HIDE DEF u
<1>3. x.owed > 0 => z.owed > 0 \/ k = "PONG"
  BY DEF Writes
<1>4. Kept(P, y, r, z, u)
  <2>1. z.st \notin Past
    BY <1>1 DEF Past
  <2> QED BY <1>1, <1>2, <1>3, <2>1 DEF Kept
<1>5. Coming(r, News, x.timer, b) => Coming(r, News, z.timer, b)
  BY <1>1, ComingSooner
<1>6. Fed(P, y, r, z, u)
  BY <1>1, <1>2, <1>3, <1>5 DEF Fed
<1> QED BY <1>4, <1>6 DEF u

LEMMA SwiftWrites ==
  ASSUME NEW acks, NEW x \in Endpoint, NEW y \in Endpoint, NEW z,
         NEW q \in Seq(Message), NEW r \in Seq(Message), NEW f, NEW k, Only(f, k),
         Swift(acks, x, q), Answerable(x, q, y, r), Answerable(y, r, x, q), Writes(acks, x, z, k)
  PROVE  Swift(acks, z, q \o f) /\ Answerable(z, q \o f, y, r) /\ Answerable(y, r, z, q \o f)
<1>1. f \in Seq(Message) /\ Latest(f) /\ 1 \in 1..Len(f) /\ f[1].k = k /\ \A i \in 1..Len(f) : i = 1
  BY DEF Only, Latest
<1>2. /\ \A l : ~Without(q, l) => ~Without(q \o f, l)
      /\ ~Without(q \o f, k)
  BY <1>1, ComingJoined
<1>3. /\ x.timer \in Nat /\ z.timer \in Nat /\ Delay \in Nat /\ z.timer <= x.timer
      /\ x.st = "open" /\ z.st = "open"
  BY Fields, BoundAssumption DEF Writes
<1>4. z.ackDue \/ z.owed > 0 => z.timer = 0
  BY <1>3 DEF Writes, Swift
<1>5. ASSUME NEW i \in 1..Len(q \o f), (q \o f)[i].k \in Prompt(acks)
      PROVE  (q \o f)[i].left + z.timer <= Delay
  <2>1. CASE i \in 1..Len(q) /\ (q \o f)[i] = q[i]
    <3>1. q[i].left + x.timer <= Delay
      BY <1>3, <1>5, <2>1 DEF Swift
    <3>2. q[i].left \in Nat
      <4>1. q[i] \in Message
        BY <2>1, Older
      <4> QED BY <4>1, BoundAssumption DEF Message
    <3> QED BY <1>3, <2>1, <3>1, <3>2
  <2>2. CASE i - Len(q) \in 1..Len(f) /\ (q \o f)[i] = f[i - Len(q)]
    <3>1. (q \o f)[i].k = k /\ (q \o f)[i].left = Delay
      BY <1>1, <2>2 DEF Only
    <3> QED BY <1>3, <1>5, <3>1 DEF Writes
  <2> QED BY <1>1, <2>1, <2>2, Joined
<1>6. Swift(acks, z, q \o f)
  BY <1>3, <1>4, <1>5 DEF Swift
<1>7. Answerable(z, q \o f, y, r)
  BY <1>2, <1>3 DEF Answerable, Writes
<1>8. Answerable(y, r, z, q \o f)
  <2>1. x.owed > 0 => z.owed > 0 \/ k = "PONG"
    BY DEF Writes
  <2>2. x.st \notin Past
    BY <1>3 DEF Past
  <2> QED BY <1>2, <2>1, <2>2 DEF Answerable
<1> QED BY <1>6, <1>7, <1>8

-----------------------------------------------------------------------------
(* An end goes from state x to z as it reads the first frame of its peer's    *)
(* queue, a frame of kind k.                                                  *)
Hears(x, z, y, k) ==
  /\ x.st \in {"start", "open"} /\ z.st = "open" /\ k \notin Final
  /\ z.timer = 0 /\ ~z.kept
  /\ z.owed = x.owed \/ z.owed > 0
  /\ k = "PING" => z.owed > 0
  /\ z.waits => x.waits /\ k # "PONG"
  /\ x.st = "open" /\ y.st = "open" => y.timer <= Delay \/ z.ackDue \/ z.owed > 0

LEMMA KeeperHears ==
  ASSUME NEW P \in Nat, NEW acks, NEW x \in Endpoint, NEW y \in Endpoint, NEW z,
         NEW q \in Seq(Message), NEW r \in Seq(Message), r # <<>>, NEW k,
         Kept(P, x, q, y, r), Fed(P, x, q, y, r), Swift(acks, y, r), Hears(x, z, y, k),
         x.st = "start" => x.timer <= Delay
  PROVE  Kept(P, z, q, y, Tail(r)) /\ Fed(P, z, q, y, Tail(r))
<1>1. /\ x.timer \in Nat /\ y.timer \in Nat /\ Delay \in Nat
  BY Fields, BoundAssumption
<1>2. z.st = "open" /\ z.timer = 0 /\ ~z.kept
  BY DEF Hears
<1>3. Kept(P, z, q, y, Tail(r))
  BY <1>2 DEF Kept
<1>4. ASSUME y.st = "open", ~Coming(q, News, y.timer, P + 2 * Delay)
      PROVE  y.timer <= Delay \/ ((z.ackDue \/ z.owed > 0) /\ y.timer <= P + Delay)
  <2>1. CASE x.st = "start"
    <3>1. y.timer <= x.timer
      BY <1>4, <2>1 DEF Fed
    <3> QED BY <1>1, <2>1, <3>1
  <2>2. CASE x.st = "open"
    <3>1. y.timer <= P + Delay
      BY <1>4, <2>2, SilentFor
    <3> QED BY <1>4, <2>2, <3>1 DEF Hears
  <2> QED BY <2>1, <2>2 DEF Hears
<1>5. Fed(P, z, q, y, Tail(r))
  BY <1>1, <1>2, <1>4 DEF Fed
<1> QED BY <1>3, <1>5

LEMMA PeerHears ==
  ASSUME NEW P \in Nat, NEW x \in Endpoint, NEW y \in Endpoint, NEW z,
         NEW q \in Seq(Message), NEW r \in Seq(Message), r # <<>>, NEW k, k = Head(r).k,
         Own(x, q), Kept(P, y, r, x, q), Hears(x, z, y, k),
         y.st # "new", y.st \in Past => Parting(y, r)
  PROVE  Kept(P, y, Tail(r), z, q) /\ Fed(P, y, Tail(r), z, q)
<1> DEFINE b == P + 2 * Delay
           v == Tail(r)
<1>1. /\ y.timer \in Nat /\ Delay \in Nat /\ b \in Nat /\ b = P + 2 * Delay
      /\ z.st = "open" /\ z.timer = 0 /\ z.st \notin Past
  BY Fields, BoundAssumption DEF Hears, Past
<1>2. \A kinds, t : k \notin kinds /\ Coming(r, kinds, t, b) => Coming(v, kinds, t, b)
  BY ComingTail
<1>3. v \in Seq(Message)
  BY Shorter
<1> HIDE DEF v
<1>4. ASSUME NEW kinds, kinds \subseteq News, NEW t \in Nat, Coming(v, kinds, t, b)
      PROVE  Coming(v, News, 0, b)
  <2>1. 0 \in Nat /\ 0 <= t
    OBVIOUS
  <2> HIDE DEF b
  <2> QED BY ONLY <1>1, <1>3, <1>4, <2>1, ComingSooner
<1>5. x.owed > 0 => z.owed > 0
  BY DEF Hears
<1>6. ASSUME Coming(r, {"PING"}, y.timer + Delay, b)
      PROVE  Coming(v, {"PING"}, y.timer + Delay, b) \/ (z.owed > 0 /\ y.timer + Delay <= b)
  <2>1. y.timer + Delay <= b
    <3>1. y.timer + Delay \in Nat
      BY <1>1
    <3> QED BY <1>1, <1>6, <3>1, ComingSooner
  <2>2. k = "PING" => z.owed > 0
    BY DEF Hears
  <2> QED BY <1>2, <1>6, <2>1, <2>2
<1>7. Kept(P, y, v, z, q)
  <2>1. x.st \notin Past
    BY DEF Hears, Past
  <2> QED BY <1>1, <1>5, <1>6 DEF Kept
<1>8. Fed(P, y, v, z, q)
  <2>1. CASE y.st = "start" \/ (y.st = "open" /\ ~y.kept)
    BY <1>1, <2>1 DEF Fed
  <2>2. CASE y.st = "open" /\ y.kept
    <3>1. CASE z.owed > 0
      BY <2>2, <3>1 DEF Fed
    <3>2. CASE Coming(v, {"PING"}, y.timer + Delay, b)
      <4>1. y.timer + Delay \in Nat /\ {"PING"} \subseteq News
        BY <1>1 DEF News
      <4>2. Coming(v, News, 0, b)
        BY <1>4, <3>2, <4>1
      <4> QED BY <1>1, <4>2 DEF Fed
    <3>3. CASE Coming(q, {"PONG", "EOF"}, y.timer, b)
      <4>1. PICK i \in 1..Len(q) : q[i].k \in {"PONG", "EOF"}
        BY <3>3 DEF Coming
      <4>2. q[i].k # "EOF"
        <5>1. x.st \notin Past
          BY DEF Hears, Past
        <5> QED BY <5>1, OwnOpen DEF Final
      <4>3. ~Without(q, "PONG")
        BY <4>1, <4>2 DEF Without
      <4> QED BY <2>2, <4>3 DEF Fed
    <3> QED BY <1>7, <2>2, <3>1, <3>2, <3>3 DEF Kept
  <2>3. CASE y.st \in Past
    <3>1. PICK i \in 1..Len(r) : r[i].k = "EOF" /\ r[i].left + y.timer <= Delay
      BY <2>3 DEF Parting
    <3>2. r[i].left \in Nat
      <4>1. r[i] \in Message
        BY Older
      <4> QED BY <4>1, BoundAssumption DEF Message
    <3>3. Coming(r, {"EOF"}, 0, b)
      <4>1. r[i].left + 0 <= b
        BY <1>1, <3>1, <3>2
      <4> QED BY <3>1, <4>1 DEF Coming
    <3>4. Coming(v, {"EOF"}, 0, b)
      BY <1>2, <3>3 DEF Hears, Final
    <3>5. {"EOF"} \subseteq News /\ 0 \in Nat
      BY DEF News
    <3>6. Coming(v, News, 0, b)
      BY <1>4, <3>4, <3>5
    <3> QED BY <1>1, <3>6 DEF Fed
  <2> QED BY <2>1, <2>2, <2>3 DEF Endpoint, Past
<1> QED BY <1>7, <1>8 DEF v

LEMMA SwiftTail ==
  ASSUME NEW acks, NEW y, NEW r \in Seq(Message), r # <<>>, Swift(acks, y, r)
  PROVE  Swift(acks, y, Tail(r))
  BY Shorter DEF Swift

LEMMA SwiftHears ==
  ASSUME NEW acks, NEW x \in Endpoint, NEW y \in Endpoint, NEW z,
         NEW q \in Seq(Message), NEW r \in Seq(Message), r # <<>>, NEW k, k = Head(r).k,
         Swift(acks, x, q), Swift(acks, y, r), Answerable(x, q, y, r), Answerable(y, r, x, q),
         Hears(x, z, y, k)
  PROVE  /\ Swift(acks, z, q) /\ Swift(acks, y, Tail(r))
         /\ Answerable(z, q, y, Tail(r)) /\ Answerable(y, Tail(r), z, q)
<1>1. \A l : k # l /\ ~Without(r, l) => ~Without(Tail(r), l)
  BY ComingTail
<1>2. z.st = "open" /\ z.timer = 0 /\ z.st \notin Past /\ x.st \notin Past
  BY DEF Hears, Past
<1>3. Swift(acks, z, q)
  <2>1. \A i \in 1..Len(q) : q[i].left + 0 <= Delay
    <3>1. \A i \in 1..Len(q) : q[i] \in Message
      BY Older
    <3> QED BY <3>1, BoundAssumption DEF Message
  <2> QED BY <1>2, <2>1 DEF Swift
<1>4. x.st = "start" => ~x.waits
  BY DEF Swift
<1>5. Answerable(z, q, y, Tail(r))
  BY <1>1, <1>4 DEF Answerable, Hears
<1>6. Answerable(y, Tail(r), z, q)
  <2>1. (x.owed > 0 => z.owed > 0) /\ (k = "PING" => z.owed > 0)
    BY DEF Hears
  <2> QED BY <1>1, <1>2, <2>1 DEF Answerable
<1> QED BY <1>3, <1>5, <1>6, SwiftTail

-----------------------------------------------------------------------------
(* The end in state x ends, and says so last.                              *)

LEMMA KeeperEnds ==
  ASSUME NEW P \in Nat, NEW acks, NEW x \in Endpoint, NEW y \in Endpoint, NEW z,
         NEW q \in Seq(Message), NEW r \in Seq(Message), NEW f \in Seq(Message),
         Latest(f), \E i \in 1..Len(f) : f[i].k = "EOF",
         Kept(P, x, q, y, r), Fed(P, x, q, y, r), Swift(acks, y, r),
         x.st = "start" => x.timer <= Delay, z.st \in Past, NEW v
  PROVE  Kept(P, z, q \o f, y, v) /\ Fed(P, z, q \o f, y, v)
<1> DEFINE b == P + 2 * Delay
           u == q \o f
<1>1. y.timer \in Nat /\ Delay \in Nat /\ b \in Nat /\ b = P + 2 * Delay /\ z.st # "open"
  BY Fields, BoundAssumption DEF Past
<1>2. /\ Coming(q, News, y.timer, b) => Coming(u, News, y.timer, b)
      /\ Delay + y.timer <= b => Coming(u, News, y.timer, b)
  BY ComingJoined DEF News
<1> HIDE DEF u
<1>3. ASSUME y.st = "open" PROVE Coming(u, News, y.timer, b)
  <2>1. Coming(q, News, y.timer, b) \/ y.timer <= P + Delay
    BY <1>3, SilentFor
  <2> QED BY <1>1, <1>2, <2>1
<1> QED BY <1>1, <1>3 DEF Kept, Fed, u

LEMMA PeerEnds ==
  ASSUME NEW P \in Nat, NEW x \in Endpoint, NEW y \in Endpoint, NEW z,
         NEW q \in Seq(Message), NEW r \in Seq(Message), NEW f \in Seq(Message),
         Latest(f), \E i \in 1..Len(f) : f[i].k = "EOF",
         Kept(P, y, r, x, q), z.st \in Past, NEW v
  PROVE  Kept(P, y, v, z, q \o f) /\ Fed(P, y, v, z, q \o f)
<1> DEFINE b == P + 2 * Delay
           u == q \o f
           last == {"PONG", "EOF"}
<1>1. /\ y.timer \in Nat /\ Delay \in Nat /\ b \in Nat /\ b = P + 2 * Delay /\ z.st # "open"
      /\ y.timer + Delay \in Nat
  BY Fields, BoundAssumption DEF Past
<1>2. /\ Coming(q, last, y.timer, b) => Coming(u, last, y.timer, b)
      /\ Delay + y.timer <= b => Coming(u, last, y.timer, b)
  BY ComingJoined
<1>3. Coming(r, {"PING"}, y.timer + Delay, b) => y.timer + Delay <= b
  BY <1>1, ComingSooner
<1> HIDE DEF u
<1>4. ASSUME y.st = "open", y.kept PROVE Coming(u, last, y.timer, b)
  <2>1. Coming(q, last, y.timer, b) \/ y.timer + Delay <= b
    BY <1>3, <1>4 DEF Kept
  <2> QED BY <1>1, <1>2, <2>1
<1> QED BY <1>1, <1>4 DEF Kept, Fed, u

-----------------------------------------------------------------------------
(* The period of a keeper.                                                 *)

\* The least of a number and at most two others.
LEMMA LeastOfThree ==
  ASSUME NEW k \in Nat, NEW a \in Nat, NEW b \in Nat, NEW S, k \in S, S \subseteq {k, a, b}
  PROVE  Min(S) \in Nat /\ \A t \in S : Min(S) <= t
<1>1. \E m \in S : \A t \in S : m <= t
  <2>1. PICK l \in S : l <= k /\ (a \in S => l <= a)
    <3>1. CASE a \in S /\ a <= k
      BY <3>1
    <3>2. CASE ~(a \in S /\ a <= k)
      BY <3>2
    <3> QED BY <3>1, <3>2
  <2>2. l \in Nat
    OBVIOUS
  <2>3. CASE b \in S /\ b <= l
    BY <2>1, <2>2, <2>3
  <2>4. CASE ~(b \in S /\ b <= l)
    BY <2>1, <2>2, <2>4
  <2> QED BY <2>3, <2>4
<1>2. Min(S) \in S /\ \A t \in S : Min(S) <= t
  BY <1>1 DEF Min
<1> QED BY <1>2

LEMMA Times ==
  ASSUME IInv, NEW e \in End
  PROVE  /\ cfg[e].keepAlive \in Nat /\ cfg[e].idle \in Nat
         /\ cfg[e].idle = 0 \/ cfg[e].idle > 4 * Delay
<1>1. \E c \in Configs : cfg[e] = c[1] \/ cfg[e] = c[2]
  BY DEF IInv, TypeOK
<1> QED BY <1>1, TimeAssumption

LEMMA PeriodShort ==
  ASSUME IInv, NEW e \in End
  PROVE  /\ Period(e) \in Nat
         /\ \A t \in Timeouts : t \in Nat /\ t > Period(e) + 2 * Delay
<1> DEFINE a == cfg["D"].idle
           b == cfg["L"].idle
           k == cfg[e].keepAlive
           h == a \div 2
           i == b \div 2
           S == {k} \union {t \div 2 : t \in Timeouts}
<1>1. /\ k \in Nat /\ a \in Nat /\ b \in Nat
      /\ a = 0 \/ a > 4 * Delay
      /\ b = 0 \/ b > 4 * Delay
  BY Times DEF End
<1>2. Timeouts = {a, b} \ {0} /\ Period(e) = Min(S)
  BY DEF Timeouts, End, Period
<1>3. h \in Nat /\ i \in Nat /\ S \subseteq {k, h, i} /\ k \in S
  BY <1>1, <1>2
<1>4. Min(S) \in Nat /\ \A t \in S : Min(S) <= t
  <2> HIDE DEF S, k, h, i
  <2> QED BY <1>1, <1>3, LeastOfThree
<1>5. \A t \in Timeouts : t \in Nat /\ t > 4 * Delay /\ Min(S) <= t \div 2
  BY <1>1, <1>2, <1>4
<1>6. \A t \in Timeouts : t \in Nat /\ t > Min(S) + 2 * Delay
  <2> HIDE DEF S
  <2> QED BY <1>4, <1>5, BoundAssumption
<1> QED BY <1>2, <1>4, <1>6

-----------------------------------------------------------------------------
(* The two ends of a step of e on a carrier that is up.                    *)

LEMMA Bond ==
  ASSUME IInv, Reasons, Lasting, carrier = "up", NEW e \in End
  PROVE  LET x == s[e]
             q == chan[e]
             y == s[Peer(e)]
             r == chan[Peer(e)]
             P == Period(e)
         IN  /\ x \in Endpoint /\ q \in Seq(Message) /\ Own(x, q)
             /\ Swift(Acks, x, q) /\ Answerable(x, q, y, r)
             /\ P \in Nat /\ (Keeper(e) => Kept(P, x, q, y, r) /\ Fed(P, x, q, y, r))
             /\ x.st = "start" => x.timer <= Delay
             /\ y.st \in Past /\ x.st \notin Past => y.st = "closing" /\ Parting(y, r)
<1> DEFINE x == s[e]
           q == chan[e]
           y == s[Peer(e)]
           r == chan[Peer(e)]
<1>1. /\ x \in Endpoint /\ q \in Seq(Message) /\ r \in Seq(Message)
      /\ Own(x, q) /\ Due(carrier = "up", Acks, y, x, r)
  BY Pair
<1>2. ASSUME x.st = "start" PROVE x.timer <= Delay
  <2>1. Greeted(y, x, r)
    BY <1>1, <1>2 DEF Due, Early
  <2>2. CASE y.st = "new" /\ x.timer = 0
    BY <2>2, BoundAssumption
  <2>3. CASE r # <<>> /\ Head(r).k = "TP" /\ Head(r).left + x.timer <= Delay
    <3>1. Head(r) \in Message
      BY <1>1, <2>3, Shorter
    <3>2. Head(r).left \in Nat /\ x.timer \in Nat /\ Delay \in Nat
      BY <1>1, <3>1, Fields, BoundAssumption DEF Message
    <3> HIDE DEF r, x
    <3> QED BY <2>3, <3>2
  <2> QED BY <2>1, <2>2, <2>3 DEF Greeted
<1>3. y.st \in Past /\ x.st \notin Past => y.st = "closing" /\ Parting(y, r)
  BY <1>1 DEF Due
<1>4. Period(e) \in Nat
  BY PeriodShort
<1> QED BY <1>1, <1>2, <1>3, <1>4 DEF Lasting, Lives

LEMMA Lived ==
  ASSUME NEW e \in End, UNCHANGED cfg,
         Swift(Acks, s'[e], chan'[e]), Swift(Acks, s'[Peer(e)], chan'[Peer(e)]),
         Answerable(s'[e], chan'[e], s'[Peer(e)], chan'[Peer(e)]),
         Answerable(s'[Peer(e)], chan'[Peer(e)], s'[e], chan'[e]),
         Keeper(e) => /\ Kept(Period(e), s'[e], chan'[e], s'[Peer(e)], chan'[Peer(e)])
                      /\ Fed(Period(e), s'[e], chan'[e], s'[Peer(e)], chan'[Peer(e)]),
         Keeper(Peer(e)) =>
           /\ Kept(Period(Peer(e)), s'[Peer(e)], chan'[Peer(e)], s'[e], chan'[e])
           /\ Fed(Period(Peer(e)), s'[Peer(e)], chan'[Peer(e)], s'[e], chan'[e])
  PROVE  Lives'
<1>1. Acks' = Acks
  BY DEF Acks
<1>2. \A d \in End : (Keeper(d)' <=> Keeper(d)) /\ Period(d)' = Period(d)
  BY DEF Keeper, Period, Timeouts
<1>3. \A d \in End : d = e \/ (d = Peer(e) /\ Peer(d) = e)
  BY Ends2
<1>4. \A d \in End : /\ Swift(Acks, s'[d], chan'[d])
                     /\ Answerable(s'[d], chan'[d], s'[Peer(d)], chan'[Peer(d)])
  BY <1>3
<1>5. \A d \in End : Keeper(d) =>
        /\ Kept(Period(d), s'[d], chan'[d], s'[Peer(d)], chan'[Peer(d)])
        /\ Fed(Period(d), s'[d], chan'[d], s'[Peer(d)], chan'[Peer(d)])
  BY <1>3
<1> QED BY <1>1, <1>2, <1>4, <1>5 DEF Lives

\* An end may report this, if it ends now.
Reportable(code) ==
  /\ code # "ZMUX_IDLE_TIMEOUT"
  /\ code = "IDLE_TIMEOUT" /\ carrier = "up" => \A e \in End : ~Keeper(e)

LEMMA LastingStays ==
  ASSUME Lasting, UNCHANGED cfg, carrier' = "up" => carrier = "up" /\ Lives',
         \A d \in End : s'[d].report = s[d].report \/ Reportable(s'[d].report[1])
  PROVE  Lasting'
<1>1. \A d \in End : Keeper(d)' <=> Keeper(d)
  BY DEF Keeper
<1>2. ASSUME carrier' = "up", \E d \in End : Keeper(d), NEW d \in End
      PROVE  s'[d].report[1] # "IDLE_TIMEOUT"
  BY <1>2 DEF Lasting, KeptAlive, Reportable, Keeper
<1>3. KeptAlive'
  BY <1>1, <1>2 DEF KeptAlive, Keeper
<1> QED BY <1>3 DEF Lasting, Reportable

\* Steps on which an end goes on.
LEMMA SameLasting ==
  ASSUME Lasting, NEW e \in End, UNCHANGED cfg, UNCHANGED carrier, carrier = "up" => Lives',
         s'[e].report = s[e].report, s'[Peer(e)].report = s[Peer(e)].report
  PROVE  Lasting'
<1>1. \A d \in End : s'[d].report = s[d].report
  BY Ends2
<1> QED BY <1>1, LastingStays

LEMMA WritesLasting ==
  ASSUME IInv, Reasons, Lasting, NEW e \in End, NEW new, NEW f, NEW k, Only(f, k),
         Do(e, new, f), new.report = s[e].report, carrier = "up" => Writes(Acks, s[e], new, k)
  PROVE  Lasting'
<1> DEFINE p == Peer(e)
<1>1. /\ s'[e] = new /\ s'[p] = s[p] /\ UNCHANGED cfg /\ UNCHANGED carrier
      /\ (carrier = "up" => chan'[e] = chan[e] \o f) /\ chan'[p] = chan[p]
  BY DoEffect
<1>2. ASSUME carrier = "up" PROVE Lives'
  <2> DEFINE q == chan[e]
             r == chan[p]
  <2>1. p \in End /\ Peer(p) = e
    BY Ends2
  <2>2. /\ s[e] \in Endpoint /\ s[p] \in Endpoint /\ q \in Seq(Message) /\ r \in Seq(Message)
        /\ Swift(Acks, s[e], q) /\ Swift(Acks, s[p], r)
        /\ Answerable(s[e], q, s[p], r) /\ Answerable(s[p], r, s[e], q)
        /\ Period(e) \in Nat /\ Period(p) \in Nat
        /\ Keeper(e) => Kept(Period(e), s[e], q, s[p], r) /\ Fed(Period(e), s[e], q, s[p], r)
        /\ Keeper(p) => Kept(Period(p), s[p], r, s[e], q) /\ Fed(Period(p), s[p], r, s[e], q)
        /\ s[p].st \in Past /\ s[e].st \notin Past => Parting(s[p], r)
    BY <1>2, <2>1, Bond
  <2>3. Writes(Acks, s[e], new, k) /\ s[e].st \notin Past
    BY <1>2 DEF Writes, Past
  <2> HIDE DEF q, r, p
  <2>4. /\ Swift(Acks, new, q \o f)
        /\ Answerable(new, q \o f, s[p], r) /\ Answerable(s[p], r, new, q \o f)
    BY <2>2, <2>3, SwiftWrites
  <2>5. Keeper(e) => /\ Kept(Period(e), new, q \o f, s[p], r)
                     /\ Fed(Period(e), new, q \o f, s[p], r)
    BY <2>2, <2>3, KeeperWrites
  <2>6. Keeper(p) => /\ Kept(Period(p), s[p], r, new, q \o f)
                     /\ Fed(Period(p), s[p], r, new, q \o f)
    BY <2>2, <2>3, PeerWrites
  <2> USE DEF q, r, p
  <2>7. chan'[e] = q \o f /\ chan'[p] = r
    BY <1>1, <1>2
  <2> QED BY <1>1, <2>2, <2>4, <2>5, <2>6, <2>7, Lived
<1> QED BY <1>1, <1>2, SameLasting

\* Only these fields of an end matter.
Looks(y, w) ==
  /\ w.st = y.st /\ w.timer = y.timer /\ w.owed = y.owed
  /\ (w.kept <=> y.kept) /\ (w.waits <=> y.waits) /\ (w.ackDue <=> y.ackDue)

LEMMA LooksSame ==
  ASSUME NEW y, NEW w, Looks(y, w), NEW x, NEW q, NEW r
  PROVE  /\ \A acks : Swift(acks, y, r) => Swift(acks, w, r)
         /\ Answerable(x, q, y, r) => Answerable(x, q, w, r)
         /\ Answerable(y, r, x, q) => Answerable(w, r, x, q)
         /\ \A P : /\ Kept(P, x, q, y, r) => Kept(P, x, q, w, r)
                   /\ Fed(P, x, q, y, r) => Fed(P, x, q, w, r)
                   /\ Kept(P, y, r, x, q) => Kept(P, w, r, x, q)
                   /\ Fed(P, y, r, x, q) => Fed(P, w, r, x, q)
<1>1. \A acks : Swift(acks, y, r) => Swift(acks, w, r)
  BY DEF Looks, Swift
<1>2. /\ Answerable(x, q, y, r) => Answerable(x, q, w, r)
      /\ Answerable(y, r, x, q) => Answerable(w, r, x, q)
  BY DEF Looks, Answerable
<1>3. ASSUME NEW P
      PROVE  /\ Kept(P, x, q, y, r) => Kept(P, x, q, w, r)
             /\ Kept(P, y, r, x, q) => Kept(P, w, r, x, q)
  BY DEF Looks, Kept
<1>4. ASSUME NEW P
      PROVE  /\ Fed(P, x, q, y, r) => Fed(P, x, q, w, r)
             /\ Fed(P, y, r, x, q) => Fed(P, w, r, x, q)
  BY DEF Looks, Fed
<1> QED BY <1>1, <1>2, <1>3, <1>4

LEMMA HearsLasting ==
  ASSUME IInv, Reasons, Lasting, NEW e \in End, UNCHANGED cfg, UNCHANGED carrier,
         s'[e].report = s[e].report,
         Looks(s[Peer(e)], s'[Peer(e)]), s'[Peer(e)].report = s[Peer(e)].report,
         chan[Peer(e)] # <<>>, chan'[e] = chan[e], chan'[Peer(e)] = Tail(chan[Peer(e)]),
         carrier = "up" => Hears(s[e], s'[e], s[Peer(e)], Got(e).k)
  PROVE  Lasting'
<1> DEFINE p == Peer(e)
           q == chan[e]
           r == chan[p]
           z == s'[e]
           k == Got(e).k
<1>1. ASSUME carrier = "up" PROVE Lives'
  <2>1. p \in End /\ Peer(p) = e
    BY Ends2
  <2>2. /\ s[e] \in Endpoint /\ s[p] \in Endpoint /\ q \in Seq(Message) /\ r \in Seq(Message)
        /\ Own(s[e], q) /\ Own(s[p], r) /\ Swift(Acks, s[e], q) /\ Swift(Acks, s[p], r)
        /\ Answerable(s[e], q, s[p], r) /\ Answerable(s[p], r, s[e], q)
        /\ Period(e) \in Nat /\ Period(p) \in Nat
        /\ Keeper(e) => Kept(Period(e), s[e], q, s[p], r) /\ Fed(Period(e), s[e], q, s[p], r)
        /\ Keeper(p) => Kept(Period(p), s[p], r, s[e], q) /\ Fed(Period(p), s[p], r, s[e], q)
        /\ s[e].st = "start" => s[e].timer <= Delay
        /\ s[p].st \in Past /\ s[e].st \notin Past => Parting(s[p], r)
    BY <1>1, <2>1, Bond
  <2>3. Hears(s[e], z, s[p], k) /\ s[e].st \notin Past /\ r # <<>> /\ k = Head(r).k
    BY <1>1 DEF Hears, Past, Got
  <2>4. s[p].st # "new"
    BY <2>2, <2>3 DEF Own
  <2>5. Looks(s[p], s'[p]) /\ chan'[e] = q /\ chan'[p] = Tail(r)
    OBVIOUS
  <2> HIDE DEF q, r, p, z, k
  <2>6. /\ Swift(Acks, z, q) /\ Swift(Acks, s[p], Tail(r))
        /\ Answerable(z, q, s[p], Tail(r)) /\ Answerable(s[p], Tail(r), z, q)
    BY <2>2, <2>3, SwiftHears
  <2>7. Keeper(e) => /\ Kept(Period(e), z, q, s[p], Tail(r))
                     /\ Fed(Period(e), z, q, s[p], Tail(r))
    BY <2>2, <2>3, KeeperHears
  <2>8. Keeper(p) => /\ Kept(Period(p), s[p], Tail(r), z, q)
                     /\ Fed(Period(p), s[p], Tail(r), z, q)
    BY <2>2, <2>3, <2>4, PeerHears
  <2>9. /\ Swift(Acks, s'[p], Tail(r))
        /\ Answerable(z, q, s'[p], Tail(r)) /\ Answerable(s'[p], Tail(r), z, q)
        /\ Keeper(e) => /\ Kept(Period(e), z, q, s'[p], Tail(r))
                        /\ Fed(Period(e), z, q, s'[p], Tail(r))
        /\ Keeper(p) => /\ Kept(Period(p), s'[p], Tail(r), z, q)
                        /\ Fed(Period(p), s'[p], Tail(r), z, q)
    BY <2>5, <2>6, <2>7, <2>8, LooksSame
  <2> USE DEF q, r, p, z
  <2> QED BY <2>5, <2>6, <2>9, Lived
<1> QED BY <1>1, SameLasting

LEMMA EndsLasting ==
  ASSUME IInv, Reasons, Lasting, NEW e \in End, NEW code, NEW whose, NEW f \in Seq(Message),
         UNCHANGED <<cfg, carrier>>, s[e].st \in {"start", "open"},
         s'[e] = Over(s[e], code, whose), s'[Peer(e)] = s[Peer(e)],
         chan'[e] = IF carrier = "up" THEN chan[e] \o f ELSE chan[e],
         chan'[Peer(e)] = chan[Peer(e)] \/
           (chan[Peer(e)] # <<>> /\ chan'[Peer(e)] = Tail(chan[Peer(e)])),
         Latest(f), \E i \in 1..Len(f) : f[i].k = "EOF", Reportable(code)
  PROVE  Lasting'
<1> DEFINE p == Peer(e)
           q == chan[e]
           r == chan[p]
           z == s'[e]
           v == chan'[p]
<1>1. /\ z.st \in Past /\ z.st # "open" /\ ~z.kept /\ ~z.waits /\ z.owed = 0
      /\ z.report[1] = code
  BY Here, OverFields DEF Past
<1>2. ASSUME carrier = "up" PROVE Lives'
  <2>1. p \in End /\ Peer(p) = e
    BY Ends2
  <2>2. /\ s[e] \in Endpoint /\ s[p] \in Endpoint /\ q \in Seq(Message) /\ r \in Seq(Message)
        /\ Swift(Acks, s[p], r) /\ Period(e) \in Nat /\ Period(p) \in Nat
        /\ Keeper(e) => Kept(Period(e), s[e], q, s[p], r) /\ Fed(Period(e), s[e], q, s[p], r)
        /\ Keeper(p) => Kept(Period(p), s[p], r, s[e], q)
        /\ s[e].st = "start" => s[e].timer <= Delay
    BY <1>2, <2>1, Bond
  <2>3. chan'[e] = q \o f /\ s'[p] = s[p]
    BY <1>2
  <2>4. Swift(Acks, s[p], v)
    BY <2>2, SwiftTail
  <2> HIDE DEF q, r, p, z, v
  <2>5. Swift(Acks, z, q \o f) /\ Answerable(z, q \o f, s[p], v) /\ Answerable(s[p], v, z, q \o f)
    BY <1>1 DEF Swift, Answerable
  <2>6. Keeper(e) => /\ Kept(Period(e), z, q \o f, s[p], v)
                     /\ Fed(Period(e), z, q \o f, s[p], v)
    BY <1>1, <2>2, KeeperEnds
  <2>7. Keeper(p) => /\ Kept(Period(p), s[p], v, z, q \o f)
                     /\ Fed(Period(p), s[p], v, z, q \o f)
    BY <1>1, <2>2, PeerEnds
  <2> USE DEF p, z, v
  <2> QED BY <2>3, <2>4, <2>5, <2>6, <2>7, Lived
<1>3. \A d \in End : s'[d].report = s[d].report \/ Reportable(s'[d].report[1])
  BY <1>1, Ends2
<1> QED BY <1>2, <1>3, LastingStays

-----------------------------------------------------------------------------
(* The open session.                                                       *)

LEMMA OnlyFrame ==
  ASSUME NEW k \in FrameKinds, NEW n \in 0..MaxPings
  PROVE  Only(<<Frame(k, n)>>, k) /\ Only(<<Signal(k)>>, k)
<1>1. ASSUME NEW m \in 0..MaxPings PROVE Only(<<Frame(k, m)>>, k)
  <2>1. Frame(k, m) \in Message /\ Frame(k, m).k = k /\ Frame(k, m).left = Delay
    BY BoundAssumption DEF Frame, Message, Codes
  <2>2. \A f \in Message : <<f>> \in Seq(Message) /\ Len(<<f>>) = 1 /\ <<f>>[1] = f
    OBVIOUS
  <2> QED BY <2>1, <2>2 DEF Only
<1>2. 0 \in 0..MaxPings
  BY BoundAssumption
<1> QED BY <1>1, <1>2 DEF Signal

LEMMA OnlySignal == ASSUME NEW k \in FrameKinds PROVE Only(<<Signal(k)>>, k)
<1>1. 0 \in 0..MaxPings
  BY BoundAssumption
<1> QED BY <1>1, OnlyFrame

\* What a sender knows of itself.
LEMMA SenderSwift ==
  ASSUME IInv, Reasons, Lasting, carrier = "up", NEW e \in End, s[e].st = "open"
  PROVE  s[e].ackDue \/ s[e].owed > 0 => s[e].timer = 0
  BY Bond DEF Swift

LEMMA SendDataLasting == ASSUME IInv, Reasons, Lasting, NEW e \in End, SendData(e) PROVE Lasting'
<1> DEFINE new == [Passed(s[e]) EXCEPT !.data = Passed(s[e]).data + 1]
<1>1. s[e].st = "open" /\ Do(e, new, <<Signal("DATA")>>)
  BY DEF SendData
<1>2. Only(<<Signal("DATA")>>, "DATA")
  BY OnlySignal DEF FrameKinds
<1>3. s[e] \in Endpoint /\ Passed(s[e]) \in Endpoint
  BY Here
<1>4. /\ new.st = Passed(s[e]).st /\ new.report = Passed(s[e]).report
      /\ new.timer = Passed(s[e]).timer /\ new.owed = Passed(s[e]).owed
      /\ new.kept = Passed(s[e]).kept /\ new.waits = Passed(s[e]).waits
      /\ new.ackDue = Passed(s[e]).ackDue
  BY <1>3 DEF Endpoint
<1> HIDE DEF new
<1>5. Writes(Acks, s[e], new, "DATA")
  BY <1>1, <1>3, <1>4, PassedFields DEF Writes, Prompt, News
<1>6. new.report = s[e].report
  BY <1>3, <1>4, PassedFields
<1> QED BY <1>1, <1>2, <1>5, <1>6, WritesLasting

LEMMA RespondLasting == ASSUME IInv, Reasons, Lasting, NEW e \in End, Respond(e) PROVE Lasting'
<1> DEFINE new == [Passed(s[e]) EXCEPT !.owed = 0]
<1>1. s[e].st = "open" /\ s[e].owed > 0 /\ Do(e, new, <<Frame("PONG", s[e].owed)>>)
  BY DEF Respond
<1>2. Only(<<Frame("PONG", s[e].owed)>>, "PONG")
  BY Here, Fields, OnlyFrame DEF FrameKinds
<1>3. s[e] \in Endpoint /\ Passed(s[e]) \in Endpoint
  BY Here
<1>4. /\ new.st = Passed(s[e]).st /\ new.report = Passed(s[e]).report
      /\ new.timer = Passed(s[e]).timer /\ new.owed = 0
      /\ new.kept = Passed(s[e]).kept /\ new.waits = Passed(s[e]).waits
      /\ new.ackDue = Passed(s[e]).ackDue
  BY <1>3 DEF Endpoint
<1> HIDE DEF new
<1>5. ASSUME carrier = "up" PROVE Writes(Acks, s[e], new, "PONG")
  <2>1. s[e].timer = 0
    BY <1>1, <1>5, SenderSwift
  <2> QED BY <1>1, <1>3, <1>4, <2>1, PassedFields DEF Writes, Prompt, News
<1>6. new.report = s[e].report
  BY <1>3, <1>4, PassedFields
<1> QED BY <1>1, <1>2, <1>5, <1>6, WritesLasting

LEMMA SendAckLasting == ASSUME IInv, Reasons, Lasting, NEW e \in End, SendAck(e) PROVE Lasting'
<1> DEFINE new == [s[e] EXCEPT !.ackDue = FALSE]
<1>1. s[e].st = "open" /\ s[e].ackDue /\ Do(e, new, <<Signal("ACK")>>)
  BY DEF SendAck
<1>2. Only(<<Signal("ACK")>>, "ACK")
  BY OnlySignal DEF FrameKinds
<1>3. /\ new.st = s[e].st /\ new.report = s[e].report /\ new.timer = s[e].timer
      /\ new.owed = s[e].owed /\ new.kept = s[e].kept /\ new.waits = s[e].waits
      /\ new.ackDue = FALSE
  BY Here DEF Endpoint
<1> HIDE DEF new
<1>4. ~new.ackDue
  BY ONLY <1>3
<1>5. ASSUME carrier = "up" PROVE Writes(Acks, s[e], new, "ACK")
  <2>1. s[e].timer = 0
    BY <1>1, <1>5, SenderSwift
  <2> QED BY <1>1, <1>3, <1>4, <2>1 DEF Writes, Prompt, News
<1> QED BY <1>1, <1>2, <1>3, <1>5, WritesLasting

\* A request, by the application or as a keep-alive.
LEMMA AskLasting ==
  ASSUME IInv, Reasons, Lasting, NEW e \in End, s[e].st = "open", s[e].req < MaxPings, NEW new,
         new.st = "open", new.report = s[e].report, new.timer = s[e].timer,
         new.owed = s[e].owed, new.ackDue = s[e].ackDue, new.kept \/ ~s[e].kept,
         Do(e, new, <<Frame("PING", s[e].req + 1)>>)
  PROVE  Lasting'
<1>1. s[e].req + 1 \in 0..MaxPings
  BY Here, Fields
<1>2. Only(<<Frame("PING", s[e].req + 1)>>, "PING")
  BY <1>1, OnlyFrame DEF FrameKinds
<1>3. Writes(Acks, s[e], new, "PING")
  BY DEF Writes, Prompt, News
<1> QED BY <1>2, <1>3, WritesLasting

LEMMA PingLasting == ASSUME IInv, Reasons, Lasting, NEW e \in End, Ping(e) PROVE Lasting'
<1>1. /\ s[e].st = "open" /\ s[e].req < MaxPings
      /\ Do(e, Asks(s[e]), <<Frame("PING", s[e].req + 1)>>)
  BY DEF Ping
<1>2. Asks(s[e]).kept \/ ~s[e].kept
  BY Here, AsksFields
<1> QED BY <1>1, <1>2, Here, AsksFields, AskLasting

-----------------------------------------------------------------------------
\* A keep-alive that finds a request outstanding is that request.
LEMMA JoinsRequest ==
  ASSUME NEW P \in Nat, NEW acks, NEW x \in Endpoint, NEW y \in Endpoint, NEW z,
         NEW q \in Seq(Message), NEW r \in Seq(Message),
         Kept(P, x, q, y, r), Fed(P, x, q, y, r), Swift(acks, y, r), Answerable(x, q, y, r),
         x.st = "open", x.waits, ~x.kept, z.st = "open", z.timer = x.timer, z.kept,
         y.st \in Past => Parting(y, r)
  PROVE  Kept(P, z, q, y, r) /\ Fed(P, z, q, y, r)
<1> DEFINE b == P + 2 * Delay
<1>1. /\ x.timer \in Nat /\ y.timer \in Nat /\ Delay \in Nat /\ b \in Nat
      /\ x.timer <= P /\ b = P + 2 * Delay
  BY Fields, BoundAssumption DEF Kept
<1>2. /\ \A i \in 1..Len(q) : q[i].left \in Nat /\ q[i].left <= Delay
      /\ \A i \in 1..Len(r) : r[i].left \in Nat /\ r[i].left <= Delay
  <2>1. /\ \A i \in 1..Len(q) : q[i] \in Message
        /\ \A i \in 1..Len(r) : r[i] \in Message
    BY Older
  <2> QED BY <2>1, BoundAssumption DEF Message
<1>3. \A i \in 1..Len(r) : r[i].left + z.timer <= b
  BY <1>1, <1>2
<1>4. Kept(P, z, q, y, r)
  <2>1. CASE y.st \in Past \/ ~Without(r, "PONG")
    <3>1. PICK i \in 1..Len(r) : r[i].k \in {"PONG", "EOF"}
      BY <2>1 DEF Parting, Without
    <3>2. Coming(r, {"PONG", "EOF"}, z.timer, b)
      BY <1>3, <3>1 DEF Coming
    <3> QED BY <1>1, <3>2 DEF Kept
  <2>2. CASE y.st \notin Past /\ y.owed > 0
    BY <1>1, <2>2 DEF Kept
  <2>3. CASE y.st \notin Past /\ ~Without(q, "PING")
    <3>1. PICK i \in 1..Len(q) : q[i].k = "PING"
      BY <2>3 DEF Without
    <3>2. q[i].left + (z.timer + Delay) <= b
      BY <1>1, <1>2
    <3>3. Coming(q, {"PING"}, z.timer + Delay, b)
      BY <3>1, <3>2 DEF Coming
    <3> QED BY <1>1, <2>3, <3>3 DEF Kept
  <2> QED BY <2>1, <2>2, <2>3 DEF Answerable
<1>5. Fed(P, z, q, y, r)
  <2> SUFFICES ASSUME y.st = "open", y.owed = 0 \/ ~(y.owed > 0), Without(r, "PONG")
               PROVE  Coming(q, News, y.timer, b)
    BY DEF Fed
  <2>1. ~Without(q, "PING")
    BY DEF Answerable, Past
  <2>2. PICK i \in 1..Len(q) : q[i].k = "PING"
    BY <2>1 DEF Without
  <2>3. Coming(q, News, y.timer, b) \/ y.timer <= P + Delay
    BY SilentFor
  <2>4. CASE y.timer <= P + Delay
    <3>1. q[i].left + y.timer <= b
      BY <1>1, <1>2, <2>4
    <3> QED BY <2>2, <3>1 DEF Coming, News
  <2> QED BY <2>3, <2>4
<1> QED BY <1>4, <1>5

LEMMA KeepAliveLasting == ASSUME IInv, Pings, Reasons, Lasting, NEW e \in End, KeepAlive(e) PROVE Lasting'
<1>1. s[e].st = "open" /\ ~s[e].kept
  BY DEF KeepAlive, KeepAliveDue
<1>2. s[e] \in Endpoint
  BY Here
<1>3. CASE ~s[e].waits /\ s[e].req # MaxPings
  <2> DEFINE new == [Asks(s[e]) EXCEPT !.kept = TRUE]
  <2>1. Do(e, new, <<Frame("PING", s[e].req + 1)>>)
    BY <1>3 DEF KeepAlive
  <2>2. s[e].req < MaxPings
    BY <1>2, <1>3, Fields
  <2>3. Asks(s[e]) \in Endpoint
    BY <2>2, Here, Asked
  <2>4. /\ new.st = "open" /\ new.report = s[e].report /\ new.timer = s[e].timer
        /\ new.owed = s[e].owed /\ new.ackDue = s[e].ackDue /\ new.kept = TRUE
    BY <1>1, <1>2, <2>3, AsksFields DEF Endpoint
  <2> HIDE DEF new
  <2>5. new.kept
    BY ONLY <2>4
  <2> QED BY <1>1, <2>1, <2>2, <2>4, <2>5, AskLasting
<1>4. CASE s[e].waits \/ s[e].req = MaxPings
  <2> DEFINE new == [s[e] EXCEPT !.kept = TRUE]
             p == Peer(e)
             q == chan[e]
             r == chan[p]
  <2>1. Do(e, new, <<>>)
    BY <1>4 DEF KeepAlive
  <2>2. /\ new.st = s[e].st /\ new.report = s[e].report /\ new.timer = s[e].timer
        /\ new.owed = s[e].owed /\ new.ackDue = s[e].ackDue /\ new.waits = s[e].waits
        /\ new.kept = TRUE
    BY <1>2 DEF Endpoint
  <2> HIDE DEF new
  <2>3. new.kept
    BY ONLY <2>2
  <2>4. /\ s'[e] = new /\ s'[p] = s[p] /\ UNCHANGED cfg /\ UNCHANGED carrier
        /\ chan'[e] \in {q, q \o <<>>} /\ chan'[p] = r /\ q \in Seq(Message)
    BY <2>1, DoEffect
  <2>5. chan'[e] = q
    BY <2>4
  <2>6. ASSUME carrier = "up" PROVE Lives'
    <3>1. p \in End /\ Peer(p) = e
      BY Ends2
    <3>2. /\ s[e] \in Endpoint /\ s[p] \in Endpoint /\ q \in Seq(Message) /\ r \in Seq(Message)
          /\ Swift(Acks, s[e], q) /\ Swift(Acks, s[p], r)
          /\ Answerable(s[e], q, s[p], r) /\ Answerable(s[p], r, s[e], q)
          /\ Period(e) \in Nat /\ Period(p) \in Nat
          /\ Keeper(e) => Kept(Period(e), s[e], q, s[p], r) /\ Fed(Period(e), s[e], q, s[p], r)
          /\ Keeper(p) => Kept(Period(p), s[p], r, s[e], q) /\ Fed(Period(p), s[p], r, s[e], q)
          /\ s[p].st \in Past => Parting(s[p], r)
      BY <1>1, <2>6, <3>1, Bond DEF Past
    <3>3. s[e].waits
      <4>1. ~Loose(e) /\ Asking(e)
        BY <1>1, <2>6 DEF Loose, Past, Pings
      <4>2. s[e].waits \/ s[e].req = 0
        BY <4>1 DEF Asking, Exchange
      <4> QED BY <1>4, <4>2, BoundAssumption
    <3> HIDE DEF q, r, p
    <3>4. Keeper(e) => Kept(Period(e), new, q, s[p], r) /\ Fed(Period(e), new, q, s[p], r)
      BY <1>1, <2>2, <2>3, <3>2, <3>3, JoinsRequest
    <3>5. Keeper(p) => Kept(Period(p), s[p], r, new, q) /\ Fed(Period(p), s[p], r, new, q)
      BY <2>2, <3>2 DEF Kept, Fed
    <3>6. /\ Swift(Acks, new, q) /\ Answerable(new, q, s[p], r) /\ Answerable(s[p], r, new, q)
      BY <1>1, <2>2, <3>2 DEF Swift, Answerable
    <3> USE DEF q, r, p
    <3> QED BY <2>4, <2>5, <3>2, <3>4, <3>5, <3>6, Lived
  <2> QED BY <2>2, <2>4, <2>6, SameLasting
<1> QED BY <1>3, <1>4

-----------------------------------------------------------------------------
(* What an end reads.                                                      *)

LEMMA FailLasting ==
  ASSUME IInv, Reasons, Lasting, NEW e \in End, NEW code \in Codes, Fail(e, code),
         s[e].st \in {"start", "open"}, chan[Peer(e)] # <<>>,
         code \notin {"IDLE_TIMEOUT", "ZMUX_IDLE_TIMEOUT"}
  PROVE  Lasting'
<1> DEFINE f == <<Close(Wire(code)), EOF>>
<1>1. Reads(e, Over(s[e], code, "local"), f)
  BY DEF Fail
<1>2. Wire(code) \in Codes
  BY Wires
<1>3. f \in Seq(Message) /\ Latest(f) /\ \E i \in 1..Len(f) : f[i].k = "EOF"
  BY <1>2, LastWords
<1> HIDE DEF f
<1>4. /\ s'[e] = Over(s[e], code, "local") /\ s'[Peer(e)] = s[Peer(e)]
      /\ UNCHANGED <<cfg, carrier>>
      /\ chan'[e] = IF carrier = "up" THEN chan[e] \o f ELSE chan[e]
      /\ chan'[Peer(e)] = Tail(chan[Peer(e)])
  BY <1>1, ReadsEffect
<1>5. Reportable(code)
  BY DEF Reportable
<1> QED BY <1>3, <1>4, <1>5, EndsLasting

\* A frame of application activity, or an acknowledgement.
LEMMA ReadsLasting ==
  ASSUME IInv, Reasons, Lasting, NEW e \in End, NEW new, Reads(e, new, <<>>),
         new.report = s[e].report, chan[Peer(e)] # <<>>,
         carrier = "up" => Hears(s[e], new, s[Peer(e)], Got(e).k)
  PROVE  Lasting'
<1>1. /\ s'[e] = new /\ s'[Peer(e)] = s[Peer(e)] /\ UNCHANGED cfg /\ UNCHANGED carrier
      /\ chan'[e] \in {chan[e], chan[e] \o <<>>} /\ chan'[Peer(e)] = Tail(chan[Peer(e)])
      /\ chan[e] \in Seq(Message)
  BY ReadsEffect
<1>2. chan'[e] = chan[e]
  BY <1>1
<1>3. Looks(s[Peer(e)], s'[Peer(e)])
  BY <1>1 DEF Looks
<1> QED BY <1>1, <1>2, <1>3, HearsLasting

\* On a carrier that is up what is read promptly was written by one who heard of late.
LEMMA PromptWriter ==
  ASSUME IInv, Reasons, Lasting, carrier = "up", NEW e \in End, chan[Peer(e)] # <<>>,
         s[Peer(e)].st = "open", Got(e).k \in Prompt(Acks)
  PROVE  s[Peer(e)].timer <= Delay
<1> DEFINE y == s[Peer(e)]
           r == chan[Peer(e)]
<1>1. y \in Endpoint /\ r \in Seq(Message) /\ Swift(Acks, y, r)
  BY Bond, Ends2
<1>2. 1 \in 1..Len(r) /\ r[1] = Got(e) /\ r[1] \in Message
  BY <1>1, Shorter DEF Got
<1>3. r[1].left + y.timer <= Delay
  BY <1>1, <1>2 DEF Swift
<1>4. r[1].left \in Nat /\ y.timer \in Nat /\ Delay \in Nat
  BY <1>1, <1>2, Fields, BoundAssumption DEF Message
<1> HIDE DEF y, r
<1>5. y.timer <= Delay
  BY <1>3, <1>4
<1> QED BY <1>5 DEF y

LEMMA RecvParametersLasting ==
  ASSUME IInv, Reasons, Lasting, NEW e \in End, RecvParameters(e) PROVE Lasting'
<1> DEFINE bad == Objections(cfg[e], cfg[Peer(e)], Transport(e), s[e].early)
           new == [s[e] EXCEPT !.st = "open", !.timer = 0, !.role = Resolved(e)]
<1>1. /\ s[e].st = "start" /\ chan[Peer(e)] # <<>> /\ Got(e).k = "TP"
      /\ (bad = {} /\ Reads(e, new, <<>>)) \/ (\E code \in bad : Fail(e, code))
  BY DEF RecvParameters, On, Resolved, Got
<1>2. CASE Reads(e, new, <<>>)
  <2>1. /\ new.st = "open" /\ new.timer = 0 /\ new.report = s[e].report /\ new.kept = s[e].kept
        /\ new.owed = s[e].owed /\ new.waits = s[e].waits
    BY Here DEF Endpoint
  <2>2. Reads(e, new, <<>>)
    BY <1>2
  <2> HIDE DEF new
  <2>3. ASSUME carrier = "up" PROVE Hears(s[e], new, s[Peer(e)], Got(e).k)
    <3>1. ~s[e].kept /\ ~s[e].waits
      BY <1>1, <2>3, Bond DEF Swift
    <3> QED BY <1>1, <2>1, <3>1 DEF Hears, Final
  <2> QED BY <1>1, <2>1, <2>2, <2>3, ReadsLasting
<1>3. ASSUME NEW code \in bad, Fail(e, code) PROVE Lasting'
  <2>1. code \in Codes \ {"IDLE_TIMEOUT", "ZMUX_IDLE_TIMEOUT"}
    BY DEF Objections, Codes
  <2> QED BY <1>1, <1>3, <2>1, FailLasting
<1> QED BY <1>1, <1>2, <1>3

\* Without acknowledgement no early data is read.
LEMMA RecvEarlyLasting == ASSUME IInv, Reasons, Lasting, NEW e \in End, RecvEarly(e) PROVE Lasting'
<1> DEFINE new == [Heard(s[e]) EXCEPT !.took = TRUE]
<1>1. /\ s[e].st = "open" /\ chan[Peer(e)] # <<>> /\ Got(e).k = "EARLY"
      /\ Fail(e, "STREAM_LIMIT_ERROR") \/ Reads(e, new, <<>>)
  BY DEF RecvEarly, On, Got
<1>2. CASE Fail(e, "STREAM_LIMIT_ERROR")
  BY <1>1, <1>2, FailLasting DEF Codes
<1>3. CASE Reads(e, new, <<>>)
  <2>1. Heard(s[e]) \in Endpoint /\ s[e] \in Endpoint
    BY Here
  <2>2. /\ new.st = Heard(s[e]).st /\ new.report = Heard(s[e]).report /\ new.took = TRUE
        /\ new.timer = Heard(s[e]).timer /\ new.owed = Heard(s[e]).owed
        /\ new.kept = Heard(s[e]).kept /\ new.waits = Heard(s[e]).waits
        /\ new.ackDue = Heard(s[e]).ackDue
    BY <2>1 DEF Endpoint
  <2>3. Reads(e, new, <<>>)
    BY <1>3
  <2> HIDE DEF new
  <2>4. Acks
    <3>1. s'[e] = new /\ UNCHANGED cfg
      BY <2>3, ReadsEffect
    <3>2. s'[e].took = TRUE
      BY <2>2, <3>1
    <3>3. s'[e].took
      BY ONLY <3>2
    <3>4. Acks'
      <4>1. Processed'
        BY RecvEarlyKeeps DEF IInv
      <4> QED BY <3>3, <4>1 DEF Processed
    <3> QED BY <3>1, <3>4 DEF Acks
  <2>5. new.ackDue /\ ~new.kept
    BY <2>1, <2>2, <2>4, HeardFields
  <2>6. Hears(s[e], new, s[Peer(e)], Got(e).k)
    BY <1>1, <2>1, <2>2, <2>5, HeardFields DEF Hears, Final
  <2>7. new.report = s[e].report
    BY <2>1, <2>2, HeardFields
  <2> QED BY <1>1, <2>3, <2>6, <2>7, ReadsLasting
<1> QED BY <1>1, <1>2, <1>3

LEMMA RecvDataLasting == ASSUME IInv, Reasons, Lasting, NEW e \in End, RecvData(e) PROVE Lasting'
<1>1. /\ s[e].st = "open" /\ chan[Peer(e)] # <<>> /\ Got(e).k = "DATA"
      /\ Reads(e, Heard(s[e]), <<>>)
  BY DEF RecvData, On, Got
<1>2. ASSUME carrier = "up" PROVE Hears(s[e], Heard(s[e]), s[Peer(e)], "DATA")
  <2>1. Acks \/ "DATA" \in Prompt(Acks)
    BY DEF Prompt
  <2>2. s[Peer(e)].st = "open" => s[Peer(e)].timer <= Delay \/ Acks
    BY <1>1, <1>2, <2>1, PromptWriter
  <2> QED BY <1>1, <2>2, Here, HeardFields DEF Hears, Final
<1> QED BY <1>1, <1>2, Here, HeardFields, ReadsLasting

LEMMA RecvAckLasting == ASSUME IInv, Reasons, Lasting, NEW e \in End, RecvAck(e) PROVE Lasting'
<1>1. /\ s[e].st = "open" /\ chan[Peer(e)] # <<>> /\ Got(e).k = "ACK"
      /\ Reads(e, Active(s[e]), <<>>)
  BY DEF RecvAck, On, Got
<1>2. ASSUME carrier = "up" PROVE Hears(s[e], Active(s[e]), s[Peer(e)], "ACK")
  <2>1. "ACK" \in Prompt(Acks)
    BY DEF Prompt
  <2>2. s[Peer(e)].st = "open" => s[Peer(e)].timer <= Delay
    BY <1>1, <1>2, <2>1, PromptWriter
  <2> QED BY <1>1, <2>2, Here, ActiveFields DEF Hears, Final
<1> QED BY <1>1, <1>2, Here, ActiveFields, ReadsLasting

\* A request is owed, whether it costs or not.
LEMMA RecvPingLasting == ASSUME IInv, Pings, Reasons, Lasting, NEW e \in End, RecvPing(e) PROVE Lasting'
<1> DEFINE n == Got(e).n
           new == [Heard(s[e]) EXCEPT !.top = n, !.owed = n]
           costs == s[e].owed > 0
           v == IF costs THEN new.tokens - 1 ELSE new.tokens
           z == [new EXCEPT !.tokens = v]
<1>1. /\ s[e].st = "open" /\ chan[Peer(e)] # <<>> /\ Got(e).k = "PING"
      /\ Fail(e, "PROTOCOL_VIOLATION") \/ Fail(e, "ZMUX_EXCESSIVE_LOAD") \/ Reads(e, z, <<>>)
  BY DEF RecvPing, On, Got, Charged
<1>2. CASE Fail(e, "PROTOCOL_VIOLATION") \/ Fail(e, "ZMUX_EXCESSIVE_LOAD")
  BY <1>1, <1>2, FailLasting DEF Codes
<1>3. CASE Reads(e, z, <<>>)
  <2>1. n \in 0..MaxPings /\ n > 0
    <3>1. Got(e) = chan[Peer(e)][1] /\ 1 \in 1..Len(chan[Peer(e)]) /\ Sound(chan[Peer(e)])
      BY <1>1, Heads, Shorter
    <3>2. n > 0
      BY <1>1, <3>1 DEF Sound, Pinging
    <3> QED BY <1>1, <3>2, NextFrame, BoundAssumption
  <2>2. Heard(s[e]) \in Endpoint /\ s[e] \in Endpoint
    BY Here
  <2> HIDE DEF n
  <2>3. /\ new.st = Heard(s[e]).st /\ new.report = Heard(s[e]).report
        /\ new.timer = Heard(s[e]).timer /\ new.kept = Heard(s[e]).kept
        /\ new.waits = Heard(s[e]).waits /\ new.ackDue = Heard(s[e]).ackDue
        /\ new.owed = n /\ new \in Endpoint
    BY <2>1, <2>2 DEF Endpoint
  <2> HIDE DEF new, v
  <2>4. /\ z.st = new.st /\ z.report = new.report /\ z.timer = new.timer /\ z.kept = new.kept
        /\ z.waits = new.waits /\ z.ackDue = new.ackDue /\ z.owed = new.owed
    BY <2>3 DEF Endpoint
  <2>5. Reads(e, z, <<>>)
    BY <1>3
  <2> HIDE DEF z
  <2>6. z.owed > 0 /\ ~z.kept /\ z.report = s[e].report
    BY <2>1, <2>2, <2>3, <2>4, HeardFields
  <2>7. Hears(s[e], z, s[Peer(e)], "PING")
    BY <1>1, <2>2, <2>3, <2>4, <2>6, HeardFields DEF Hears, Final
  <2> QED BY <1>1, <2>5, <2>6, <2>7, ReadsLasting
<1> QED BY <1>1, <1>2, <1>3

\* A response is to the last request, which is no longer outstanding.
LEMMA RecvPongLasting == ASSUME IInv, Pings, Reasons, Lasting, NEW e \in End, RecvPong(e) PROVE Lasting'
<1> DEFINE p == Peer(e)
           n == Got(e).n
           mine == [Heard(s[e]) EXCEPT !.ans = 0, !.req = 0, !.waits = FALSE]
           other == [s[p] EXCEPT !.top = 0]
<1>1. s[e].st = "open" /\ chan[p] # <<>> /\ Got(e).k = "PONG"
  BY DEF RecvPong, On, Got
<1>2. /\ p \in End /\ Peer(p) = e /\ carrier # "stalled" /\ chan[p] \in Seq(Message)
      /\ Sound(chan[p]) /\ Got(e) = Head(chan[p]) /\ Asking(e)
  BY <1>1, Heads, Ends2 DEF Pings
<1>3. Exchange(FALSE, s[e].waits, s[e].req, s[p].owed, s[p].top, chan[e], chan[p])
  <2>1. ~Loose(e)
    BY <1>1, <1>2 DEF Loose, Past
  <2> QED BY <1>2, <2>1 DEF Asking, Exchange
<1>4. ~Without(chan[p], "PONG") /\ n > 0 /\ \A m : AllAre(chan[p], "PONG", m) => n = m
  <2>1. Single(chan[p], "PONG")
    BY <1>3 DEF Exchange
  <2> QED BY <1>1, <1>2, <2>1, Removes DEF Pinging
<1>5. n = s[e].req /\ s[e].ans = 0
  BY <1>3, <1>4 DEF Exchange, Pings, Unhurt
<1>6. ~(n > s[e].req) /\ ~(n < s[e].req \/ n <= s[e].ans)
  <2>1. n \in 0..MaxPings /\ MaxPings \in Nat
    BY <1>1, NextFrame, BoundAssumption
  <2> HIDE DEF n
  <2> QED BY <1>4, <1>5, <2>1
<1>7. /\ s' = [s EXCEPT ![e] = mine, ![p] = other]
      /\ chan' = [chan EXCEPT ![p] = Tail(chan[p])]
      /\ UNCHANGED cfg /\ UNCHANGED carrier
  BY <1>2, <1>6 DEF RecvPong
<1>8. /\ s'[e] = mine /\ s'[p] = other /\ chan'[p] = Tail(chan[p]) /\ chan'[e] = chan[e]
  BY <1>2, <1>7, Ends2 DEF IInv, TypeOK
<1>9. /\ mine.waits = FALSE /\ mine.report = s[e].report /\ mine.st = s[e].st
      /\ mine.owed = s[e].owed /\ mine.timer = 0 /\ mine.kept = Heard(s[e]).kept
      /\ mine.ackDue = Heard(s[e]).ackDue
  <2>1. s[e] \in Endpoint /\ Heard(s[e]) \in Endpoint
    BY Here
  <2>2. /\ mine.waits = FALSE /\ mine.report = Heard(s[e]).report
        /\ mine.st = Heard(s[e]).st /\ mine.owed = Heard(s[e]).owed
        /\ mine.timer = Heard(s[e]).timer /\ mine.kept = Heard(s[e]).kept
        /\ mine.ackDue = Heard(s[e]).ackDue
    BY <2>1 DEF Endpoint
  <2> HIDE DEF mine
  <2> QED BY <2>1, <2>2, HeardFields
<1>10. /\ other.report = s[p].report /\ other.st = s[p].st /\ other.owed = s[p].owed
       /\ other.timer = s[p].timer /\ other.kept = s[p].kept /\ other.waits = s[p].waits
       /\ other.ackDue = s[p].ackDue
  BY <1>2, Here DEF Endpoint
<1> HIDE DEF n, mine, other
<1>11. ~mine.waits
  BY ONLY <1>9
<1>12. ~mine.kept
  BY <1>9, Here, HeardFields
<1>13. Looks(s[p], s'[p])
  BY <1>8, <1>10 DEF Looks
<1>14. ASSUME carrier = "up" PROVE Hears(s[e], mine, s[p], "PONG")
  <2>1. "PONG" \in Prompt(Acks)
    BY DEF Prompt
  <2>2. s[p].st = "open" => s[p].timer <= Delay
    BY <1>1, <1>14, <2>1, PromptWriter
  <2> QED BY <1>1, <1>9, <1>11, <1>12, <2>2 DEF Hears, Final
<1> QED BY <1>1, <1>7, <1>8, <1>9, <1>10, <1>13, <1>14, HearsLasting

-----------------------------------------------------------------------------
(* Steps that nobody's keep-alive depends on.                              *)

\* The end in state x reads a frame that tells nothing.
LEMMA SkipsFrame ==
  ASSUME NEW x, NEW y, NEW q, NEW r \in Seq(Message), r # <<>>, Head(r).k \notin News
  PROVE  LET v == Tail(r)
         IN  /\ \A acks : Swift(acks, y, r) => Swift(acks, y, v)
             /\ Answerable(x, q, y, r) => Answerable(x, q, y, v)
             /\ Answerable(y, r, x, q) => Answerable(y, v, x, q)
             /\ \A P : /\ Kept(P, x, q, y, r) => Kept(P, x, q, y, v)
                       /\ Fed(P, x, q, y, r) => Fed(P, x, q, y, v)
                       /\ Kept(P, y, r, x, q) => Kept(P, y, v, x, q)
                       /\ Fed(P, y, r, x, q) => Fed(P, y, v, x, q)
<1> DEFINE v == Tail(r)
<1>1. \A kinds, t, b : kinds \subseteq News /\ Coming(r, kinds, t, b) => Coming(v, kinds, t, b)
  BY ComingTail
<1>2. \A k \in News : ~Without(r, k) => ~Without(v, k)
  BY ComingTail
<1>3. /\ "PING" \in News /\ "PONG" \in News /\ {"PING"} \subseteq News
      /\ {"PONG", "EOF"} \subseteq News /\ News \subseteq News
  BY DEF News
<1>4. \A acks : Swift(acks, y, r) => Swift(acks, y, v)
  BY SwiftTail
<1> HIDE DEF v
<1>5. /\ Answerable(x, q, y, r) => Answerable(x, q, y, v)
      /\ Answerable(y, r, x, q) => Answerable(y, v, x, q)
  BY <1>2, <1>3 DEF Answerable
<1>6. ASSUME NEW P
      PROVE  /\ Kept(P, x, q, y, r) => Kept(P, x, q, y, v)
             /\ Kept(P, y, r, x, q) => Kept(P, y, v, x, q)
  BY <1>1, <1>3 DEF Kept
<1>7. ASSUME NEW P
      PROVE  /\ Fed(P, x, q, y, r) => Fed(P, x, q, y, v)
             /\ Fed(P, y, r, x, q) => Fed(P, y, v, x, q)
  BY <1>1, <1>2, <1>3 DEF Fed
<1> QED BY <1>4, <1>5, <1>6, <1>7 DEF v

LEMMA RecvFenceLasting == ASSUME IInv, Reasons, Lasting, NEW e \in End, RecvFence(e) PROVE Lasting'
<1> DEFINE p == Peer(e)
           q == chan[e]
           r == chan[p]
<1>1. /\ s[e].st = "open" /\ r # <<>> /\ Head(r).k = "FENCE"
      /\ Reads(e, s[e], <<>>) \/ Fail(e, "FRAME_ENCODING_ERROR")
  BY DEF RecvFence, On
<1>2. CASE Fail(e, "FRAME_ENCODING_ERROR")
  BY <1>1, <1>2, FailLasting DEF Codes
<1>3. CASE Reads(e, s[e], <<>>)
  <2>1. /\ s'[e] = s[e] /\ s'[p] = s[p] /\ UNCHANGED cfg /\ UNCHANGED carrier
        /\ chan'[e] \in {q, q \o <<>>} /\ chan'[p] = Tail(r) /\ q \in Seq(Message)
    BY <1>3, ReadsEffect
  <2>2. chan'[e] = q
    BY <2>1
  <2>3. ASSUME carrier = "up" PROVE Lives'
    <3>1. p \in End /\ Peer(p) = e
      BY Ends2
    <3>2. /\ r \in Seq(Message) /\ Swift(Acks, s[e], q) /\ Swift(Acks, s[p], r)
          /\ Answerable(s[e], q, s[p], r) /\ Answerable(s[p], r, s[e], q)
          /\ Keeper(e) => Kept(Period(e), s[e], q, s[p], r) /\ Fed(Period(e), s[e], q, s[p], r)
          /\ Keeper(p) => Kept(Period(p), s[p], r, s[e], q) /\ Fed(Period(p), s[p], r, s[e], q)
      BY <2>3, <3>1, Bond
    <3>3. Head(r).k \notin News
      BY <1>1 DEF News
    <3> HIDE DEF q, r, p
    <3>4. /\ Swift(Acks, s[p], Tail(r))
          /\ Answerable(s[e], q, s[p], Tail(r)) /\ Answerable(s[p], Tail(r), s[e], q)
          /\ Keeper(e) => /\ Kept(Period(e), s[e], q, s[p], Tail(r))
                          /\ Fed(Period(e), s[e], q, s[p], Tail(r))
          /\ Keeper(p) => /\ Kept(Period(p), s[p], Tail(r), s[e], q)
                          /\ Fed(Period(p), s[p], Tail(r), s[e], q)
      BY <1>1, <3>2, <3>3, SkipsFrame
    <3> USE DEF q, r, p
    <3> QED BY <2>1, <2>2, <3>2, <3>4, Lived
  <2> QED BY <2>1, <2>3, SameLasting
<1> QED BY <1>1, <1>2, <1>3

LEMMA StartLasting == ASSUME IInv, Reasons, Lasting, NEW e \in End, Start(e) PROVE Lasting'
<1> DEFINE p == Peer(e)
           q == chan[e]
           r == chan[p]
<1>1. PICK early \in BOOLEAN :
        Do(e, [s[e] EXCEPT !.st = "start", !.early = early], Opening(early))
  BY DEF Start, MayBeEarly
<1> DEFINE new == [s[e] EXCEPT !.st = "start", !.early = early]
           f == Opening(early)
<1>2. s[e] \in Endpoint /\ s[e].st = "new"
  BY Here DEF Start
<1>3. /\ new.st = "start" /\ new.report = s[e].report /\ new.timer = s[e].timer
      /\ new.kept = s[e].kept /\ new.waits = s[e].waits /\ new.owed = s[e].owed
  BY <1>2 DEF Endpoint
<1>4. Do(e, new, f)
  BY <1>1
<1> HIDE DEF new, f
<1>5. /\ s'[e] = new /\ s'[p] = s[p] /\ UNCHANGED cfg /\ UNCHANGED carrier /\ chan'[p] = r
  BY <1>4, DoEffect
<1>6. ASSUME carrier = "up" PROVE Lives'
  <2> DEFINE u == chan'[e]
  <2>1. p \in End /\ Peer(p) = e
    BY Ends2
  <2>2. /\ Own(s[e], q) /\ Swift(Acks, s[e], q) /\ Swift(Acks, s[p], r)
        /\ Answerable(s[p], r, s[e], q)
        /\ Keeper(e) => Fed(Period(e), s[e], q, s[p], r)
        /\ Keeper(p) => Kept(Period(p), s[p], r, s[e], q)
    BY <1>6, <2>1, Bond
  <2>3. q = <<>> /\ ~s[e].kept /\ ~s[e].waits /\ s[e].owed = 0 /\ Len(<<>>) = 0
    BY <1>2, <2>2 DEF Own, Swift
  <2>4. Without(q, "PONG") /\ \A kinds, t, b : ~Coming(q, kinds, t, b)
    BY <2>3 DEF Without, Coming
  <2>5. new.st \notin Past /\ s[e].st \notin Past
    BY <1>2, <1>3 DEF Past
  <2> HIDE DEF q, r, p, u
  <2>6. /\ Swift(Acks, new, u) /\ Answerable(new, u, s[p], r) /\ Answerable(s[p], r, new, u)
    BY <1>2, <1>3, <2>2, <2>3, <2>4, <2>5 DEF Swift, Answerable
  <2>7. Keeper(e) => Kept(Period(e), new, u, s[p], r) /\ Fed(Period(e), new, u, s[p], r)
    BY <1>2, <1>3, <2>2, <2>4 DEF Kept, Fed
  <2>8. Keeper(p) => Kept(Period(p), s[p], r, new, u) /\ Fed(Period(p), s[p], r, new, u)
    <3>1. ASSUME NEW P, Kept(P, s[p], r, s[e], q) PROVE Kept(P, s[p], r, new, u)
      BY <1>3, <2>3, <2>4, <2>5, <3>1 DEF Kept
    <3>2. ASSUME NEW P PROVE Fed(P, s[p], r, new, u)
      BY <1>3 DEF Fed
    <3> QED BY <2>2, <3>1, <3>2
  <2> USE DEF q, r, p, u
  <2> QED BY <1>5, <2>2, <2>6, <2>7, <2>8, Lived
<1> QED BY <1>3, <1>5, <1>6, SameLasting

LEMMA IgnoreLasting == ASSUME IInv, Reasons, Lasting, NEW e \in End, Ignore(e) PROVE Lasting'
<1> DEFINE p == Peer(e)
           q == chan[e]
           r == chan[p]
           new == IF On(e, "EOF") THEN [s[e] EXCEPT !.st = "closed", !.timer = 0] ELSE s[e]
<1>1. s[e].st = "closing" /\ r # <<>> /\ Reads(e, new, <<>>)
  BY DEF Ignore
<1>2. /\ new.st \in Past /\ new.report = s[e].report /\ new.kept = s[e].kept
      /\ new.waits = s[e].waits /\ new.owed = s[e].owed
  <2>1. s[e] \in Endpoint
    BY Here
  <2>2. CASE On(e, "EOF")
    BY <1>1, <2>1, <2>2 DEF Endpoint, Past
  <2>3. CASE ~On(e, "EOF")
    BY <1>1, <2>3 DEF Past
  <2> QED BY <2>2, <2>3
<1> HIDE DEF new
<1>3. /\ s'[e] = new /\ s'[p] = s[p] /\ UNCHANGED cfg /\ UNCHANGED carrier
      /\ chan'[e] \in {q, q \o <<>>} /\ chan'[p] = Tail(r) /\ q \in Seq(Message)
  BY <1>1, ReadsEffect
<1>4. chan'[e] = q
  BY <1>3
<1>5. ASSUME carrier = "up" PROVE Lives'
  <2> DEFINE v == Tail(r)
  <2>1. p \in End /\ Peer(p) = e
    BY Ends2
  <2>2. /\ r \in Seq(Message) /\ Swift(Acks, s[e], q) /\ Swift(Acks, s[p], r)
        /\ Keeper(e) => Fed(Period(e), s[e], q, s[p], r)
        /\ Keeper(p) => Kept(Period(p), s[p], r, s[e], q)
    BY <1>5, <2>1, Bond
  <2>3. /\ ~s[e].kept /\ ~s[e].waits /\ s[e].owed = 0 /\ s[e].st \in Past
        /\ new.st # "open"
    BY <1>1, <1>2, <2>2 DEF Swift, Past
  <2>4. Swift(Acks, s[p], v)
    BY <1>1, <2>2, SwiftTail
  <2> HIDE DEF q, r, p, v
  <2>5. /\ Swift(Acks, new, q) /\ Answerable(new, q, s[p], v) /\ Answerable(s[p], v, new, q)
    BY <1>2, <2>3 DEF Swift, Answerable
  <2>6. Keeper(e) => Kept(Period(e), new, q, s[p], v) /\ Fed(Period(e), new, q, s[p], v)
    BY <1>1, <2>2, <2>3 DEF Kept, Fed
  <2>7. Keeper(p) => Kept(Period(p), s[p], v, new, q) /\ Fed(Period(p), s[p], v, new, q)
    <3>1. ASSUME NEW P, Kept(P, s[p], r, s[e], q) PROVE Kept(P, s[p], v, new, q)
      BY <1>2, <2>3, <3>1 DEF Kept
    <3>2. ASSUME NEW P PROVE Fed(P, s[p], v, new, q)
      BY <2>3 DEF Fed
    <3> QED BY <2>2, <3>1, <3>2
  <2> USE DEF q, r, p, v
  <2> QED BY <1>3, <1>4, <2>4, <2>5, <2>6, <2>7, Lived
<1> QED BY <1>2, <1>3, <1>5, SameLasting

-----------------------------------------------------------------------------
(* How a session ends, and what a keeper does to the idle timeout.          *)

\* With a keeper at either end no end is ever silent for longer than this.
LEMMA NeverSilent ==
  ASSUME IInv, Reasons, Lasting, carrier = "up", NEW e \in End, s[e].st = "open",
         NEW d \in End, Keeper(d)
  PROVE  s[e].timer <= Period(d) + 2 * Delay
<1> DEFINE x == s[d]
           q == chan[d]
           y == s[Peer(d)]
           r == chan[Peer(d)]
           P == Period(d)
<1>1. Peer(d) \in End /\ Peer(Peer(d)) = d /\ (e = d \/ e = Peer(d))
  BY Ends2
<1>2. /\ x \in Endpoint /\ y \in Endpoint /\ q \in Seq(Message) /\ r \in Seq(Message)
      /\ P \in Nat /\ Kept(P, x, q, y, r) /\ Fed(P, x, q, y, r) /\ Swift(Acks, y, r)
      /\ x.st = "start" => x.timer <= Delay
  BY <1>1, Bond
<1>3. x.timer \in Nat /\ x.timer + Delay \in Nat /\ Delay \in Nat /\ P + 2 * Delay \in Nat
  BY <1>2, Fields, BoundAssumption
<1>4. CASE e = d
  <2>1. x.st = "open" /\ x = s[e]
    BY <1>4
  <2> HIDE DEF x, y, q, r, P
  <2>2. CASE ~x.kept
    BY <1>2, <1>3, <2>1, <2>2 DEF Kept, P
  <2>3. CASE x.kept /\ Coming(q, {"PING"}, x.timer + Delay, P + 2 * Delay)
    <3>1. x.timer + Delay <= P + 2 * Delay
      BY <1>2, <1>3, <2>3, ComingSooner
    <3> QED BY <1>3, <2>1, <3>1 DEF P
  <2>4. CASE x.kept /\ x.timer + Delay <= P + 2 * Delay
    BY <1>3, <2>1, <2>4 DEF P
  <2>5. CASE x.kept /\ Coming(r, {"PONG", "EOF"}, x.timer, P + 2 * Delay)
    <3>1. x.timer <= P + 2 * Delay
      BY <1>2, <1>3, <2>5, ComingSooner
    <3> QED BY <2>1, <3>1 DEF P
  <2> QED BY <1>2, <2>1, <2>2, <2>3, <2>4, <2>5 DEF Kept
<1>5. CASE e = Peer(d)
  <2>1. y.st = "open" /\ y = s[e]
    BY <1>5
  <2> HIDE DEF x, y, q, r, P
  <2>2. y.timer <= P + 2 * Delay
    BY <1>2, <2>1, SilentFor
  <2> QED BY <2>1, <2>2 DEF P
<1> QED BY <1>1, <1>4, <1>5

LEMMA IdleTimeoutLasting == ASSUME IInv, Reasons, Lasting, NEW e \in End, IdleTimeout(e) PROVE Lasting'
<1> DEFINE frames == IF Acks THEN <<Close(Wire("IDLE_TIMEOUT")), EOF>> ELSE <<EOF>>
<1>1. /\ s[e].st = "open" /\ Do(e, Over(s[e], "IDLE_TIMEOUT", "local"), frames)
      /\ \E t \in Timeouts : s[e].timer >= t
  BY DEF IdleTimeout, IdleDue
<1>2. frames \in Seq(Message) /\ Latest(frames) /\ \E i \in 1..Len(frames) : frames[i].k = "EOF"
  <2>1. CASE Acks
    <3>1. Wire("IDLE_TIMEOUT") \in Codes
      BY Wires DEF Codes
    <3> QED BY <2>1, <3>1, LastWords
  <2>2. CASE ~Acks
    BY <2>2, LastWord
  <2> QED BY <2>1, <2>2
<1> HIDE DEF frames
<1>3. /\ s'[e] = Over(s[e], "IDLE_TIMEOUT", "local") /\ s'[Peer(e)] = s[Peer(e)]
      /\ UNCHANGED <<cfg, carrier>> /\ chan'[Peer(e)] = chan[Peer(e)]
      /\ chan'[e] = IF carrier = "up" THEN chan[e] \o frames ELSE chan[e]
  BY <1>1, DoEffect
<1>4. ASSUME carrier = "up", NEW d \in End, Keeper(d) PROVE FALSE
  <2>1. s[e].timer <= Period(d) + 2 * Delay
    BY <1>1, <1>4, NeverSilent
  <2>2. PICK t \in Timeouts : s[e].timer >= t
    BY <1>1
  <2>3. t \in Nat /\ t > Period(d) + 2 * Delay /\ Period(d) \in Nat
    BY <1>4, PeriodShort
  <2>4. s[e].timer \in Nat /\ Delay \in Nat
    BY Here, Fields, BoundAssumption
  <2> QED BY <2>1, <2>2, <2>3, <2>4
<1>5. Reportable("IDLE_TIMEOUT")
  BY <1>4 DEF Reportable
<1> QED BY <1>1, <1>2, <1>3, <1>5, EndsLasting

LEMMA AppCloseLasting == ASSUME IInv, Reasons, Lasting, NEW e \in End, AppClose(e) PROVE Lasting'
<1> DEFINE frames == <<Close("APPLICATION"), EOF>>
<1>1. s[e].st = "open" /\ Do(e, Over(s[e], "APPLICATION", "local"), frames)
  BY DEF AppClose
<1>2. frames \in Seq(Message) /\ Latest(frames) /\ \E i \in 1..Len(frames) : frames[i].k = "EOF"
  BY LastWords DEF Codes
<1> HIDE DEF frames
<1>3. /\ s'[e] = Over(s[e], "APPLICATION", "local") /\ s'[Peer(e)] = s[Peer(e)]
      /\ UNCHANGED <<cfg, carrier>> /\ chan'[Peer(e)] = chan[Peer(e)]
      /\ chan'[e] = IF carrier = "up" THEN chan[e] \o frames ELSE chan[e]
  BY <1>1, DoEffect
<1>4. Reportable("APPLICATION")
  BY DEF Reportable
<1> QED BY <1>1, <1>2, <1>3, <1>4, EndsLasting

\* An end that is told of an idle timeout has a peer that reported it.
LEMMA RecvCloseLasting == ASSUME IInv, Reasons, Lasting, NEW e \in End, RecvClose(e) PROVE Lasting'
<1> DEFINE p == Peer(e)
           code == IF Got(e).code = "ZMUX_IDLE_TIMEOUT" THEN "IDLE_TIMEOUT" ELSE Got(e).code
<1>1. /\ s[e].st = "open" /\ chan[p] # <<>> /\ Got(e).k = "CLOSE"
      /\ Reads(e, Over(s[e], code, "remote"), <<EOF>>)
  BY DEF RecvClose, On, Got
<1>2. Got(e).code = Wire(s[p].report[1]) /\ p \in End
  BY <1>1, ReadsEnd, Ends2
<1>3. s[p].report[1] # "ZMUX_IDLE_TIMEOUT"
  BY <1>2 DEF Lasting
<1>4. code # "ZMUX_IDLE_TIMEOUT" /\ (code = "IDLE_TIMEOUT" => s[p].report[1] = "IDLE_TIMEOUT")
  BY <1>2, <1>3 DEF Wire
<1> HIDE DEF code
<1>5. Reportable(code)
  BY <1>2, <1>4 DEF Reportable, Lasting, KeptAlive, Keeper
<1>6. /\ s'[e] = Over(s[e], code, "remote") /\ s'[p] = s[p]
      /\ UNCHANGED <<cfg, carrier>> /\ chan'[p] = Tail(chan[p])
      /\ chan'[e] = IF carrier = "up" THEN chan[e] \o <<EOF>> ELSE chan[e]
  BY <1>1, ReadsEffect
<1> QED BY <1>1, <1>5, <1>6, LastWord, EndsLasting

LEMMA RecvEofLasting == ASSUME IInv, Reasons, Lasting, NEW e \in End, RecvEof(e) PROVE Lasting'
<1> DEFINE p == Peer(e)
<1>1. s[e].st = "open" /\ chan[p] # <<>> /\ Got(e).k = "EOF"
  BY DEF RecvEof, On, Got
<1>2. ~Acks /\ s[p].report[1] = "IDLE_TIMEOUT" /\ p \in End
  BY <1>1, ReadsEnd, Ends2
<1>3. Reads(e, Over(s[e], "IDLE_TIMEOUT", "remote"), <<EOF>>)
  BY <1>2 DEF RecvEof
<1>4. Reportable("IDLE_TIMEOUT")
  BY <1>2 DEF Reportable, Lasting, KeptAlive, Keeper
<1>5. /\ s'[e] = Over(s[e], "IDLE_TIMEOUT", "remote") /\ s'[p] = s[p]
      /\ UNCHANGED <<cfg, carrier>> /\ chan'[p] = Tail(chan[p])
      /\ chan'[e] = IF carrier = "up" THEN chan[e] \o <<EOF>> ELSE chan[e]
  BY <1>3, ReadsEffect
<1> QED BY <1>1, <1>4, <1>5, LastWord, EndsLasting

-----------------------------------------------------------------------------
(* Steps after which the carrier is not up.                                *)

\* One end changes, if at all, and reports what it reported or nothing that idles.
LEMMA DownLasting ==
  ASSUME IInv, Lasting, NEW e \in End, NEW z, s' = [s EXCEPT ![e] = z], UNCHANGED cfg,
         carrier' # "up",
         z.report = s[e].report \/ z.report[1] \notin {"IDLE_TIMEOUT", "ZMUX_IDLE_TIMEOUT"}
  PROVE  Lasting'
<1>1. \A d \in End : s'[d] = IF d = e THEN z ELSE s[d]
  BY DEF IInv, TypeOK
<1>2. \A d \in End : s'[d].report = s[d].report \/ Reportable(s'[d].report[1])
  BY <1>1 DEF Reportable
<1> QED BY <1>2, LastingStays

LEMMA HandshakeTimesOutLasting ==
  ASSUME IInv, Lasting, NEW e \in End, HandshakeTimesOut(e) PROVE Lasting'
<1> DEFINE z == Shut(s[e], "HANDSHAKE_TIMEOUT", "local")
<1>1. s' = [s EXCEPT ![e] = z] /\ UNCHANGED cfg /\ carrier' # "up"
  BY DEF HandshakeTimesOut, Shut
<1>2. z.report[1] = "HANDSHAKE_TIMEOUT"
  BY Here, OverFields
<1> HIDE DEF z
<1> QED BY <1>1, <1>2, DownLasting

LEMMA LingerEndsLasting == ASSUME IInv, Lasting, NEW e \in End, LingerEnds(e) PROVE Lasting'
<1> DEFINE z == [s[e] EXCEPT !.st = "closed", !.timer = 0]
<1>1. s' = [s EXCEPT ![e] = z] /\ UNCHANGED cfg /\ carrier' # "up"
  BY DEF LingerEnds
<1>2. z.report = s[e].report
  BY Here DEF Endpoint
<1> HIDE DEF z
<1> QED BY <1>1, <1>2, DownLasting

LEMMA CarrierErrorLasting == ASSUME IInv, Lasting, NEW e \in End, CarrierError(e) PROVE Lasting'
<1> DEFINE gone == Shut(s[e], "PIPES_LOST", "local")
           shut == [s[e] EXCEPT !.st = "closed", !.timer = 0]
           z == IF s[e].report = None THEN gone ELSE shut
<1>1. s' = [s EXCEPT ![e] = z] /\ UNCHANGED cfg /\ carrier' # "up"
  BY DEF CarrierError, Shut
<1>2. gone.report[1] = "PIPES_LOST" /\ shut.report = s[e].report
  BY Here, OverFields DEF Endpoint
<1>3. z = gone \/ z = shut
  OBVIOUS
<1> HIDE DEF z, gone, shut
<1> QED BY <1>1, <1>2, <1>3, DownLasting

LEMMA GiveUpLasting == ASSUME IInv, Lasting, NEW e \in End, GiveUp(e) PROVE Lasting'
<1> DEFINE z == [s[e] EXCEPT !.waits = FALSE]
<1>1. s' = [s EXCEPT ![e] = z] /\ UNCHANGED cfg /\ carrier' # "up"
  BY DEF GiveUp, Do
<1>2. z.report = s[e].report
  BY Here DEF Endpoint
<1> HIDE DEF z
<1> QED BY <1>1, <1>2, DownLasting

LEMMA StallCutLasting == ASSUME Lasting, Stall \/ Cut PROVE Lasting'
<1>1. UNCHANGED <<cfg, s>> /\ carrier' # "up"
  BY DEF Stall, Cut
<1> QED BY <1>1, LastingStays

LEMMA StutterLasting == ASSUME Lasting, UNCHANGED vars PROVE Lasting'
<1>1. UNCHANGED cfg /\ UNCHANGED s /\ UNCHANGED chan /\ UNCHANGED carrier
  BY DEF vars
<1>2. Lives => Lives'
  <2>1. Acks' = Acks
    BY <1>1 DEF Acks
  <2>2. \A d \in End : (Keeper(d)' <=> Keeper(d)) /\ Period(d)' = Period(d)
    BY <1>1 DEF Keeper, Period, Timeouts
  <2> QED BY <1>1, <2>1, <2>2 DEF Lives
<1> QED BY <1>1, <1>2, LastingStays DEF Lasting

-----------------------------------------------------------------------------
(* Time.                                                                   *)

\* While an end is open on a carrier that is up, no frame is due as time passes.
LEMMA NothingDue ==
  ASSUME IInv, Reasons, Lasting, Tick, carrier = "up", NEW e \in End, s[e].st = "open"
  PROVE  /\ s[Peer(e)].st # "closed"
         /\ \A i \in 1..Len(chan[e]) : chan[e][i].left # 0
         /\ \A i \in 1..Len(chan[Peer(e)]) : chan[Peer(e)][i].left # 0
<1>1. Peer(e) \in End /\ Peer(Peer(e)) = e
  BY Ends2
<1>2. s[Peer(e)].st # "closed"
  BY Bond DEF Past
<1>3. ASSUME NEW d \in End, s[Peer(d)].st # "closed", NEW i \in 1..Len(chan[d])
      PROVE  chan[d][i].left # 0
  <2> DEFINE q == chan[d]
  <2>1. Peer(d) \in End /\ Peer(Peer(d)) = d
    BY Ends2
  <2>2. q \in Seq(Message) /\ Sorted(q)
    BY Pair DEF Own
  <2>3. q # <<>> => Head(q).left # 0
    BY <1>3, <2>1, TickWaits
  <2>4. i \in 1..Len(q) /\ q[i] \in Message
    BY <1>3, <2>2, Older
  <2> HIDE DEF q
  <2>5. q # <<>> /\ 1 \in 1..Len(q) /\ Head(q) = q[1]
    <3>1. q # <<>>
      BY <2>2, <2>4
    <3> QED BY <2>2, <3>1, Shorter
  <2>6. q[1].left # 0 /\ q[1] \in Message
    BY <2>2, <2>3, <2>5, Older
  <2>7. q[1].left \in 0..Delay /\ q[i].left \in 0..Delay
    BY <2>4, <2>6 DEF Message
  <2>8. i = 1 \/ q[1].left <= q[i].left
    BY <2>2, <2>4, <2>5 DEF Sorted
  <2>9. q[i].left # 0
    BY <2>6, <2>7, <2>8, BoundAssumption
  <2> QED BY <2>9 DEF q
<1> QED BY <1>1, <1>2, <1>3

LEMMA SwiftLater ==
  ASSUME NEW acks, NEW x \in Endpoint, NEW q \in Seq(Message), Swift(acks, x, q),
         x.st = "open" => /\ ~x.ackDue /\ ~(x.owed > 0)
                          /\ \A i \in 1..Len(q) : q[i].left # 0
  PROVE  Swift(acks, Later(x), Aged(q))
<1>1. /\ Later(x).st = x.st /\ Later(x).waits = x.waits /\ Later(x).owed = x.owed
      /\ Later(x).kept = x.kept /\ Later(x).ackDue = x.ackDue
      /\ Later(x).timer \in {x.timer, x.timer + 1} /\ x.timer \in Nat
  BY LaterFields
<1>2. ASSUME x.st = "open", NEW i \in 1..Len(Aged(q)), Aged(q)[i].k \in Prompt(acks)
      PROVE  Aged(q)[i].left + Later(x).timer <= Delay
  <2>1. i \in 1..Len(q) /\ q[i].k \in Prompt(acks)
    BY <1>2, Older
  <2>2. q[i].left \in 1..Delay /\ Aged(q)[i].left = q[i].left - 1
    BY <1>2, <2>1, Nearer
  <2>3. q[i].left + x.timer <= Delay
    BY <1>2, <2>1 DEF Swift
  <2> QED BY <1>1, <2>2, <2>3, BoundAssumption
<1> QED BY <1>1, <1>2 DEF Swift

\* A keeper's next keep-alive is not due.
LEMMA KeeperLater ==
  ASSUME NEW P \in Nat, NEW x \in Endpoint, NEW y \in Endpoint,
         NEW q \in Seq(Message), NEW r \in Seq(Message),
         Kept(P, x, q, y, r), x.st = "open", ~(y.owed > 0), ~x.kept => x.timer < P,
         \A i \in 1..Len(q) : q[i].left # 0, \A i \in 1..Len(r) : r[i].left # 0
  PROVE  Kept(P, Later(x), Aged(q), Later(y), Aged(r))
<1> DEFINE b == P + 2 * Delay
           z == Later(x)
           u == Aged(q)
           v == Aged(r)
<1>1. /\ z.st = x.st /\ z.kept = x.kept /\ z.timer \in {x.timer, x.timer + 1} /\ x.timer \in Nat
      /\ Later(y).st = y.st
  BY LaterFields
<1>2. Delay \in Nat /\ b \in Nat
  BY BoundAssumption
<1>3. x.timer + Delay \in Nat /\ z.timer + Delay \in {x.timer + Delay, (x.timer + Delay) + 1}
  BY <1>1, <1>2
<1> HIDE DEF b, z, u, v
<1>4. Coming(q, {"PING"}, x.timer + Delay, b) => Coming(u, {"PING"}, z.timer + Delay, b)
  BY <1>2, <1>3, ComingLater DEF u
<1>5. Coming(r, {"PONG", "EOF"}, x.timer, b) => Coming(v, {"PONG", "EOF"}, z.timer, b)
  BY <1>1, <1>2, ComingLater DEF v
<1>6. ~x.kept => z.timer <= P
  BY <1>1
<1>7. x.kept => \/ y.st \notin Past /\ Coming(q, {"PING"}, x.timer + Delay, b)
                \/ Coming(r, {"PONG", "EOF"}, x.timer, b)
  BY DEF Kept, b
<1>8. Kept(P, z, u, Later(y), v)
  BY <1>1, <1>4, <1>5, <1>6, <1>7 DEF Kept, b
<1> QED BY <1>8 DEF z, u, v

\* The timers of two open ends advance together, and one that rests is not behind.
LEMMA FedLater ==
  ASSUME IInv, NEW P \in Nat, NEW x \in Endpoint, NEW y \in Endpoint,
         NEW q \in Seq(Message), NEW r \in Seq(Message),
         Fed(P, x, q, y, r), y.st = "open", x.st = "open" => ~x.ackDue /\ ~(x.owed > 0),
         \A i \in 1..Len(q) : q[i].left # 0, \A i \in 1..Len(r) : r[i].left # 0
  PROVE  Fed(P, Later(x), Aged(q), Later(y), Aged(r))
<1> DEFINE b == P + 2 * Delay
           z == Later(x)
           w == Later(y)
           u == Aged(q)
           v == Aged(r)
<1>1. /\ z.st = x.st /\ z.kept = x.kept /\ x.timer \in Nat
      /\ w.st = y.st /\ w.owed = y.owed /\ w.timer \in {y.timer, y.timer + 1} /\ y.timer \in Nat
      /\ x.st = "start" => z.timer = x.timer + 1
  BY LaterFields
<1>0. z.timer \in {x.timer, x.timer + 1}
  BY LaterFields
<1>2. Delay \in Nat /\ b \in Nat
  BY BoundAssumption
<1>3. ASSUME x.st = "open", y.timer <= x.timer + Delay PROVE w.timer <= z.timer + Delay
  <2>1. CASE Rests(y)
    <3>1. w.timer = y.timer
      BY <2>1, LaterFields
    <3> HIDE DEF z, w
    <3> QED BY <1>0, <1>1, <1>2, <1>3, <3>1
  <2>2. CASE ~Rests(y) /\ ~Rests(x)
    <3>1. z.timer = x.timer + 1 /\ w.timer = y.timer + 1
      BY <1>3, <2>2, LaterFields
    <3> HIDE DEF z, w
    <3> QED BY <1>1, <1>2, <1>3, <3>1
  <2>3. CASE ~Rests(y) /\ Rests(x)
    <3>1. PICK d \in End : ~(y.timer >= cfg[d].keepAlive)
      BY <2>3 DEF Rests
    <3>2. x.timer >= cfg[d].keepAlive /\ cfg[d].keepAlive \in Nat
      BY <2>3, Times DEF Rests
    <3> DEFINE k == cfg[d].keepAlive
    <3>3. k \in Nat /\ x.timer >= k /\ ~(y.timer >= k)
      BY <3>1, <3>2
    <3> HIDE DEF z, w, k
    <3>4. y.timer + 1 <= x.timer
      BY <3>3, <1>1
    <3>5. w.timer <= y.timer + 1 /\ w.timer \in Nat
      BY <1>1
    <3>6. x.timer <= z.timer /\ z.timer \in Nat
      BY <1>0, <1>1
    <3> QED BY <1>1, <1>2, <3>4, <3>5, <3>6
  <2> QED BY <2>1, <2>2, <2>3
<1> HIDE DEF b, z, w, u, v
<1>4. Coming(q, News, y.timer, b) => Coming(u, News, w.timer, b)
  BY <1>1, <1>2, ComingLater DEF u
<1>5. ~Without(r, "PONG") => ~Without(v, "PONG")
  BY ComingLater DEF v
<1>6. \/ Coming(q, News, y.timer, b)
      \/ x.st = "open" /\ ~x.kept /\ y.timer <= x.timer + Delay
      \/ x.st = "open" /\ x.kept /\ (y.owed > 0 \/ ~Without(r, "PONG"))
      \/ x.st = "start" /\ y.timer <= x.timer
  BY DEF Fed, b
<1>7. x.st = "start" /\ y.timer <= x.timer => w.timer <= z.timer
  BY <1>1
<1>8. Fed(P, z, u, w, v)
  BY <1>1, <1>3, <1>4, <1>5, <1>6, <1>7 DEF Fed, b
<1> QED BY <1>8 DEF z, w, u, v

LEMMA TickLasting == ASSUME IInv, Reasons, Lasting, Tick PROVE Lasting'
<1>1. /\ UNCHANGED cfg /\ UNCHANGED carrier
      /\ \A d \in End : s'[d] = Later(s[d]) /\ chan'[d] = Aged(chan[d])
  BY TickWaits DEF Tick
<1>2. ASSUME carrier = "up", NEW e \in End
      PROVE  LET x == s[e]
                 q == chan[e]
                 y == s[Peer(e)]
                 r == chan[Peer(e)]
                 P == Period(e)
             IN  /\ Swift(Acks, Later(x), Aged(q))
                 /\ Answerable(Later(x), Aged(q), Later(y), Aged(r))
                 /\ Keeper(e) => /\ Kept(P, Later(x), Aged(q), Later(y), Aged(r))
                                 /\ Fed(P, Later(x), Aged(q), Later(y), Aged(r))
  <2> DEFINE p == Peer(e)
             x == s[e]
             q == chan[e]
             y == s[p]
             r == chan[p]
             P == Period(e)
  <2>1. p \in End /\ Peer(p) = e
    BY Ends2
  <2>2. /\ x \in Endpoint /\ y \in Endpoint /\ q \in Seq(Message) /\ r \in Seq(Message)
        /\ Swift(Acks, x, q) /\ Swift(Acks, y, r) /\ Answerable(x, q, y, r) /\ P \in Nat
        /\ Keeper(e) => Kept(P, x, q, y, r) /\ Fed(P, x, q, y, r)
    BY <1>2, <2>1, Bond
  <2>3. /\ x.st = "open" => ~x.ackDue /\ ~(x.owed > 0)
        /\ y.st = "open" => ~y.ackDue /\ ~(y.owed > 0)
        /\ ~KeepAliveDue(e)
    BY <2>1, TickWaits
  <2>4. x.st = "open" \/ y.st = "open" =>
          (\A i \in 1..Len(q) : q[i].left # 0) /\ (\A i \in 1..Len(r) : r[i].left # 0)
    BY <1>2, <2>1, NothingDue
  <2>5. ~(y.owed > 0)
    BY <2>2, <2>3 DEF Swift
  <2>6. Keeper(e) /\ x.st = "open" /\ ~x.kept => x.timer < P
    <3>1. x.timer \in Nat
      BY <2>2, Fields
    <3> QED BY <2>2, <2>3, <3>1 DEF KeepAliveDue, Keeper
  <2>7. /\ Later(x).st = x.st /\ Later(x).waits = x.waits
        /\ Later(y).st = y.st /\ Later(y).owed = y.owed
    BY <2>2, LaterFields
  <2> HIDE DEF x, q, y, r, P, p
  <2>8. Swift(Acks, Later(x), Aged(q))
    BY <2>2, <2>3, <2>4, SwiftLater
  <2>9. Answerable(Later(x), Aged(q), Later(y), Aged(r))
    <3>1. ASSUME x.st = "open" PROVE /\ ~Without(q, "PING") => ~Without(Aged(q), "PING")
                                     /\ ~Without(r, "PONG") => ~Without(Aged(r), "PONG")
      BY <2>2, <2>4, <3>1, ComingLater
    <3> QED BY <2>2, <2>7, <3>1 DEF Answerable
  <2>10. Keeper(e) => Kept(P, Later(x), Aged(q), Later(y), Aged(r))
    <3>1. CASE x.st = "open"
      BY <2>2, <2>4, <2>5, <2>6, <3>1, KeeperLater
    <3>2. CASE x.st # "open"
      BY <2>7, <3>2 DEF Kept
    <3> QED BY <3>1, <3>2
  <2>11. Keeper(e) => Fed(P, Later(x), Aged(q), Later(y), Aged(r))
    <3>1. CASE y.st = "open"
      BY <2>2, <2>3, <2>4, <3>1, FedLater
    <3>2. CASE y.st # "open"
      BY <2>7, <3>2 DEF Fed
    <3> QED BY <3>1, <3>2
  <2> QED BY <2>8, <2>9, <2>10, <2>11 DEF x, q, y, r, P, p
<1>3. ASSUME carrier = "up" PROVE Lives'
  <2>1. PICK e \in End : Peer(e) \in End /\ Peer(Peer(e)) = e
    BY Ends2 DEF End
  <2>2. /\ s'[e] = Later(s[e]) /\ chan'[e] = Aged(chan[e])
        /\ s'[Peer(e)] = Later(s[Peer(e)]) /\ chan'[Peer(e)] = Aged(chan[Peer(e)])
    BY <1>1, <2>1
  <2> QED BY <1>1, <1>2, <1>3, <2>1, <2>2, Lived
<1>4. \A d \in End : s'[d].report = s[d].report
  BY <1>1, Here, LaterFields
<1> QED BY <1>1, <1>3, <1>4, LastingStays

-----------------------------------------------------------------------------
LEMMA InitLasting == Init => Lasting
<1> SUFFICES ASSUME Init PROVE Lasting
  OBVIOUS
<1>1. /\ s = [e \in End |-> New] /\ chan = [e \in End |-> <<>>]
  BY DEF Init
<1>2. /\ New.st = "new" /\ ~New.kept /\ ~New.waits /\ New.owed = 0
      /\ New.report[1] \notin {"IDLE_TIMEOUT", "ZMUX_IDLE_TIMEOUT"}
  <2>1. /\ New.st = "new" /\ New.report = None /\ New.owed = 0 /\ New.kept = FALSE
        /\ New.waits = FALSE
    BY DEF New
  <2>2. ~New.kept /\ ~New.waits
    BY ONLY <2>1
  <2> QED BY <2>1, <2>2 DEF None
<1>3. \A a : Swift(a, New, <<>>) /\ Answerable(New, <<>>, New, <<>>)
  BY <1>2 DEF Swift, Answerable
<1>4. \A P : Kept(P, New, <<>>, New, <<>>) /\ Fed(P, New, <<>>, New, <<>>)
  BY <1>2 DEF Kept, Fed
<1> QED BY <1>1, <1>2, <1>3, <1>4, Ends2 DEF Lasting, Lives, KeptAlive

LEMMA NextLasting == IInv /\ Pings /\ Reasons /\ Lasting /\ [Next]_vars => Lasting'
<1> SUFFICES ASSUME IInv, Pings, Reasons, Lasting, [Next]_vars PROVE Lasting'
  OBVIOUS
<1>1. CASE UNCHANGED vars \/ Ended
  BY <1>1, StutterLasting DEF Ended
<1>2. ASSUME NEW e \in End, Read(e) PROVE Lasting'
  BY <1>2, RecvParametersLasting, RecvFenceLasting, RecvEarlyLasting, RecvDataLasting,
     RecvAckLasting, RecvPingLasting, RecvPongLasting, RecvCloseLasting, RecvEofLasting,
     IgnoreLasting DEF Read
<1>3. ASSUME NEW e \in End, Timer(e) PROVE Lasting'
  BY <1>3, HandshakeTimesOutLasting, IdleTimeoutLasting, LingerEndsLasting DEF Timer
<1>4. ASSUME NEW e \in End,
             \/ Start(e) \/ Respond(e) \/ SendAck(e) \/ KeepAlive(e) \/ CarrierError(e)
             \/ SendData(e) \/ Ping(e) \/ GiveUp(e) \/ AppClose(e)
      PROVE  Lasting'
  BY <1>4, StartLasting, RespondLasting, SendAckLasting, KeepAliveLasting, CarrierErrorLasting,
     SendDataLasting, PingLasting, GiveUpLasting, AppCloseLasting
<1>5. CASE Stall \/ Cut \/ Tick
  BY <1>5, StallCutLasting, TickLasting
<1> QED BY <1>1, <1>2, <1>3, <1>4, <1>5 DEF Next

\* On a carrier that is up the frames a keeper causes come in time, at both ends.
THEOREM KeepAlivesLast == Spec => []Lasting
<1>1. Init => Lasting
  BY InitLasting
<1>2. IInv /\ Pings /\ Reasons /\ Lasting /\ [Next]_vars => Lasting'
  BY NextLasting
<1> QED BY <1>1, <1>2, Inductive, PingsAreSettled, ReasonsArrive, PTL DEF Spec

\* With keep-alive at either end no session idles out on a carrier that works.
THEOREM NobodyIdlesOut == Spec => []KeptAlive
<1>1. Lasting => KeptAlive
  BY DEF Lasting
<1> QED BY <1>1, KeepAlivesLast, PTL
=============================================================================
