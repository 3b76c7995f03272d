---------------------------- MODULE StatusProofs ----------------------------
(***************************************************************************)
(* Theorems about Status, for any number of pipes, settings, changes and    *)
(* suspicions.  The invariant compares M's record of what it stated with    *)
(* the frames under way and with what F has: a number is used once, so that *)
(* who has the last number has the last request.                            *)
(***************************************************************************)
EXTENDS Status, TLAPS

\* Nothing is said about a pipe before it is attached, but for the request in the join.
Quiet(p) ==
  out[p] \in {"none", "joining"} =>
    /\ seq[p] = 0
    /\ \A f \in flight : f.pipe # p

\* No frame and no state of F is ahead of M, and what has M's number is what M stated.
Behind(p) ==
  out[p] # "gone" =>
    /\ \A f \in flight : f.pipe = p => f.n <= seq[p] /\ (f.n = seq[p] => f.request = said[p])
    /\ att[p] # "gone" =>
         seen[p].n <= seq[p] /\ (seen[p].n = seq[p] => seen[p].request = said[p])

\* M has stated what it wants of every pipe that F has attached.
Stated(p) == Live(p) => said[p] = Wanted(p)

Inv == \A p \in Pipe : Quiet(p) /\ Behind(p) /\ Stated(p)

-----------------------------------------------------------------------------
(* What M wants is a request.                                              *)
LEMMA WantedIsRequest ==
  ASSUME conf \in [Pipe -> [standby : BOOLEAN, request : Request]], NEW p \in Pipe
  PROVE  Wanted(p) \in Request
<1>1. conf[p].request \in Request
  OBVIOUS
<1>2. [conf[p].request EXCEPT !.standby = FALSE] \in Request
  BY <1>1 DEF Request
<1> QED BY <1>1, <1>2 DEF Wanted

LEMMA DefaultIsRequest == Default \in Request
BY DEF Default, Request

\* What every step of M that ends with Settle does to out and conf.
MStep ==
  /\ out' \in [Pipe -> {"none", "joining", "active", "suspect", "gone"}]
  /\ conf' \in [Pipe -> [standby : BOOLEAN, request : Request]]
  /\ prob' \subseteq Pipe
  /\ \A p \in Pipe : /\ out'[p] \in {"none", "joining"} => out'[p] = out[p]
                     /\ out[p] = "gone" => out'[p] = "gone"
  /\ UNCHANGED <<att, seen, flight>>
  /\ trouble' \in 0..MaxTrouble

LEMMA SettleTypes ==
  ASSUME TypeOK, MStep, NEW taking \in SUBSET Pipe, NEW lost, Settle(taking, lost)
  PROVE  TypeOK'
<1>1. over' \subseteq Pipe
  BY DEF Settle, TakenOver, TypeOK
<1>2. \A p \in Pipe : Wanted(p)' \in Request
  <2> TAKE p \in Pipe
  <2>1. conf'[p].request \in Request
    BY DEF MStep
  <2>2. [conf'[p].request EXCEPT !.standby = FALSE] \in Request
    BY <2>1 DEF Request
  <2> QED BY <2>1, <2>2 DEF Wanted
<1>3. said' \in [Pipe -> Request] /\ seq' \in [Pipe -> Nat] /\ via' \in [Pipe -> Pipe \union {Nowhere}]
  BY <1>2 DEF Settle, TypeOK
<1> QED BY <1>1, <1>3 DEF MStep, TypeOK

\* Settling keeps the invariant: a new request has a new number.
LEMMA SettleKeepsInv ==
  ASSUME TypeOK, Inv, MStep, NEW taking \in SUBSET Pipe, NEW lost, Settle(taking, lost)
  PROVE  Inv'
<1> SUFFICES ASSUME NEW p \in Pipe
             PROVE  Quiet(p)' /\ Behind(p)' /\ Stated(p)'
  BY DEF Inv
<1>1. Quiet(p) /\ Behind(p) /\ Stated(p)
  BY DEF Inv
<1>2. seq[p] \in Nat /\ seen[p].n \in Nat /\ \A f \in flight : f.n \in Nat
  BY DEF TypeOK, Frame
<1>3. /\ said'[p] = IF p \in Restated \/ out'[p] = "gone" THEN Wanted(p)' ELSE said[p]
      /\ seq'[p] = IF p \in Restated THEN seq[p] + 1 ELSE IF out'[p] = "gone" THEN 0 ELSE seq[p]
  BY DEF Settle
<1>4. att' = att /\ seen' = seen /\ flight' = flight
  BY DEF MStep
<1>5. CASE out'[p] = "gone"
  BY <1>5 DEF Quiet, Behind, Stated, Live
<1>6. CASE out'[p] \in {"none", "joining"}
  <2>1. p \notin Restated /\ out'[p] = out[p]
    BY <1>6 DEF Restated, Live, MStep
  <2>2. said'[p] = said[p] /\ seq'[p] = seq[p]
    BY <2>1, <1>3, <1>6
  <2> QED BY <1>1, <1>4, <1>6, <2>1, <2>2 DEF Quiet, Behind, Stated, Live
<1>7. CASE p \in Restated
  <2>1. Live(p)' /\ said'[p] = Wanted(p)' /\ seq'[p] = seq[p] + 1
    BY <1>3, <1>7 DEF Restated
  <2>2. out'[p] \notin {"none", "joining", "gone"} /\ out[p] # "gone"
    BY <2>1 DEF Live, MStep
  <2> QED BY <1>1, <1>2, <1>4, <2>1, <2>2 DEF Quiet, Behind, Stated
<1>8. CASE p \notin Restated /\ Live(p)'
  <2>1. said[p] = Wanted(p)' /\ said'[p] = said[p] /\ seq'[p] = seq[p]
    BY <1>3, <1>8 DEF Restated, Live
  <2>2. out'[p] \notin {"none", "joining", "gone"} /\ out[p] # "gone"
    BY <1>8 DEF Live, MStep
  <2> QED BY <1>1, <1>4, <2>1, <2>2 DEF Quiet, Behind, Stated
<1> QED BY <1>5, <1>6, <1>7, <1>8 DEF MStep, Live

\* The steps of M that settle.
MAct(p) ==
  \/ \E x \in Setting : SetPipeStatus(p, x) \/ Accept(p, x)
  \/ Confirm(p) \/ ProbationEnds(p) \/ TakeOver(p) \/ Suspect(p) \/ Return(p) \/ Fail(p)

LEMMA ActSettles ==
  ASSUME TypeOK, NEW p \in Pipe, MAct(p)
  PROVE  MStep /\ \E taking \in SUBSET Pipe, lost \in SUBSET Pipe : Settle(taking, lost)
<1> USE SettingAssumption, BoundAssumption, DefaultIsRequest
<1>1. ASSUME NEW x \in Setting, SetPipeStatus(p, x)
      PROVE  MStep /\ Settle({}, {})
  BY <1>1 DEF SetPipeStatus, MStep, TypeOK
<1>2. ASSUME NEW x \in Setting, Accept(p, x)
      PROVE  MStep /\ Settle({}, {})
  BY <1>2 DEF Accept, MStep, TypeOK
<1>3. CASE Confirm(p)
  BY <1>3 DEF Confirm, MStep, TypeOK
<1>4. CASE ProbationEnds(p)
  BY <1>4 DEF ProbationEnds, MStep, TypeOK
<1>5. CASE TakeOver(p)
  BY <1>5 DEF TakeOver, MStep, TypeOK
<1>6. CASE Suspect(p)
  <2>1. trouble' \in 0..MaxTrouble
    BY <1>6 DEF Suspect, TypeOK
  <2> QED BY <1>6, <2>1 DEF Suspect, MStep, TypeOK
<1>7. CASE Return(p)
  BY <1>7 DEF Return, MStep, TypeOK
<1>8. CASE Fail(p)
  BY <1>8 DEF Fail, MStep, TypeOK
<1> QED BY <1>1, <1>2, <1>3, <1>4, <1>5, <1>6, <1>7, <1>8 DEF MAct

-----------------------------------------------------------------------------
(* The other steps, one by one.                                            *)
LEMMA JoinKeeps ==
  ASSUME TypeOK, Inv, NEW p \in Pipe, NEW x \in Setting, Join(p, x)
  PROVE  TypeOK' /\ Inv'
<1>0. x \in [standby : BOOLEAN, request : Request] /\ x.request \in Request
  BY SettingAssumption
<1>1. TypeOK'
  BY <1>0 DEF Join, TypeOK
<1>2. ASSUME NEW q \in Pipe
      PROVE  Quiet(q)' /\ Behind(q)' /\ Stated(q)'
  <2>1. Quiet(q) /\ Behind(q) /\ Stated(q)
    BY DEF Inv
  <2>2. CASE q = p
    BY <2>1, <2>2 DEF Join, TypeOK, Quiet, Behind, Stated, Live
  <2>3. CASE q # p
    <3>1. /\ out'[q] = out[q] /\ conf'[q] = conf[q] /\ said'[q] = said[q] /\ seen'[q] = seen[q]
          /\ UNCHANGED <<over, seq, att, flight>>
      BY <2>3 DEF Join, TypeOK
    <3> QED BY <2>1, <3>1 DEF Quiet, Behind, Stated, Live, Wanted
  <2> QED BY <2>2, <2>3
<1> QED BY <1>1, <1>2 DEF Inv

LEMMA SendKeeps ==
  ASSUME TypeOK, Inv, NEW p \in Pipe, NEW q \in Pipe, Send(p, q)
  PROVE  TypeOK' /\ Inv'
<1> DEFINE f0 == [pipe |-> p, n |-> seq[p], request |-> said[p], on |-> q]
<1>0. /\ Live(p) /\ flight' = flight \union {f0} /\ via' = [via EXCEPT ![p] = q]
      /\ UNCHANGED <<out, prob, conf, over, said, seq, att, seen, trouble>>
  BY DEF Send, fvars
<1>1. f0 \in Frame
  BY DEF Frame, TypeOK
<1>2. TypeOK'
  BY <1>0, <1>1 DEF TypeOK
<1>3. ASSUME NEW r \in Pipe
      PROVE  Quiet(r)' /\ Behind(r)' /\ Stated(r)'
  <2>1. Quiet(r) /\ Behind(r) /\ Stated(r)
    BY DEF Inv
  <2>2. Stated(r)'
    BY <1>0, <2>1 DEF Stated, Live, Wanted
  <2>3. f0.pipe = p /\ f0.n = seq[p] /\ f0.request = said[p] /\ seq[p] \in Nat
    BY DEF TypeOK
  <2>4. Quiet(r)'
    BY <1>0, <2>1, <2>3 DEF Quiet, Live
  <2>5. Behind(r)'
    BY <1>0, <2>1, <2>3 DEF Behind
  <2> QED BY <2>2, <2>4, <2>5
<1> QED BY <1>2, <1>3 DEF Inv

LEMMA PeerKeeps ==
  ASSUME TypeOK, Inv, NEW p \in Pipe, JoinByPeer(p) \/ AcceptAtPeer(p) \/ FailAtPeer(p)
  PROVE  TypeOK' /\ Inv'
<1>1. TypeOK'
  <2>1. /\ att' = [att EXCEPT ![p] = "live"] \/ att' = [att EXCEPT ![p] = "gone"]
        /\ seen' = seen \/ seen' = [seen EXCEPT ![p] = [n |-> 0, request |-> Default]]
        /\ flight' \subseteq flight
        /\ UNCHANGED <<out, prob, conf, over, said, seq, via, trouble>>
    BY DEF JoinByPeer, AcceptAtPeer, FailAtPeer, mvars
  <2>2. att' \in [Pipe -> {"none", "live", "gone"}]
    BY <2>1 DEF TypeOK
  <2>3. [n |-> 0, request |-> Default] \in [n : Nat, request : Request]
    BY DefaultIsRequest
  <2>4. seen' \in [Pipe -> [n : Nat, request : Request]]
    BY <2>1, <2>3 DEF TypeOK
  <2> QED BY <2>1, <2>2, <2>4 DEF TypeOK
<1>2. UNCHANGED <<out, prob, conf, over, said, seq, via>> /\ flight' \subseteq flight
  BY DEF JoinByPeer, AcceptAtPeer, FailAtPeer, mvars
<1>3. ASSUME NEW q \in Pipe
      PROVE  Quiet(q)' /\ Behind(q)' /\ Stated(q)'
  <2>1. Quiet(q) /\ Behind(q) /\ Stated(q)
    BY DEF Inv
  <2>2. Stated(q)'
    BY <1>2, <2>1 DEF Stated, Live, Wanted
  <2>3. CASE JoinByPeer(p) \/ AcceptAtPeer(p)
    <3>1. seen' = seen /\ flight' = flight /\ (att'[q] # "gone" => att[q] # "gone")
      BY <2>3 DEF JoinByPeer, AcceptAtPeer, TypeOK
    <3> QED BY <1>2, <2>1, <2>2, <3>1 DEF Quiet, Behind
  <2>4. CASE FailAtPeer(p)
    <3>1. CASE q = p
      <4>1. att'[p] = "gone"
        BY <2>4 DEF FailAtPeer, TypeOK
      <4>2. Quiet(p)'
        BY <1>2, <2>1, <2>4, <3>1 DEF Quiet, FailAtPeer, TypeOK
      <4> QED BY <1>2, <2>1, <2>2, <3>1, <4>1, <4>2 DEF Behind
    <3>2. CASE q # p
      <4>1. seen'[q] = seen[q] /\ att'[q] = att[q]
        BY <2>4, <3>2 DEF FailAtPeer, TypeOK
      <4> QED BY <1>2, <2>1, <2>2, <4>1 DEF Quiet, Behind
    <3> QED BY <3>1, <3>2
  <2> QED BY <2>3, <2>4
<1> QED BY <1>1, <1>3 DEF Inv

LEMMA RecvKeeps ==
  ASSUME TypeOK, Inv, NEW f \in flight, Recv(f)
  PROVE  TypeOK' /\ Inv'
<1>0. f.pipe \in Pipe /\ f.n \in Nat /\ f.request \in Request
  BY DEF TypeOK, Frame
<1>1. /\ flight' = flight \ {f} /\ UNCHANGED <<out, prob, conf, over, said, seq, via, att, trouble>>
      /\ \/ seen' = seen
         \/ seen' = [seen EXCEPT ![f.pipe] = [n |-> f.n, request |-> f.request]]
  BY DEF Recv, mvars
<1>2. TypeOK'
  BY <1>0, <1>1 DEF TypeOK
<1>3. ASSUME NEW q \in Pipe
      PROVE  Quiet(q)' /\ Behind(q)' /\ Stated(q)'
  <2>1. Quiet(q) /\ Behind(q) /\ Stated(q)
    BY DEF Inv
  <2>2. Stated(q)'
    BY <1>1, <2>1 DEF Stated, Live, Wanted
  <2>3. \/ seen'[q] = seen[q]
        \/ q = f.pipe /\ seen'[q].n = f.n /\ seen'[q].request = f.request
    BY <1>0, <1>1 DEF TypeOK
  <2> QED BY <1>1, <2>1, <2>2, <2>3 DEF Quiet, Behind
<1> QED BY <1>2, <1>3 DEF Inv

-----------------------------------------------------------------------------
LEMMA InitHolds == Init => TypeOK /\ Inv
<1> SUFFICES ASSUME Init PROVE TypeOK /\ Inv
  OBVIOUS
<1>1. TypeOK
  BY PipeAssumption, BoundAssumption, DefaultIsRequest DEF Init, TypeOK
<1>2. ASSUME NEW p \in Pipe
      PROVE  Quiet(p) /\ Behind(p) /\ Stated(p)
  BY DEF Init, Quiet, Behind, Stated, Live, Wanted
<1> QED BY <1>1, <1>2 DEF Inv

LEMMA StepKeeps == TypeOK /\ Inv /\ [Next]_vars => TypeOK' /\ Inv'
<1> SUFFICES ASSUME TypeOK, Inv, [Next]_vars PROVE TypeOK' /\ Inv'
  OBVIOUS
<1>1. CASE UNCHANGED vars
  BY <1>1 DEF vars, mvars, fvars, TypeOK, Inv, Quiet, Behind, Stated, Live, Wanted
<1>2. ASSUME NEW p \in Pipe, MAct(p)
      PROVE  TypeOK' /\ Inv'
  BY <1>2, ActSettles, SettleTypes, SettleKeepsInv
<1>3. ASSUME NEW p \in Pipe, \/ \E x \in Setting : Join(p, x)
                            \/ \E q \in Pipe : Send(p, q)
                            \/ JoinByPeer(p) \/ AcceptAtPeer(p) \/ FailAtPeer(p)
      PROVE  TypeOK' /\ Inv'
  BY <1>3, JoinKeeps, SendKeeps, PeerKeeps
<1>4. ASSUME NEW f \in flight, Recv(f)
      PROVE  TypeOK' /\ Inv'
  BY <1>4, RecvKeeps
<1> QED BY <1>1, <1>2, <1>3, <1>4 DEF Next, MAct

LEMMA InvariantHolds == Spec => [](TypeOK /\ Inv)
BY InitHolds, StepKeeps, PTL DEF Spec

\* The type invariant.
THEOREM TypeCorrect == Spec => []TypeOK
BY InvariantHolds, PTL

\* Whatever order requests, takeovers, restorations and joins arrive in, and whatever pipes
\* they are lost with, F uses a pipe as M wants now as soon as it has the last number.
THEOREM RequestsAgree == Spec => []Agreed
<1>1. Inv => Agreed
  BY DEF Inv, Behind, Stated, Agreed, Live
<1> QED BY <1>1, InvariantHolds, PTL
=============================================================================
