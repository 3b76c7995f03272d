--------------------------- MODULE FailoverProofs ---------------------------
(***************************************************************************)
(* Proofs about Failover, for every set of pipes, number of chunks, fate   *)
(* groups and bounds.  The invariant IInv is proved in two layers: Base    *)
(* orders what was acknowledged, applied and sent, and the second layer    *)
(* says where each chunk is.  Refinement and removal follow from them.     *)
(***************************************************************************)
EXTENDS Failover, TLAPS

\* Reinjection changes the queue and the marks only, and keeps their types.
LEMMA ReinjectType ==
  ASSUME TypeOK, NEW S, Reinject(S)
  PROVE  lost' \in SUBSET Chunk /\ reinj' \in [Pipe -> Nat]
<1>1. \A p \in Pipe : Len(log[p]) \in Nat
  BY DEF TypeOK
<1> QED
  BY <1>1 DEF Reinject, TypeOK

\* Probing appends control frames to some logs.
LEMMA ProbeType ==
  ASSUME TypeOK, NEW S, Probe(S)
  PROVE  log' \in [Pipe -> Seq(Frame)]
<1>1. Control \in Frame
  BY NAssumption DEF Control, Frame
<1>2. \A p \in Pipe : log[p] \in Seq(Frame)
  BY DEF TypeOK
<1> QED
  BY <1>1, <1>2 DEF Probe

\* The failure of a pipe, from whatever cause, keeps every variable's type.
LEMMA FailType ==
  ASSUME TypeOK, NEW p \in Pipe, NEW spread, FailPipe(p, spread)
  PROVE  TypeOK'
<1> DEFINE mates == IF spread THEN Mates(p) ELSE {}
           sus   == {q \in mates : Outstanding(q)}
<1>1. /\ Reinject({p} \union sus)
      /\ Probe(mates)
      /\ pst' = [q \in Pipe |-> IF q = p THEN "FAILED"
                                ELSE IF q \in sus THEN "SUSPECT" ELSE pst[q]]
      /\ rev' = [rev EXCEPT ![p] = <<>>]
      /\ UNCHANGED <<acked, next, exch, fatal, spurious, cut, rvars>>
  BY DEF FailPipe
<1> HIDE DEF mates, sus
<1>2. lost' \in SUBSET Chunk /\ reinj' \in [Pipe -> Nat]
  BY <1>1, ReinjectType
<1>3. log' \in [Pipe -> Seq(Frame)]
  BY <1>1, ProbeType
<1>4. pst' \in [Pipe -> OutState]
  BY <1>1 DEF TypeOK, OutState
<1>5. rev' \in [Pipe -> Seq([Pipe -> Nat])]
  BY <1>1 DEF TypeOK
<1> QED
  BY <1>1, <1>2, <1>3, <1>4, <1>5 DEF TypeOK, rvars

FailStep(p) == \/ CarrierError(p) \/ JoinTimeout(p) \/ StallFail(p) \/ DeadTimeout(p)
               \/ RemoveAbrupt(p) \/ DrainDeadline(p) \/ RecvAbandonError(p)

\* Each of the seven ways a pipe fails is FailPipe on a live pipe.
LEMMA FailStepIsFail ==
  ASSUME NEW p \in Pipe, FailStep(p)
  PROVE  \E spread \in BOOLEAN : p \in Live /\ FailPipe(p, spread)
  BY DEF FailStep, CarrierError, JoinTimeout, StallFail, DeadTimeout, RemoveAbrupt,
         DrainDeadline, RecvAbandonError, Live, LiveState

\* The initial state has the right types (one live pipe, nothing sent).
LEMMA TypeInit == Init => TypeOK
<1> SUFFICES ASSUME Init PROVE TypeOK
  OBVIOUS
<1>1. log \in [Pipe -> Seq(Frame)] /\ rev \in [Pipe -> Seq([Pipe -> Nat])]
  BY DEF Init
<1>2. acked \in [Pipe -> Nat] /\ reinj \in [Pipe -> Nat] /\ rpos \in [Pipe -> Nat]
  BY DEF Init
<1>3. pst \in [Pipe -> OutState] /\ rst \in [Pipe -> InState] /\ pab \in [Pipe -> Abandon]
  BY DEF Init, OutState, InState, Abandon
<1>4. next \in 0..N /\ read \in 0..N /\ spurious \in Nat
  BY NAssumption DEF Init
<1> QED
  BY <1>1, <1>2, <1>3, <1>4 DEF Init, TypeOK

\* Every step keeps every variable's type.
LEMMA TypeStep == TypeOK /\ [Next]_vars => TypeOK'
<1> SUFFICES ASSUME TypeOK, [Next]_vars
             PROVE  TypeOK'
  OBVIOUS
<1> USE NAssumption
<1>0. ASSUME NEW p \in Pipe
      PROVE  log[p] \in Seq(Frame) /\ Len(log[p]) \in Nat
  BY DEF TypeOK
<1>1. ASSUME NEW p \in Pipe, Join(p) PROVE TypeOK'
  BY <1>0, <1>1 DEF Join, TypeOK, OutState, Frame, Control, cvars, rvars
<1>2. ASSUME NEW p \in Pipe, SendNew(p) PROVE TypeOK'
  BY <1>0, <1>2 DEF SendNew, TypeOK, Frame, cvars, rvars
<1>3. ASSUME NEW p \in Pipe, NEW c \in Chunk, ReSend(c, p) PROVE TypeOK'
  BY <1>0, <1>3 DEF ReSend, TypeOK, Frame, Chunk, cvars, rvars
<1>4. ASSUME NEW p \in Pipe, Suspect(p) PROVE TypeOK'
  <2>1. lost' \in SUBSET Chunk /\ reinj' \in [Pipe -> Nat]
    BY <1>4, ReinjectType DEF Suspect
  <2>2. log' \in [Pipe -> Seq(Frame)]
    BY <1>4, ProbeType DEF Suspect
  <2>3. spurious' = spurious \/ spurious' = spurious + 1
    BY <1>4 DEF Suspect
  <2>4. spurious' \in Nat
    BY <2>3 DEF TypeOK
  <2> QED
    BY <1>4, <2>1, <2>2, <2>4 DEF Suspect, TypeOK, OutState, cvars, rvars
<1>5. ASSUME NEW p \in Pipe, MarkDraining(p) PROVE TypeOK'
  <2>1. lost' \in SUBSET Chunk /\ reinj' \in [Pipe -> Nat]
    BY <1>5, ReinjectType DEF MarkDraining
  <2> QED
    BY <1>5, <2>1 DEF MarkDraining, TypeOK, cvars, rvars
<1>6. ASSUME NEW q \in Pipe, RecvAck(q) PROVE TypeOK'
  <2> DEFINE pos   == Head(rev[q])
             ahead == \E p \in Pipe : pos[p] > Len(log[p])
             new   == [p \in Pipe |-> IF ~ahead /\ pos[p] > acked[p] THEN pos[p] ELSE acked[p]]
  <2>1. pos \in [Pipe -> Nat] /\ Tail(rev[q]) \in Seq([Pipe -> Nat])
    BY <1>6 DEF RecvAck, TypeOK
  <2>2. new \in [Pipe -> Nat]
    BY <2>1 DEF TypeOK
  <2>3. acked' = new /\ fatal' = ahead /\ lost' \subseteq lost
    BY <1>6 DEF RecvAck
  <2>4. pst' \in [Pipe -> OutState]
    BY <1>6 DEF RecvAck, TypeOK, OutState
  <2>5. ahead \in BOOLEAN
    OBVIOUS
  <2> HIDE DEF new, ahead, pos
  <2>6. rev' \in [Pipe -> Seq([Pipe -> Nat])]
    BY <1>6, <2>1 DEF RecvAck, TypeOK, pos
  <2> QED
    BY <1>6, <2>2, <2>3, <2>4, <2>5, <2>6 DEF RecvAck, TypeOK, rvars
<1>7. ASSUME NEW p \in Pipe, FailStep(p) PROVE TypeOK'
  BY <1>7, FailStepIsFail, FailType
<1>8. ASSUME NEW p \in Pipe, Remove(p) PROVE TypeOK'
  BY <1>8 DEF Remove, TypeOK, OutState, cvars, rvars
<1>9. ASSUME NEW p \in Pipe, RecvAbandon(p) PROVE TypeOK'
  BY <1>9 DEF RecvAbandon, TypeOK, OutState, cvars, rvars
<1>10. ASSUME NEW p \in Pipe, Cut(p) PROVE TypeOK'
  BY <1>10 DEF Cut, TypeOK, svars, rvars
<1>11. ASSUME NEW p \in Pipe, Apply(p) PROVE TypeOK'
  <2>1. log[p][rpos[p] + 1] \in Frame
    BY <1>0, <1>11 DEF Apply, TypeOK
  <2>2. {log[p][rpos[p] + 1]} \ {Control} \subseteq Chunk
    BY <2>1 DEF Frame, Chunk, Control
  <2> QED
    BY <1>11, <2>2 DEF Apply, TypeOK, InState, svars, cvars
<1>12. CASE Read
  BY <1>12 DEF Read, TypeOK, Chunk, svars, cvars
<1>13. ASSUME NEW Q \in AckPipes, SendAck(Q) PROVE TypeOK'
  <2>1. ASSUME NEW q \in Pipe PROVE Append(rev[q], rpos) \in Seq([Pipe -> Nat])
    BY DEF TypeOK
  <2>2. rev' \in [Pipe -> Seq([Pipe -> Nat])]
    BY <1>13, <2>1 DEF SendAck, TypeOK
  <2> QED
    BY <1>13, <2>2 DEF SendAck, TypeOK, svars
<1>14. ASSUME NEW p \in Pipe, EndInbound(p) PROVE TypeOK'
  BY <1>14 DEF EndInbound, TypeOK, InState, Abandon, svars, cvars
<1>15. ASSUME NEW p \in Pipe, SendAbandon(p) PROVE TypeOK'
  BY <1>15 DEF SendAbandon, TypeOK, Abandon, svars, cvars
<1>16. ASSUME NEW p \in Pipe, AnswerUnseen(p) PROVE TypeOK'
  BY <1>16 DEF AnswerUnseen, TypeOK, InState, Abandon, svars
<1>17. ASSUME NEW p \in Pipe, NEW code \in {"failed", "limit"}, AbandonError(p, code)
       PROVE  TypeOK'
  BY <1>17 DEF AbandonError, TypeOK, InState, Abandon, svars
<1>18. CASE UNCHANGED vars
  BY <1>18 DEF TypeOK, vars, svars, cvars, rvars
<1> QED
  BY <1>1, <1>2, <1>3, <1>4, <1>5, <1>6, <1>7, <1>8, <1>9, <1>10, <1>11, <1>12, <1>13,
     <1>14, <1>15, <1>16, <1>17, <1>18
  DEF Next, SenderStep, ReceiverStep, FailStep, Over

\* Every variable has its type in every reachable state, for any set of pipes and
\* any number of chunks.
THEOREM TypeCorrect == Spec => []TypeOK
  BY TypeInit, TypeStep, PTL DEF Spec

-----------------------------------------------------------------------------
(* The logs only grow, by one record at a time.                            *)

Extends(p) == \/ log'[p] = log[p]
              \/ \E f \in Frame : log'[p] = Append(log[p], f)

\* Appending keeps the earlier records in place.
LEMMA ExtendsKeeps ==
  ASSUME TypeOK, NEW p \in Pipe, Extends(p)
  PROVE  /\ Len(log[p]) \in Nat /\ Len(log'[p]) \in Nat
         /\ Len(log[p]) <= Len(log'[p]) /\ Len(log'[p]) <= Len(log[p]) + 1
         /\ \A i \in 1..Len(log[p]) : log'[p][i] = log[p][i]
<1>1. log[p] \in Seq(Frame) /\ Len(log[p]) \in Nat
  BY DEF TypeOK
<1>2. CASE log'[p] = log[p]
  BY <1>1, <1>2
<1>3. ASSUME NEW f \in Frame, log'[p] = Append(log[p], f)
      PROVE  /\ Len(log'[p]) = Len(log[p]) + 1
             /\ \A i \in 1..Len(log[p]) : log'[p][i] = log[p][i]
  BY <1>1, <1>3
<1> QED
  BY <1>1, <1>2, <1>3 DEF Extends

\* A probe appends at most one control record to a log.
LEMMA ProbeExtends ==
  ASSUME TypeOK, NEW S, Probe(S), NEW p \in Pipe
  PROVE  log'[p] = log[p] \/ log'[p] = Append(log[p], Control)
BY DEF Probe

\* A control record is one of the frames a log may hold.
LEMMA ControlIsFrame == Control \in Frame
BY NAssumption DEF Control, Frame

-----------------------------------------------------------------------------
(* The first layer: positions, snapshots, and what was applied.            *)

Base == /\ TypeOK
        /\ PositionsOrdered
        /\ SnapshotsBehind
        /\ CountedIsApplied
        /\ OnlySent
        /\ NoFalseAlarm

\* What the sender's steps other than RecvAck have in common.
Sends == /\ TypeOK'
         /\ acked' = acked /\ fatal' = fatal /\ rvars' = rvars
         /\ next <= next'
         /\ lost' \subseteq 1..next'
         /\ \A q \in Pipe : rev'[q] = rev[q] \/ rev'[q] = <<>>
         /\ \A p \in Pipe : /\ Extends(p)
                            /\ reinj'[p] <= Len(log'[p])
                            /\ \A i \in 1..Len(log'[p]) : log'[p][i] <= next'

\* A step of that kind keeps the first layer.
LEMMA SendsKeepsBase == Base /\ Sends => Base'
<1> SUFFICES ASSUME Base, Sends PROVE Base'
  OBVIOUS
<1>1. TypeOK /\ TypeOK' /\ rpos' = rpos /\ got' = got /\ read' = read
  BY DEF Base, Sends, rvars
<1>2. \A p \in Pipe : /\ Len(log[p]) \in Nat /\ Len(log'[p]) \in Nat
                     /\ Len(log[p]) <= Len(log'[p])
                     /\ \A i \in 1..Len(log[p]) : log'[p][i] = log[p][i]
  BY <1>1, ExtendsKeeps DEF Sends
<1>3. PositionsOrdered'
  BY <1>1, <1>2 DEF Base, Sends, PositionsOrdered, TypeOK
<1>4. SnapshotsBehind'
  <2> SUFFICES ASSUME NEW q \in Pipe, NEW i \in 1..Len(rev'[q]), NEW p \in Pipe
               PROVE  rev'[q][i][p] <= rpos'[p]
    BY DEF SnapshotsBehind
  <2>1. CASE rev'[q] = rev[q]
    BY <1>1, <2>1 DEF Base, SnapshotsBehind
  <2>2. CASE rev'[q] = <<>>
    BY <2>2
  <2> QED
    BY <2>1, <2>2 DEF Sends
<1>5. CountedIsApplied'
  <2> SUFFICES ASSUME NEW p \in Pipe, NEW i \in 1..rpos'[p], log'[p][i] # Control
               PROVE  log'[p][i] \in got'
    BY DEF CountedIsApplied
  <2>1. i \in 1..rpos[p] /\ i \in 1..Len(log[p])
    BY <1>1, <1>2 DEF Base, PositionsOrdered, TypeOK
  <2> QED
    BY <1>1, <1>2, <2>1 DEF Base, CountedIsApplied
<1>6. OnlySent'
  BY <1>1 DEF Base, Sends, OnlySent, TypeOK, Chunk
<1>7. NoFalseAlarm'
  BY DEF Base, Sends, NoFalseAlarm
<1> QED
  BY <1>1, <1>3, <1>4, <1>5, <1>6, <1>7 DEF Base

\* Reinjection queues only chunks that were sent, and marks no further than the log.
LEMMA ReinjectSends ==
  ASSUME Base, NEW S \in SUBSET Pipe, Reinject(S)
  PROVE  /\ lost' \subseteq 1..next
         /\ \A p \in Pipe : reinj'[p] <= Len(log[p])
<1>1. \A p \in Pipe : Len(log[p]) \in Nat /\ reinj[p] <= Len(log[p])
  BY DEF Base, TypeOK, PositionsOrdered
<1>2. \A p \in Pipe : reinj'[p] <= Len(log[p])
  BY <1>1 DEF Reinject
<1>3. ASSUME NEW c \in lost' PROVE c \in 1..next
  <2>1. CASE c \in lost
    BY <2>1 DEF Base, OnlySent
  <2>2. CASE c \notin lost
    <3>1. PICK p \in S : c \in Chunk /\ Holds(p, c)
      BY <1>3, <2>2 DEF Reinject
    <3>2. PICK i \in 1..Len(log[p]) : log[p][i] = c
      BY <3>1 DEF Holds
    <3>3. c <= next
      BY <3>2 DEF Base, OnlySent
    <3> QED
      BY <3>1, <3>3 DEF Base, TypeOK, Chunk
  <2> QED
    BY <2>1, <2>2
<1> QED
  BY <1>2, <1>3

\* Records appended by a probe are at most next.
LEMMA ProbeSends ==
  ASSUME Base, NEW S, Probe(S), NEW p \in Pipe
  PROVE  /\ Extends(p)
         /\ Len(log[p]) \in Nat /\ Len(log'[p]) \in Nat /\ Len(log[p]) <= Len(log'[p])
         /\ \A i \in 1..Len(log'[p]) : log'[p][i] <= next
<1>1. TypeOK /\ log[p] \in Seq(Frame) /\ Len(log[p]) \in Nat /\ next \in Nat
  BY DEF Base, TypeOK
<1>2. \A i \in 1..Len(log[p]) : log[p][i] <= next
  BY DEF Base, OnlySent
<1>3. CASE log'[p] = log[p]
  BY <1>1, <1>2, <1>3 DEF Extends
<1>4. CASE log'[p] = Append(log[p], Control)
  <2>1. Extends(p)
    BY <1>4, ControlIsFrame DEF Extends
  <2>2. ASSUME NEW i \in 1..Len(log'[p]) PROVE log'[p][i] <= next
    <3>1. i \in 1..Len(log[p]) \/ log'[p][i] = 0
      BY <1>1, <1>4 DEF Control
    <3> QED
      BY <1>1, <1>2, <1>4, <3>1, <2>1, ExtendsKeeps
  <2> QED
    BY <1>1, <2>1, <2>2, ExtendsKeeps
<1> QED
  BY <1>1, <1>3, <1>4, ProbeExtends

\* One record appended to one log.
LEMMA AppendSends ==
  ASSUME Base, NEW p \in Pipe, NEW f \in Frame, next \in Nat, next' \in Nat,
         next <= next', f <= next', log' = [log EXCEPT ![p] = Append(@, f)],
         reinj' = reinj
  PROVE  \A q \in Pipe : /\ Extends(q)
                        /\ reinj'[q] <= Len(log'[q])
                        /\ \A i \in 1..Len(log'[q]) : log'[q][i] <= next'
<1> SUFFICES ASSUME NEW q \in Pipe
             PROVE  /\ Extends(q)
                    /\ reinj'[q] <= Len(log'[q])
                    /\ \A i \in 1..Len(log'[q]) : log'[q][i] <= next'
  OBVIOUS
<1>1. /\ TypeOK /\ log[q] \in Seq(Frame) /\ Len(log[q]) \in Nat
      /\ reinj[q] \in Nat /\ reinj[q] <= Len(log[q])
  <2>1. TypeOK /\ PositionsOrdered
    BY DEF Base
  <2>2. log \in [Pipe -> Seq(Frame)] /\ reinj \in [Pipe -> Nat]
    BY <2>1 DEF TypeOK
  <2>3. log[q] \in Seq(Frame) /\ reinj[q] \in Nat
    BY <2>2
  <2>4. Len(log[q]) \in Nat
    BY <2>3
  <2> QED BY <2>1, <2>3, <2>4 DEF PositionsOrdered
<1>2. Extends(q)
  BY <1>1 DEF Extends, Base, TypeOK
<1>3. Len(log'[q]) \in Nat /\ reinj'[q] <= Len(log'[q])
  BY <1>1, <1>2, ExtendsKeeps
<1>4. \A i \in 1..Len(log[q]) : log[q][i] \in Nat /\ log[q][i] <= next'
  <2> SUFFICES ASSUME NEW i \in 1..Len(log[q])
               PROVE  log[q][i] \in Nat /\ log[q][i] <= next'
    OBVIOUS
  <2>1. log[q][i] \in Frame /\ log[q][i] <= next
    BY <1>1 DEF Base, OnlySent
  <2> QED
    BY <2>1 DEF Frame
<1>5. CASE q = p
  <2>1. log'[q] = Append(log[q], f)
    BY <1>5 DEF Base, TypeOK
  <2>2. \A i \in 1..Len(log'[q]) : i \in 1..Len(log[q]) \/ log'[q][i] = f
    BY <1>1, <2>1
  <2>3. \A i \in 1..Len(log[q]) : log'[q][i] = log[q][i]
    BY <1>1, <1>2, ExtendsKeeps
  <2> QED
    BY <1>2, <1>3, <1>4, <2>2, <2>3
<1>6. CASE q # p
  BY <1>2, <1>3, <1>4, <1>6 DEF Base, TypeOK
<1> QED
  BY <1>5, <1>6

\* The failure of a pipe, from whatever cause.
LEMMA FailSends ==
  ASSUME Base, NEW p \in Pipe, NEW spread, FailPipe(p, spread)
  PROVE  Sends
<1> DEFINE mates == IF spread THEN Mates(p) ELSE {}
           sus   == {q \in mates : Outstanding(q)}
<1>1. /\ Reinject({p} \union sus)
      /\ Probe(mates)
      /\ rev' = [rev EXCEPT ![p] = <<>>]
      /\ UNCHANGED <<acked, next, fatal, rvars>>
  BY DEF FailPipe
<1>2. {p} \union sus \in SUBSET Pipe
  BY DEF Mates
<1> HIDE DEF mates, sus
<1>3. TypeOK'
  BY FailType DEF Base
<1>4. lost' \subseteq 1..next /\ \A q \in Pipe : reinj'[q] <= Len(log[q])
  BY <1>1, <1>2, ReinjectSends
<1>5. \A q \in Pipe : rev'[q] = rev[q] \/ rev'[q] = <<>>
  BY <1>1 DEF Base, TypeOK
<1>6. ASSUME NEW q \in Pipe
      PROVE  /\ Extends(q)
             /\ reinj'[q] <= Len(log'[q])
             /\ \A i \in 1..Len(log'[q]) : log'[q][i] <= next
  <2>1. reinj'[q] \in Nat
    BY <1>3 DEF TypeOK
  <2> QED
    BY <1>1, <1>4, <2>1, ProbeSends
<1>7. next <= next' /\ next' = next
  BY <1>1 DEF Base, TypeOK
<1> QED
  BY <1>1, <1>3, <1>4, <1>5, <1>6, <1>7 DEF Sends

\* Every step of the sender but RecvAck is of the kind Sends.
SendStep(p) == \/ Join(p) \/ SendNew(p) \/ (\E c \in Chunk : ReSend(c, p))
               \/ Suspect(p) \/ MarkDraining(p) \/ FailStep(p)
               \/ Remove(p) \/ RecvAbandon(p)

\* Every step of the sender other than RecvAck has the common shape Sends.
LEMMA SendStepSends ==
  ASSUME Base, TypeOK', NEW p \in Pipe, SendStep(p)
  PROVE  Sends
<1>0. TypeOK /\ PositionsOrdered /\ OnlySent
  BY DEF Base
<1>0a. next \in Nat /\ next' \in Nat
  BY <1>0, NAssumption DEF TypeOK
<1>0b. lost \subseteq 1..next /\ \A q \in Pipe : \A i \in 1..Len(log[q]) : log[q][i] <= next
  BY <1>0 DEF OnlySent
<1>1. TypeOK /\ next \in Nat /\ next' \in Nat /\ lost \subseteq 1..next
  BY <1>0, <1>0a, <1>0b
<1>1a. \A q \in Pipe : /\ log[q] \in Seq(Frame) /\ Len(log[q]) \in Nat
                      /\ reinj[q] <= Len(log[q])
                      /\ \A i \in 1..Len(log[q]) : log[q][i] <= next
  <2>1. \A q \in Pipe : log[q] \in Seq(Frame) /\ Len(log[q]) \in Nat
    BY <1>0 DEF TypeOK
  <2>2. \A q \in Pipe : reinj[q] <= Len(log[q])
    BY <1>0 DEF PositionsOrdered
  <2> QED
    BY <2>1, <2>2, <1>0b
<1>2. CASE Join(p)
  <2>1. /\ log' = [log EXCEPT ![p] = Append(@, Control)]
        /\ next' = next /\ reinj' = reinj /\ lost' = lost /\ rev' = rev
        /\ acked' = acked /\ fatal' = fatal /\ rvars' = rvars
    BY <1>2 DEF Join, cvars
  <2>2. Control \in Frame /\ Control <= next' /\ next <= next'
    BY <1>1, <2>1, ControlIsFrame DEF Control
  <2>3. \A q \in Pipe : /\ Extends(q)
                       /\ reinj'[q] <= Len(log'[q])
                       /\ \A i \in 1..Len(log'[q]) : log'[q][i] <= next'
    BY <1>1, <2>1, <2>2, AppendSends
  <2> QED
    BY <1>1, <2>1, <2>2, <2>3 DEF Sends
<1>3. CASE SendNew(p)
  <2>1. /\ log' = [log EXCEPT ![p] = Append(@, next + 1)]
        /\ next' = next + 1 /\ reinj' = reinj /\ lost' = lost /\ rev' = rev
        /\ acked' = acked /\ fatal' = fatal /\ rvars' = rvars
    BY <1>3 DEF SendNew, cvars
  <2>2. next + 1 \in Frame /\ next + 1 <= next' /\ next <= next' /\ lost' \subseteq 1..next'
    BY <1>1, <1>3, <2>1, NAssumption DEF SendNew, Frame
  <2>3. \A q \in Pipe : /\ Extends(q)
                       /\ reinj'[q] <= Len(log'[q])
                       /\ \A i \in 1..Len(log'[q]) : log'[q][i] <= next'
    BY <1>1, <2>1, <2>2, AppendSends
  <2> QED
    BY <1>1, <2>1, <2>2, <2>3 DEF Sends
<1>4. ASSUME NEW c \in Chunk, ReSend(c, p) PROVE Sends
  <2>1. /\ log' = [log EXCEPT ![p] = Append(@, c)]
        /\ next' = next /\ reinj' = reinj /\ lost' = lost \ {c} /\ rev' = rev /\ c \in lost
        /\ acked' = acked /\ fatal' = fatal /\ rvars' = rvars
    BY <1>4 DEF ReSend, cvars
  <2>2. c \in Frame /\ c <= next' /\ next <= next' /\ lost' \subseteq 1..next'
    BY <1>1, <2>1 DEF Chunk, Frame
  <2>3. \A q \in Pipe : /\ Extends(q)
                       /\ reinj'[q] <= Len(log'[q])
                       /\ \A i \in 1..Len(log'[q]) : log'[q][i] <= next'
    BY <1>1, <2>1, <2>2, AppendSends
  <2> QED
    BY <1>1, <2>1, <2>2, <2>3 DEF Sends
<1>5. CASE Suspect(p)
  <2>1. Reinject({p}) /\ Probe({p})
    BY <1>5 DEF Suspect
  <2>2. lost' \subseteq 1..next /\ \A q \in Pipe : reinj'[q] <= Len(log[q])
    BY <2>1, ReinjectSends
  <2>3. ASSUME NEW q \in Pipe
        PROVE  /\ Extends(q)
               /\ reinj'[q] <= Len(log'[q])
               /\ \A i \in 1..Len(log'[q]) : log'[q][i] <= next
    <3>1. reinj'[q] \in Nat
      BY DEF TypeOK
    <3> QED
      BY <2>1, <2>2, <3>1, ProbeSends
  <2> QED
    BY <1>1, <1>5, <2>2, <2>3 DEF Suspect, Sends, cvars
<1>6. CASE MarkDraining(p)
  <2>1. lost' \subseteq 1..next /\ \A q \in Pipe : reinj'[q] <= Len(log[q])
    BY <1>6, ReinjectSends DEF MarkDraining
  <2> QED
    BY <1>1, <1>1a, <1>6, <2>1 DEF MarkDraining, Sends, Extends, cvars
<1>7. CASE FailStep(p)
  BY <1>7, FailStepIsFail, FailSends
<1>8. CASE Remove(p)
  BY <1>1, <1>1a, <1>8 DEF Remove, Sends, Extends, cvars
<1>9. CASE RecvAbandon(p)
  BY <1>1, <1>1a, <1>9 DEF RecvAbandon, Sends, Extends, cvars
<1> QED
  BY <1>2, <1>3, <1>4, <1>5, <1>6, <1>7, <1>8, <1>9 DEF SendStep

\* The elements of a queue after its head is taken, and after one more joins.
LEMMA TailIndex ==
  ASSUME NEW S, NEW s \in Seq(S), s # <<>>, NEW i \in 1..Len(Tail(s))
  PROVE  i + 1 \in 1..Len(s) /\ Tail(s)[i] = s[i + 1]
OBVIOUS

\* An element of an extended sequence is an old one or the new one.
LEMMA AppendIndex ==
  ASSUME NEW S, NEW s \in Seq(S), NEW e, NEW i \in 1..Len(Append(s, e))
  PROVE  (i \in 1..Len(s) /\ Append(s, e)[i] = s[i]) \/ Append(s, e)[i] = e
OBVIOUS

\* A snapshot that arrives is behind the receiver, so it is never ahead of what
\* was sent, and the new positions are behind the receiver as well.
LEMMA AckIsBehind ==
  ASSUME Base, TypeOK', NEW q \in Pipe, RecvAck(q)
  PROVE  /\ fatal' = FALSE
         /\ \A p \in Pipe : acked[p] <= acked'[p] /\ acked'[p] <= rpos[p]
         /\ SnapshotsBehind'
<1>0. TypeOK /\ PositionsOrdered /\ SnapshotsBehind
  BY DEF Base
<1>1. /\ rev[q] \in Seq([Pipe -> Nat]) /\ rev[q] # <<>>
      /\ Head(rev[q]) = rev[q][1] /\ 1 \in 1..Len(rev[q])
      /\ rev' = [rev EXCEPT ![q] = Tail(@)]
  BY <1>0 DEF TypeOK, RecvAck
<1>2. \A p \in Pipe : /\ rpos[p] \in Nat /\ acked[p] \in Nat /\ Len(log[p]) \in Nat
                     /\ acked[p] <= rpos[p] /\ rpos[p] <= Len(log[p])
  BY <1>0 DEF TypeOK, PositionsOrdered
<1>3. \A p \in Pipe : Head(rev[q])[p] \in Nat /\ Head(rev[q])[p] <= rpos[p]
  BY <1>0, <1>1 DEF SnapshotsBehind
<1>4. ~ \E p \in Pipe : Head(rev[q])[p] > Len(log[p])
  BY <1>2, <1>3
<1>5. fatal' = FALSE
  BY <1>4 DEF RecvAck
<1>6. ASSUME NEW p \in Pipe
      PROVE  acked'[p] = IF Head(rev[q])[p] > acked[p] THEN Head(rev[q])[p] ELSE acked[p]
  BY <1>4 DEF RecvAck
<1>7. ASSUME NEW p \in Pipe
      PROVE  acked[p] <= acked'[p] /\ acked'[p] <= rpos[p]
  BY <1>2, <1>3, <1>6
<1>8. SnapshotsBehind'
  <2> SUFFICES ASSUME NEW r \in Pipe, NEW i \in 1..Len(rev'[r]), NEW p \in Pipe
               PROVE  rev'[r][i][p] <= rpos'[p]
    BY DEF SnapshotsBehind
  <2>1. rpos' = rpos
    BY DEF RecvAck, rvars
  <2>2. CASE r = q
    <3>1. rev'[r] = Tail(rev[q])
      BY <1>0, <1>1, <2>2 DEF TypeOK
    <3>2. i + 1 \in 1..Len(rev[q]) /\ rev'[r][i] = rev[q][i + 1]
      BY <1>1, <3>1, TailIndex
    <3> QED
      BY <1>0, <2>1, <3>2 DEF SnapshotsBehind
  <2>3. CASE r # q
    <3>1. rev'[r] = rev[r]
      BY <1>0, <1>1, <2>3 DEF TypeOK
    <3> QED
      BY <1>0, <2>1, <3>1 DEF SnapshotsBehind
  <2> QED
    BY <2>2, <2>3
<1> QED
  BY <1>5, <1>7, <1>8

\* The first layer is inductive.
LEMMA BaseInit == Init => Base
<1> SUFFICES ASSUME Init PROVE Base
  OBVIOUS
<1>1. TypeOK
  BY TypeInit
<1>2. \A p \in Pipe : /\ log[p] = <<>> /\ rev[p] = <<>>
                     /\ acked[p] = 0 /\ reinj[p] = 0 /\ rpos[p] = 0
  BY DEF Init
<1>3. PositionsOrdered /\ SnapshotsBehind /\ CountedIsApplied
  BY <1>2 DEF PositionsOrdered, SnapshotsBehind, CountedIsApplied
<1>4. OnlySent
  BY <1>2 DEF Init, OnlySent
<1> QED
  BY <1>1, <1>3, <1>4 DEF Base, NoFalseAlarm, Init

\* Every step of either endpoint or of a carrier keeps the first layer.
LEMMA BaseStep == Base /\ [Next]_vars => Base'
<1> SUFFICES ASSUME Base, [Next]_vars PROVE Base'
  OBVIOUS
<1>0. /\ TypeOK /\ PositionsOrdered /\ SnapshotsBehind
      /\ CountedIsApplied /\ OnlySent /\ NoFalseAlarm
  BY DEF Base
<1>0a. TypeOK'
  BY <1>0, TypeStep
<1>0b. next \in Nat /\ \A p \in Pipe : /\ rpos[p] \in Nat /\ acked[p] \in Nat
                                    /\ Len(log[p]) \in Nat /\ log[p] \in Seq(Frame)
  BY <1>0, NAssumption DEF TypeOK
<1>1. ASSUME NEW p \in Pipe, SendStep(p) PROVE Base'
  BY <1>1, <1>0a, SendStepSends, SendsKeepsBase
<1>2. ASSUME NEW q \in Pipe, RecvAck(q) PROVE Base'
  <2>1. /\ log' = log /\ reinj' = reinj /\ next' = next /\ lost' \subseteq lost
        /\ rpos' = rpos /\ got' = got /\ read' = read
    BY <1>2 DEF RecvAck, rvars
  <2>2. /\ fatal' = FALSE /\ SnapshotsBehind'
        /\ \A p \in Pipe : acked'[p] <= rpos[p]
    BY <1>2, <1>0a, AckIsBehind
  <2>3. PositionsOrdered' /\ CountedIsApplied' /\ OnlySent'
    BY <1>0, <2>1, <2>2 DEF PositionsOrdered, CountedIsApplied, OnlySent
  <2> QED
    BY <1>0a, <2>2, <2>3 DEF Base, NoFalseAlarm
<1>3. ASSUME NEW p \in Pipe, Cut(p) PROVE Base'
  <2>1. /\ svars' = svars /\ rvars' = rvars
        /\ \A q \in Pipe : rev'[q] = rev[q] \/ rev'[q] = <<>>
    BY <1>0, <1>3 DEF Cut, TypeOK
  <2>2. SnapshotsBehind'
    BY <1>0, <2>1 DEF SnapshotsBehind, rvars
  <2> QED
    BY <1>0, <1>0a, <2>1, <2>2
    DEF Base, PositionsOrdered, CountedIsApplied, OnlySent, NoFalseAlarm, svars, rvars
<1>4. ASSUME NEW p \in Pipe, Apply(p) PROVE Base'
  <2>1. /\ log' = log /\ acked' = acked /\ reinj' = reinj /\ next' = next /\ lost' = lost
        /\ fatal' = fatal /\ rev' = rev /\ read' = read
        /\ rpos' = [rpos EXCEPT ![p] = @ + 1]
        /\ got' = got \union ({log[p][rpos[p] + 1]} \ {Control})
        /\ rpos[p] < Len(log[p])
    BY <1>4 DEF Apply, svars, cvars
  <2>2. ASSUME NEW q \in Pipe
        PROVE  rpos[q] <= rpos'[q] /\ rpos'[q] = IF q = p THEN rpos[p] + 1 ELSE rpos[q]
    BY <1>0, <1>0b, <2>1 DEF TypeOK
  <2>3. PositionsOrdered'
    BY <1>0, <1>0b, <2>1, <2>2 DEF PositionsOrdered
  <2>4. SnapshotsBehind'
    <3> SUFFICES ASSUME NEW r \in Pipe, NEW i \in 1..Len(rev[r]), NEW q \in Pipe
                 PROVE  rev[r][i][q] <= rpos'[q]
      BY <2>1 DEF SnapshotsBehind
    <3>0. rev[r] \in Seq([Pipe -> Nat])
      BY <1>0 DEF TypeOK
    <3>0a. rev[r][i] \in [Pipe -> Nat]
      BY <3>0
    <3>1. rev[r][i][q] \in Nat /\ rev[r][i][q] <= rpos[q]
      BY <1>0, <3>0a DEF SnapshotsBehind
    <3> QED
      BY <1>0b, <2>2, <3>1
  <2>5. CountedIsApplied'
    <3> SUFFICES ASSUME NEW q \in Pipe, NEW i \in 1..rpos'[q], log[q][i] # Control
                 PROVE  log[q][i] \in got'
      BY <2>1 DEF CountedIsApplied
    <3>1. CASE i \in 1..rpos[q]
      BY <1>0, <2>1, <3>1 DEF CountedIsApplied
    <3>2. CASE q = p /\ i = rpos[p] + 1
      BY <2>1, <3>2
    <3> QED
      BY <1>0b, <2>2, <3>1, <3>2
  <2>6. OnlySent'
    <3>1. rpos[p] + 1 \in 1..Len(log[p])
      BY <1>0b, <2>1
    <3>2. log[p][rpos[p] + 1] \in Frame /\ log[p][rpos[p] + 1] <= next
      BY <1>0, <1>0b, <3>1 DEF OnlySent
    <3>3. {log[p][rpos[p] + 1]} \ {Control} \subseteq 1..next
      BY <1>0b, <3>2, NAssumption DEF Frame, Control
    <3> QED
      BY <1>0, <2>1, <3>3 DEF OnlySent
  <2> QED
    BY <1>0, <1>0a, <2>1, <2>3, <2>4, <2>5, <2>6 DEF Base, NoFalseAlarm
<1>5. CASE Read
  <2>1. /\ svars' = svars /\ cvars' = cvars /\ rpos' = rpos /\ got' = got
        /\ read' = read + 1 /\ read + 1 \in got
    BY <1>5 DEF Read
  <2>2. read' <= next
    BY <1>0, <1>0b, <2>1 DEF OnlySent
  <2> QED
    BY <1>0, <1>0a, <2>1, <2>2
    DEF Base, PositionsOrdered, SnapshotsBehind, CountedIsApplied, OnlySent, NoFalseAlarm,
        svars, cvars
<1>6. ASSUME NEW Q \in AckPipes, SendAck(Q) PROVE Base'
  <2>1. /\ svars' = svars /\ rpos' = rpos /\ got' = got /\ read' = read
        /\ \A q \in Pipe : rev'[q] = rev[q] \/ rev'[q] = Append(rev[q], rpos)
    BY <1>6 DEF SendAck
  <2>2. SnapshotsBehind'
    <3> SUFFICES ASSUME NEW q \in Pipe, NEW i \in 1..Len(rev'[q]), NEW p \in Pipe
                 PROVE  rev'[q][i][p] <= rpos[p]
      BY <2>1 DEF SnapshotsBehind
    <3>1. rev[q] \in Seq([Pipe -> Nat]) /\ Len(rev[q]) \in Nat
      BY <1>0 DEF TypeOK
    <3>1a. CASE rev'[q] = rev[q]
      BY <1>0, <3>1a DEF SnapshotsBehind
    <3>1b. CASE rev'[q] = Append(rev[q], rpos)
      <4>1. i \in 1..Len(Append(rev[q], rpos))
        BY <3>1b
      <4>2. (i \in 1..Len(rev[q]) /\ rev'[q][i] = rev[q][i]) \/ rev'[q][i] = rpos
        BY <3>1, <3>1b, <4>1, AppendIndex
      <4> QED
        BY <1>0, <1>0b, <4>2 DEF SnapshotsBehind
    <3> QED
      BY <2>1, <3>1a, <3>1b
  <2> QED
    BY <1>0, <1>0a, <2>1, <2>2
    DEF Base, PositionsOrdered, CountedIsApplied, OnlySent, NoFalseAlarm, svars
<1>7. ASSUME NEW p \in Pipe, EndInbound(p) \/ SendAbandon(p) PROVE Base'
  <2>1. svars' = svars /\ cvars' = cvars /\ rpos' = rpos /\ got' = got /\ read' = read
    BY <1>7 DEF EndInbound, SendAbandon
  <2> QED
    BY <1>0, <1>0a, <2>1
    DEF Base, PositionsOrdered, SnapshotsBehind, CountedIsApplied, OnlySent, NoFalseAlarm,
        svars, cvars
<1>8. ASSUME NEW p \in Pipe,
             AnswerUnseen(p) \/ AbandonError(p, "failed") \/ AbandonError(p, "limit")
      PROVE  Base'
  <2>1. /\ svars' = svars /\ rpos' = rpos /\ got' = got /\ read' = read
        /\ \A q \in Pipe : rev'[q] = rev[q] \/ rev'[q] = <<>>
    BY <1>0, <1>8 DEF AnswerUnseen, AbandonError, TypeOK
  <2>2. SnapshotsBehind'
    BY <1>0, <2>1 DEF SnapshotsBehind
  <2> QED
    BY <1>0, <1>0a, <2>1, <2>2
    DEF Base, PositionsOrdered, CountedIsApplied, OnlySent, NoFalseAlarm, svars
<1>9. CASE UNCHANGED vars
  BY <1>0, <1>0a, <1>9
  DEF Base, PositionsOrdered, SnapshotsBehind, CountedIsApplied, OnlySent, NoFalseAlarm,
      vars, svars, cvars, rvars
<1> QED
  BY <1>1, <1>2, <1>3, <1>4, <1>5, <1>6, <1>7, <1>8, <1>9
  DEF Next, SenderStep, ReceiverStep, SendStep, FailStep, Over

\* The first layer holds in every reachable state.
THEOREM BaseCorrect == Spec => []Base
  BY BaseInit, BaseStep, PTL DEF Spec

\* Two conforming endpoints never close the session over an acknowledgement that
\* is ahead of what was sent (ack.ahead_of_sent).
THEOREM NoFalseAlarmHolds == Spec => []NoFalseAlarm
<1>1. Base => NoFalseAlarm
  BY DEF Base
<1> QED
  BY <1>1, BaseCorrect, PTL

\* The sender releases a chunk only when the receiver has it.
THEOREM AckedIsReceivedHolds == Spec => []AckedIsReceived
<1>1. Base => AckedIsReceived
  <2> SUFFICES ASSUME Base, NEW c \in Acked PROVE c \in got
    BY DEF AckedIsReceived
  <2>1. PICK p \in Pipe : \E i \in 1..Len(log[p]) : i <= acked[p] /\ log[p][i] = c
    BY DEF Acked, Covered
  <2>2. PICK i \in 1..Len(log[p]) : i <= acked[p] /\ log[p][i] = c
    BY <2>1
  <2>3. c # Control
    BY DEF Acked, Covered, Chunk, Control
  <2>4. i \in 1..rpos[p]
    BY <2>2 DEF Base, PositionsOrdered, TypeOK
  <2> QED
    BY <2>2, <2>3, <2>4 DEF Base, CountedIsApplied
<1> QED
  BY <1>1, BaseCorrect, PTL

-----------------------------------------------------------------------------
(* The second layer: where each chunk is.                                  *)

\* What is acknowledged stays acknowledged while logs and positions grow.
LEMMA AckedGrows ==
  ASSUME Base, TypeOK',
         \A p \in Pipe : Extends(p) /\ acked[p] <= acked'[p]
  PROVE  Acked \subseteq Acked'
<1> SUFFICES ASSUME NEW c \in Acked PROVE c \in Acked'
  OBVIOUS
<1>1. PICK p \in Pipe : \E i \in 1..Len(log[p]) : i <= acked[p] /\ log[p][i] = c
  BY DEF Acked, Covered
<1>2. PICK i \in 1..Len(log[p]) : i <= acked[p] /\ log[p][i] = c
  BY <1>1
<1>3. TypeOK
  BY DEF Base
<1>4. i \in 1..Len(log'[p]) /\ log'[p][i] = c
  BY <1>2, <1>3, ExtendsKeeps
<1>5. acked[p] \in Nat /\ acked'[p] \in Nat
  BY <1>3 DEF TypeOK
<1>6. i <= acked'[p]
  BY <1>2, <1>5
<1> QED
  BY <1>4, <1>6 DEF Acked, Covered

\* A pipe that still holds a chunk holds it while its marks do not move.
LEMMA HoldsKept ==
  ASSUME TypeOK, NEW p \in Pipe, NEW c, Holds(p, c),
         Extends(p), acked'[p] = acked[p], reinj'[p] = reinj[p]
  PROVE  Holds(p, c)'
<1>1. PICK i \in 1..Len(log[p]) : i > acked[p] /\ i > reinj[p] /\ log[p][i] = c
  BY DEF Holds
<1>2. i \in 1..Len(log'[p]) /\ log'[p][i] = c
  BY <1>1, ExtendsKeeps
<1> QED
  BY <1>1, <1>2 DEF Holds

\* A chunk just appended to a pipe is held by it.
LEMMA HoldsNew ==
  ASSUME Base, TypeOK', NEW p \in Pipe, NEW f \in Frame,
         log' = [log EXCEPT ![p] = Append(@, f)], acked' = acked, reinj' = reinj
  PROVE  Holds(p, f)'
<1>1. /\ log[p] \in Seq(Frame) /\ Len(log[p]) \in Nat
      /\ acked[p] <= Len(log[p]) /\ reinj[p] <= Len(log[p])
      /\ acked[p] \in Nat /\ reinj[p] \in Nat /\ rpos[p] \in Nat
  BY DEF Base, TypeOK, PositionsOrdered
<1>2. log'[p] = Append(log[p], f)
  BY DEF Base, TypeOK
<1>3. Len(log[p]) + 1 \in 1..Len(log'[p]) /\ log'[p][Len(log[p]) + 1] = f
  BY <1>1, <1>2
<1> QED
  BY <1>1, <1>3 DEF Holds

\* Reinjection loses nothing.
LEMMA ReinjectKeepsAll ==
  ASSUME Base, TypeOK', NoChunkLost, NEW S \in SUBSET Pipe, Reinject(S),
         acked' = acked, next' = next, \A p \in Pipe : Extends(p),
         \A p \in Pipe \ S : p \in Live => p \in Live'
  PROVE  NoChunkLost'
<1> SUFFICES ASSUME NEW c \in 1..next
             PROVE  \/ c \in Acked'
                    \/ c \in lost'
                    \/ \E p \in Pipe : p \in Live' /\ Holds(p, c)'
  BY DEF NoChunkLost, Live
<1>0. TypeOK /\ Live \subseteq Pipe
  BY DEF Base, Live
<1>1. \A p \in Pipe : acked[p] <= acked'[p]
  BY <1>0 DEF TypeOK
<1>2. CASE c \in Acked
  BY <1>1, <1>2, AckedGrows
<1>3. CASE c \in lost
  BY <1>3 DEF Reinject
<1>4. ASSUME NEW p \in Live, Holds(p, c), c \notin Acked
      PROVE  c \in lost' \/ \E q \in Pipe : q \in Live' /\ Holds(q, c)'
  <2>1. CASE p \in S
    <3>1. c \in Chunk
      BY <1>0, NAssumption DEF TypeOK, Chunk
    <3> QED
      BY <1>4, <2>1, <3>1 DEF Reinject
  <2>2. CASE p \notin S
    <3>1. reinj'[p] = reinj[p]
      BY <1>0, <2>2 DEF Reinject
    <3> QED
      BY <1>0, <1>4, <2>2, <3>1, HoldsKept
  <2> QED
    BY <2>1, <2>2
<1> QED
  BY <1>2, <1>3, <1>4 DEF NoChunkLost

\* The reinjecting steps, with the set of pipes whose information is reinjected.
LEMMA ReinjectingStep ==
  ASSUME Base, NEW p \in Pipe, Suspect(p) \/ MarkDraining(p) \/ FailStep(p)
  PROVE  \E S \in SUBSET Pipe :
           /\ Reinject(S)
           /\ acked' = acked /\ next' = next
           /\ \A q \in Pipe \ S : q \in Live => q \in Live'
           /\ \A q \in Pipe : log'[q] = log[q] \/ log'[q] = Append(log[q], Control)
<1>0. TypeOK
  BY DEF Base
<1>1. CASE Suspect(p)
  <2>1. /\ Reinject({p}) /\ Probe({p}) /\ acked' = acked /\ next' = next
        /\ pst' = [pst EXCEPT ![p] = "SUSPECT"]
    BY <1>1 DEF Suspect
  <2>2. \A q \in Pipe \ {p} : q \in Live => q \in Live'
    BY <1>0, <2>1 DEF Live, TypeOK
  <2>3. \A q \in Pipe : log'[q] = log[q] \/ log'[q] = Append(log[q], Control)
    BY <1>0, <2>1, ProbeExtends
  <2> QED
    BY <2>1, <2>2, <2>3
<1>2. CASE MarkDraining(p)
  <2>1. /\ Reinject({p}) /\ acked' = acked /\ next' = next /\ log' = log /\ pst' = pst
    BY <1>2 DEF MarkDraining
  <2>2. Live' = Live
    BY <2>1 DEF Live
  <2> QED
    BY <2>1, <2>2
<1>3. CASE FailStep(p)
  <2>1. PICK spread \in BOOLEAN : FailPipe(p, spread)
    BY <1>3, FailStepIsFail
  <2> DEFINE mates == IF spread THEN Mates(p) ELSE {}
             sus   == {q \in mates : Outstanding(q)}
  <2>2. /\ Reinject({p} \union sus) /\ Probe(mates) /\ acked' = acked /\ next' = next
        /\ pst' = [q \in Pipe |-> IF q = p THEN "FAILED"
                                  ELSE IF q \in sus THEN "SUSPECT" ELSE pst[q]]
    BY <2>1 DEF FailPipe
  <2>3. {p} \union sus \in SUBSET Pipe
    BY DEF Mates
  <2> HIDE DEF mates, sus
  <2>4. \A q \in Pipe \ ({p} \union sus) : q \in Live => q \in Live'
    BY <2>2 DEF Live
  <2>5. \A q \in Pipe : log'[q] = log[q] \/ log'[q] = Append(log[q], Control)
    BY <1>0, <2>2, ProbeExtends
  <2> QED
    BY <2>2, <2>3, <2>4, <2>5
<1> QED
  BY <1>1, <1>2, <1>3

\* A step that leaves the sender's chunks alone and no live pipe dead keeps them.
LEMMA QuietKeepsAll ==
  ASSUME Base, TypeOK', NoChunkLost, next' = next, lost' = lost, acked' = acked,
         reinj' = reinj, \A p \in Pipe : Extends(p),
         \A p \in Live : p \in Live' \/ \A c \in Chunk : ~Holds(p, c)
  PROVE  NoChunkLost'
<1> SUFFICES ASSUME NEW c \in 1..next
             PROVE  \/ c \in Acked'
                    \/ c \in lost'
                    \/ \E p \in Pipe : p \in Live' /\ Holds(p, c)'
  BY DEF NoChunkLost, Live
<1>0. TypeOK /\ Live \subseteq Pipe
  BY DEF Base, Live
<1>1. \A p \in Pipe : acked[p] <= acked'[p]
  BY <1>0 DEF TypeOK
<1>2. c \in Chunk
  BY <1>0, NAssumption DEF TypeOK, Chunk
<1>3. CASE c \in Acked
  BY <1>1, <1>3, AckedGrows
<1>4. ASSUME NEW p \in Live, Holds(p, c) PROVE p \in Live' /\ Holds(p, c)'
  BY <1>0, <1>2, <1>4, HoldsKept
<1> QED
  BY <1>0, <1>3, <1>4 DEF NoChunkLost

\* Every step keeps every sent chunk acknowledged, queued or on a live pipe.
LEMMA NoChunkLostStep ==
  Base /\ NoChunkLost /\ [Next]_vars => NoChunkLost'
<1> SUFFICES ASSUME Base, NoChunkLost, [Next]_vars PROVE NoChunkLost'
  OBVIOUS
<1>0. TypeOK /\ TypeOK' /\ Base' /\ PositionsOrdered
  BY TypeStep, BaseStep DEF Base
<1>0a. next \in Nat /\ \A p \in Pipe : acked[p] <= acked[p]
  BY <1>0, NAssumption DEF TypeOK
<1>1. ASSUME NEW p \in Pipe, Join(p) PROVE NoChunkLost'
  <2>1. \A q \in Pipe : Extends(q)
    BY <1>0, <1>1, SendStepSends DEF SendStep, Sends
  <2>2. \A q \in Live : q \in Live'
    BY <1>0, <1>1 DEF Join, Live, TypeOK, LiveState
  <2> QED
    BY <1>0, <1>1, <2>1, <2>2, QuietKeepsAll DEF Join
<1>2. ASSUME NEW p \in Pipe, NEW f \in Chunk, (SendNew(p) /\ f = next + 1) \/ ReSend(f, p)
      PROVE  NoChunkLost'
  <2>1. /\ log' = [log EXCEPT ![p] = Append(@, f)]
        /\ acked' = acked /\ reinj' = reinj /\ pst' = pst /\ MayCarryData(p)
        /\ lost \subseteq lost' \union {f} /\ 1..next' \subseteq 1..next \union {f}
    BY <1>0a, <1>2 DEF SendNew, ReSend
  <2>2. \A q \in Pipe : Extends(q)
    BY <1>0, <1>2, SendStepSends DEF SendStep, Sends
  <2>3. Live' = Live /\ p \in Live
    BY <2>1 DEF Live, LiveState, MayCarryData
  <2>4. Holds(p, f)'
    <3>1. f \in Frame
      BY DEF Chunk, Frame
    <3> QED
      BY <1>0, <2>1, <3>1, HoldsNew
  <2>5. ASSUME NEW c \in 1..next, c # f
        PROVE  \/ c \in Acked'
               \/ c \in lost'
               \/ \E q \in Live' : Holds(q, c)'
    <3>1. CASE c \in Acked
      BY <1>0, <1>0a, <2>1, <2>2, <3>1, AckedGrows
    <3>2. CASE c \in lost
      BY <2>1, <2>5, <3>2
    <3>3. ASSUME NEW q \in Live, Holds(q, c) PROVE Holds(q, c)'
      BY <1>0, <2>1, <2>2, <3>3, HoldsKept DEF Live
    <3> QED
      BY <2>3, <3>1, <3>2, <3>3 DEF NoChunkLost
  <2> QED
    BY <2>1, <2>3, <2>4, <2>5 DEF NoChunkLost
<1>3. ASSUME NEW p \in Pipe, Suspect(p) \/ MarkDraining(p) \/ FailStep(p)
      PROVE  NoChunkLost'
  <2>1. \A q \in Pipe : Extends(q)
    BY <1>0, <1>3, SendStepSends DEF SendStep, Sends
  <2> QED
    BY <1>0, <1>3, <2>1, ReinjectingStep, ReinjectKeepsAll
<1>4. ASSUME NEW p \in Pipe, Remove(p) PROVE NoChunkLost'
  <2>1. \A q \in Live : q \in Live'
    BY <1>0, <1>4 DEF Remove, Live, TypeOK, LiveState
  <2> QED
    BY <1>0, <1>4, <2>1, QuietKeepsAll DEF Remove, Extends
<1>5. ASSUME NEW p \in Pipe, RecvAbandon(p) PROVE NoChunkLost'
  <2>1. ASSUME NEW q \in Live
        PROVE  q \in Live' \/ \A c \in Chunk : ~Holds(q, c)
    <3>1. CASE q = p /\ Drained(p, acked, exch')
      <4>1. \A i \in 1..Len(log[p]) : i > acked[p] => log[p][i] = Control
        BY <3>1 DEF Drained
      <4> QED
        BY <3>1, <4>1 DEF Holds, Chunk, Control
    <3>2. CASE ~(q = p /\ Drained(p, acked, exch'))
      BY <1>0, <1>5, <3>2 DEF RecvAbandon, Live, TypeOK, LiveState
    <3> QED
      BY <3>1, <3>2
  <2> QED
    BY <1>0, <1>5, <2>1, QuietKeepsAll DEF RecvAbandon, Extends
<1>6. ASSUME NEW q \in Pipe, RecvAck(q) PROVE NoChunkLost'
  <2>1. /\ log' = log /\ reinj' = reinj /\ next' = next
        /\ lost' = lost \ Covered(acked')
    BY <1>6 DEF RecvAck
  <2>2. \A p \in Pipe : acked[p] <= acked'[p]
    BY <1>0, <1>6, AckIsBehind
  <2>3. Acked \subseteq Acked'
    BY <1>0, <2>1, <2>2, AckedGrows DEF Extends
  <2>4. Acked' = Covered(acked')
    BY <2>1 DEF Acked, Covered
  <2>5. ASSUME NEW c \in 1..next, NEW p \in Live, Holds(p, c)
        PROVE  c \in Acked' \/ (p \in Live' /\ Holds(p, c)')
    <3>1. PICK i \in 1..Len(log[p]) : i > acked[p] /\ i > reinj[p] /\ log[p][i] = c
      BY <2>5 DEF Holds
    <3>2. c \in Chunk /\ p \in Pipe /\ c # Control
      BY <1>0, NAssumption DEF TypeOK, Chunk, Live, Control
    <3>3. CASE i <= acked'[p]
      BY <2>4, <3>1, <3>2, <3>3 DEF Covered
    <3>4. CASE i > acked'[p]
      <4>1. Holds(p, c)'
        BY <2>1, <3>1, <3>4 DEF Holds
      <4>2. ~Drained(p, acked', exch)
        BY <3>1, <3>2, <3>4 DEF Drained
      <4>3. p \in Live'
        BY <1>0, <1>6, <3>2, <4>2 DEF RecvAck, Revived, Live, LiveState, TypeOK
      <4> QED
        BY <4>1, <4>3
    <3> QED
      <4>1. acked'[p] \in Nat /\ i \in Nat
        BY <1>0, <3>1, <3>2 DEF TypeOK
      <4> QED
        BY <3>3, <3>4, <4>1
  <2> QED
    BY <2>1, <2>3, <2>4, <2>5 DEF NoChunkLost
<1>7. CASE svars' = svars
  BY <1>7 DEF NoChunkLost, Acked, Covered, Live, Holds, svars
<1> QED
  <2>1. ASSUME NEW p \in Pipe, Cut(p) \/ ReceiverStep(p) PROVE svars' = svars
    BY <2>1 DEF Cut, ReceiverStep, Apply, EndInbound, SendAbandon, AnswerUnseen, AbandonError
  <2>2. ASSUME Read \/ (\E Q \in AckPipes : SendAck(Q)) \/ UNCHANGED vars
        PROVE  svars' = svars
    BY <2>2 DEF Read, SendAck, vars
  <2>3. ASSUME NEW p \in Pipe, SendNew(p) PROVE next + 1 \in Chunk
    BY <1>0a, <2>3, NAssumption DEF SendNew, Chunk
  <2> QED
    BY <1>1, <1>2, <1>3, <1>4, <1>5, <1>6, <1>7, <2>1, <2>2, <2>3
    DEF Next, SenderStep, FailStep, Over

\* A fresh record of a chunk was fresh before the step, unless the step wrote it.
LEMMA FreshBefore ==
  ASSUME TypeOK, TypeOK', NEW p \in Pipe, NEW c \in Chunk, NEW i \in 1..Len(log'[p]),
         Fresh(p, i, c)', reinj[p] <= reinj'[p],
         log'[p] = log[p] \/ log'[p] = Append(log[p], Control)
  PROVE  i \in 1..Len(log[p]) /\ Fresh(p, i, c)
<1>1. log[p] \in Seq(Frame) /\ reinj[p] \in Nat /\ reinj'[p] \in Nat /\ c # Control
  BY DEF TypeOK, Chunk, Control
<1>2. i > reinj'[p] /\ log'[p][i] = c
  BY DEF Fresh
<1>3. i \in 1..Len(log[p]) /\ log'[p][i] = log[p][i]
  <2>1. CASE log'[p] = log[p]
    BY <2>1
  <2>2. CASE log'[p] = Append(log[p], Control)
    <3>1. i \in 1..Len(Append(log[p], Control))
      BY <2>2
    <3> QED
      BY <1>1, <1>2, <2>2, <3>1, AppendIndex
  <2> QED
    BY <2>1, <2>2
<1>4. i > reinj[p]
  BY <1>1, <1>2, <1>3
<1> QED
  BY <1>2, <1>3, <1>4 DEF Fresh

\* One record of the chunk f appended to the log of p, when no other one is fresh.
LEMMA AppendOneOwner ==
  ASSUME TypeOK, TypeOK', OneOwner, NEW p \in Pipe, NEW f \in Chunk,
         log' = [log EXCEPT ![p] = Append(@, f)], reinj' = reinj,
         lost' = lost \ {f},
         \A q \in Pipe : \A j \in 1..Len(log[q]) : ~Fresh(q, j, f)
  PROVE  OneOwner'
<1>0. f \in Frame /\ \A q \in Pipe : log[q] \in Seq(Frame) /\ Len(log[q]) \in Nat
  BY DEF TypeOK, Chunk, Frame
<1>1. ASSUME NEW c \in Chunk, NEW q \in Pipe, NEW j \in 1..Len(log'[q]), Fresh(q, j, c)'
      PROVE  \/ c # f /\ j \in 1..Len(log[q]) /\ Fresh(q, j, c)
             \/ c = f /\ q = p /\ j = Len(log[p]) + 1
  <2>1. j > reinj[q] /\ log'[q][j] = c
    BY <1>1 DEF Fresh
  <2>2. CASE q # p
    <3>1. log'[q] = log[q]
      BY <2>2 DEF TypeOK
    <3>2. j \in 1..Len(log[q]) /\ Fresh(q, j, c)
      BY <2>1, <3>1 DEF Fresh
    <3> QED
      BY <3>2
  <2>3. CASE q = p
    <3>1. log'[q] = Append(log[q], f)
      BY <2>3 DEF TypeOK
    <3>2. CASE j \in 1..Len(log[q])
      <4>1. log'[q][j] = log[q][j]
        BY <1>0, <3>1, <3>2
      <4>2. Fresh(q, j, c)
        BY <2>1, <3>2, <4>1 DEF Fresh
      <4> QED
        BY <3>2, <4>2
    <3>3. CASE j \notin 1..Len(log[q])
      BY <1>0, <2>1, <2>3, <3>1, <3>3
    <3> QED
      BY <3>2, <3>3
  <2> QED
    BY <2>2, <2>3
<1> SUFFICES ASSUME NEW c \in Chunk, NEW q \in Pipe, NEW j \in 1..Len(log'[q]),
                    Fresh(q, j, c)'
             PROVE  /\ c \notin lost'
                    /\ \A r \in Pipe : \A k \in 1..Len(log'[r]) :
                          Fresh(r, k, c)' => r = q /\ k = j
  BY DEF OneOwner
<1>2. c \notin lost'
  BY <1>1 DEF OneOwner
<1>3. ASSUME NEW r \in Pipe, NEW k \in 1..Len(log'[r]), Fresh(r, k, c)'
      PROVE  r = q /\ k = j
  BY <1>1, <1>3 DEF OneOwner
<1> QED
  BY <1>2, <1>3

\* A step that only moves marks forward and writes control records, and queues
\* nothing that is fresh afterwards.
LEMMA MarksKeepOneOwner ==
  ASSUME TypeOK, TypeOK', OneOwner,
         \A p \in Pipe : reinj[p] <= reinj'[p],
         \A p \in Pipe : log'[p] = log[p] \/ log'[p] = Append(log[p], Control),
         \A c \in lost' : c \in lost \/
            \A p \in Pipe : \A i \in 1..Len(log'[p]) : ~Fresh(p, i, c)'
  PROVE  OneOwner'
<1>0. ASSUME NEW c \in Chunk, NEW q \in Pipe, NEW j \in 1..Len(log'[q]), Fresh(q, j, c)'
      PROVE  j \in 1..Len(log[q]) /\ Fresh(q, j, c)
  <2>1. reinj[q] <= reinj'[q]
    OBVIOUS
  <2>2. log'[q] = log[q] \/ log'[q] = Append(log[q], Control)
    OBVIOUS
  <2> QED
    BY <1>0, <2>1, <2>2, FreshBefore
<1> SUFFICES ASSUME NEW c \in Chunk, NEW q \in Pipe, NEW j \in 1..Len(log'[q]),
                    Fresh(q, j, c)'
             PROVE  /\ c \notin lost'
                    /\ \A r \in Pipe : \A k \in 1..Len(log'[r]) :
                          Fresh(r, k, c)' => r = q /\ k = j
  BY DEF OneOwner
<1>1. j \in 1..Len(log[q]) /\ Fresh(q, j, c)
  BY <1>0
<1>2. c \notin lost'
  BY <1>1 DEF OneOwner
<1>3. ASSUME NEW r \in Pipe, NEW k \in 1..Len(log'[r]), Fresh(r, k, c)'
      PROVE  r = q /\ k = j
  <2>1. k \in 1..Len(log[r]) /\ Fresh(r, k, c)
    BY <1>0, <1>3
  <2> QED
    BY <1>1, <2>1 DEF OneOwner
<1> QED
  BY <1>2, <1>3

\* Reinjection moves the ownership of a chunk from a pipe to the queue.
LEMMA ReinjectOneOwner ==
  ASSUME Base, TypeOK', OneOwner, NEW S \in SUBSET Pipe, Reinject(S),
         \A p \in Pipe : log'[p] = log[p] \/ log'[p] = Append(log[p], Control)
  PROVE  OneOwner'
<1>0. TypeOK /\ PositionsOrdered
  BY DEF Base
<1>1. ASSUME NEW p \in Pipe
      PROVE  reinj[p] <= reinj'[p] /\ (p \in S => reinj'[p] = Len(log[p]))
  BY <1>0 DEF Reinject, PositionsOrdered, TypeOK
<1>2. ASSUME NEW c \in lost', c \notin lost,
             NEW p \in Pipe, NEW i \in 1..Len(log'[p]), Fresh(p, i, c)'
      PROVE  FALSE
  <2>1. c \in Chunk /\ \E q \in S : Holds(q, c)
    BY <1>2 DEF Reinject
  <2>2. PICK q \in S : Holds(q, c)
    BY <2>1
  <2>3. PICK j \in 1..Len(log[q]) : Fresh(q, j, c)
    BY <2>2 DEF Holds, Fresh
  <2>4. i \in 1..Len(log[p]) /\ Fresh(p, i, c)
    BY <1>0, <1>1, <1>2, <2>1, FreshBefore
  <2>5. p = q
    BY <2>1, <2>3, <2>4 DEF OneOwner
  <2>6. i > Len(log[p])
    BY <1>1, <1>2, <2>2, <2>5 DEF Fresh
  <2> QED
    BY <1>0, <2>4, <2>6 DEF TypeOK
<1> QED
  BY <1>0, <1>1, <1>2, MarksKeepOneOwner

\* Every step keeps a chunk with one owner.
LEMMA OneOwnerStep ==
  Base /\ OneOwner /\ [Next]_vars => OneOwner'
<1> SUFFICES ASSUME Base, OneOwner, [Next]_vars PROVE OneOwner'
  OBVIOUS
<1>0. TypeOK /\ TypeOK' /\ OnlySent
  BY TypeStep DEF Base
<1>0a. next \in Nat /\ \A p \in Pipe : reinj[p] \in Nat /\ reinj[p] <= reinj[p]
  BY <1>0, NAssumption DEF TypeOK
<1>1. ASSUME NEW p \in Pipe, Join(p) PROVE OneOwner'
  <2>1. \A q \in Pipe : log'[q] = log[q] \/ log'[q] = Append(log[q], Control)
    BY <1>0, <1>1 DEF Join, TypeOK
  <2>2. reinj' = reinj /\ lost' = lost
    BY <1>1 DEF Join
  <2> QED
    BY <1>0, <1>0a, <2>1, <2>2, MarksKeepOneOwner
<1>2. ASSUME NEW p \in Pipe, SendNew(p) PROVE OneOwner'
  <2>1. /\ next + 1 \in Chunk /\ reinj' = reinj /\ lost' = lost
        /\ log' = [log EXCEPT ![p] = Append(@, next + 1)]
    BY <1>0a, <1>2, NAssumption DEF SendNew, Chunk
  <2>2. next + 1 \notin lost
    BY <1>0, <1>0a DEF OnlySent
  <2>3. ASSUME NEW q \in Pipe, NEW j \in 1..Len(log[q]) PROVE ~Fresh(q, j, next + 1)
    BY <1>0, <1>0a DEF OnlySent, Fresh
  <2>4. lost' = lost \ {next + 1}
    BY <2>1, <2>2
  <2> QED
    BY <1>0, <2>1, <2>3, <2>4, AppendOneOwner
<1>3. ASSUME NEW p \in Pipe, NEW c \in Chunk, ReSend(c, p) PROVE OneOwner'
  <2>1. /\ c \in lost /\ lost' = lost \ {c} /\ reinj' = reinj
        /\ log' = [log EXCEPT ![p] = Append(@, c)]
    BY <1>3 DEF ReSend
  <2>2. \A q \in Pipe : \A j \in 1..Len(log[q]) : ~Fresh(q, j, c)
    BY <2>1 DEF OneOwner
  <2> QED
    BY <1>0, <2>1, <2>2, AppendOneOwner
<1>4. ASSUME NEW p \in Pipe, Suspect(p) \/ MarkDraining(p) \/ FailStep(p)
      PROVE  OneOwner'
  BY <1>0, <1>4, ReinjectingStep, ReinjectOneOwner
<1>5. ASSUME log' = log, reinj' = reinj, lost' \subseteq lost PROVE OneOwner'
  BY <1>5 DEF OneOwner, Fresh
<1>6. ASSUME NEW p \in Pipe, Remove(p) \/ RecvAbandon(p) \/ RecvAck(p) \/ Cut(p) \/ ReceiverStep(p)
      PROVE  log' = log /\ reinj' = reinj /\ lost' \subseteq lost
  BY <1>6 DEF Remove, RecvAbandon, RecvAck, Cut, ReceiverStep, Apply, EndInbound, SendAbandon,
              AnswerUnseen, AbandonError, svars
<1>7. ASSUME Read \/ (\E Q \in AckPipes : SendAck(Q)) \/ UNCHANGED vars
      PROVE  log' = log /\ reinj' = reinj /\ lost' \subseteq lost
  BY <1>7 DEF Read, SendAck, vars, svars
<1> QED
  BY <1>1, <1>2, <1>3, <1>4, <1>5, <1>6, <1>7 DEF Next, SenderStep, FailStep, Over

\* The inductive invariant.
LEMMA IInvInit == Init => IInv
<1> SUFFICES ASSUME Init PROVE IInv
  OBVIOUS
<1>1. next = 0 /\ \A p \in Pipe : log[p] = <<>>
  BY DEF Init
<1>2. NoChunkLost /\ OneOwner
  BY <1>1 DEF NoChunkLost, OneOwner
<1> QED
  BY <1>2, BaseInit DEF Base, IInv

\* The inductive invariant of the sender, the carriers and the receiver holds in
\* every reachable state.
THEOREM InvariantHolds == Spec => []IInv
<1>1. IInv /\ [Next]_vars => IInv'
  BY BaseStep, NoChunkLostStep, OneOwnerStep DEF Base, IInv
<1> QED
  BY <1>1, IInvInit, PTL DEF Spec

\* Whatever pipes fail, a chunk that was sent is acknowledged, queued, or on a
\* live pipe that will still reinject it.
THEOREM NoChunkLostHolds == Spec => []NoChunkLost
<1>1. IInv => NoChunkLost
  BY DEF IInv
<1> QED
  BY <1>1, InvariantHolds, PTL

\* A chunk has one owner at a time, so information is reinjected from a pipe at
\* most once and from no pipe that was not suspected or failed.
THEOREM OneOwnerHolds == Spec => []OneOwner
<1>1. IInv => OneOwner
  BY DEF IInv
<1> QED
  BY <1>1, InvariantHolds, PTL

-----------------------------------------------------------------------------
(* Removal, and the refinement of Delivery.                                *)

\* A draining pipe that fails leaves every other pipe and what waits on it alone: of all
\* steps only the failure of that pipe itself takes it from DRAINING to FAILED, and then
\* it does not spread to its fate group.
LEMMA MatesSpared ==
  ASSUME TypeOK, [Next]_vars, NEW p \in Pipe, pst[p] = "DRAINING", pst'[p] = "FAILED"
  PROVE  \A q \in Pipe \ {p} : pst'[q] = pst[q] /\ reinj'[q] = reinj[q]
<1>1. ASSUME NEW r \in Pipe, \/ Join(r) \/ SendNew(r) \/ (\E c \in Chunk : ReSend(c, r))
                            \/ Suspect(r) \/ MarkDraining(r) \/ Remove(r) \/ RecvAbandon(r)
      PROVE  FALSE
  BY <1>1 DEF Join, SendNew, ReSend, Suspect, MarkDraining, Remove, RecvAbandon, TypeOK
<1>2. ASSUME NEW r \in Pipe, RecvAck(r) PROVE FALSE
  BY <1>2 DEF RecvAck
<1>3. ASSUME NEW r \in Pipe, Cut(r) \/ ReceiverStep(r) PROVE FALSE
  <2>1. pst' = pst
    BY <1>3 DEF Cut, ReceiverStep, Apply, EndInbound, SendAbandon, AnswerUnseen,
                AbandonError, svars
  <2> QED BY <2>1
<1>4. ASSUME Read \/ (\E Q \in AckPipes : SendAck(Q)) \/ UNCHANGED vars PROVE FALSE
  <2>1. pst' = pst
    BY <1>4 DEF Read, SendAck, vars, svars
  <2> QED BY <2>1
<1>5. ASSUME NEW r \in Pipe, FailStep(r)
      PROVE  \A q \in Pipe \ {p} : pst'[q] = pst[q] /\ reinj'[q] = reinj[q]
  <2>1. r = p
    <3>1. PICK spread \in BOOLEAN : FailPipe(r, spread)
      BY <1>5, FailStepIsFail
    <3> QED BY <3>1 DEF FailPipe
  <2>2. FailPipe(p, FALSE)
    BY <1>5, <2>1 DEF FailStep, CarrierError, JoinTimeout, StallFail, DeadTimeout,
                      RemoveAbrupt, DrainDeadline, RecvAbandonError
  <2> QED BY <2>2 DEF FailPipe, Reinject
<1> QED BY <1>1, <1>2, <1>3, <1>4, <1>5 DEF Next, SenderStep, FailStep, Over

\* A pipe that drains or has ended never takes stream data again and never comes
\* back, whatever arrives later, and its failure leaves the other pipes alone.
THEOREM RemovalStandsHolds == Spec => RemovalStands
<1> DEFINE Down == {"DRAINING", "CLOSED", "FAILED"}
<1>1. ASSUME TypeOK, [Next]_vars, NEW p \in Pipe, pst[p] \in Down
      PROVE  pst'[p] \in Down /\ log'[p] = log[p]
  <2>0. /\ \A q \in Pipe : pst[q] \in OutState
        /\ pst[p] \notin {"NONE", "JOINING", "ACTIVE", "SUSPECT"}
    BY <1>1 DEF TypeOK
  <2>1. ASSUME NEW q \in Pipe,
               \/ Join(q) \/ SendNew(q) \/ (\E c \in Chunk : ReSend(c, q))
        PROVE  pst'[p] \in Down /\ log'[p] = log[p]
    BY <1>1, <2>0, <2>1 DEF Join, SendNew, ReSend, MayCarryData, TypeOK
  <2>2. ASSUME NEW q \in Pipe, Suspect(q) \/ MarkDraining(q)
        PROVE  pst'[p] \in Down /\ log'[p] = log[p]
    BY <1>1, <2>0, <2>2 DEF Suspect, MarkDraining, Probe, TypeOK
  <2>3. ASSUME NEW q \in Pipe, FailStep(q)
        PROVE  pst'[p] \in Down /\ log'[p] = log[p]
    <3>1. PICK spread \in BOOLEAN : FailPipe(q, spread)
      BY <2>3, FailStepIsFail
    <3>2. p \notin Mates(q)
      BY <2>0 DEF Mates
    <3> QED
      BY <1>1, <3>1, <3>2 DEF FailPipe, Probe
  <2>4. ASSUME NEW q \in Pipe, RecvAck(q)
        PROVE  pst'[p] \in Down /\ log'[p] = log[p]
    BY <1>1, <2>0, <2>4 DEF RecvAck, Revived
  <2>5. ASSUME NEW q \in Pipe, Remove(q) \/ RecvAbandon(q)
        PROVE  pst'[p] \in Down /\ log'[p] = log[p]
    BY <1>1, <2>0, <2>5 DEF Remove, RecvAbandon, TypeOK
  <2>6. ASSUME NEW q \in Pipe, Cut(q) \/ ReceiverStep(q)
        PROVE  pst' = pst /\ log' = log
    BY <2>6 DEF Cut, ReceiverStep, Apply, EndInbound, SendAbandon, AnswerUnseen,
                AbandonError, svars
  <2>7. ASSUME Read \/ (\E Q \in AckPipes : SendAck(Q)) \/ UNCHANGED vars
        PROVE  pst' = pst /\ log' = log
    BY <2>7 DEF Read, SendAck, vars, svars
  <2> QED
    BY <1>1, <2>1, <2>2, <2>3, <2>4, <2>5, <2>6, <2>7 DEF Next, SenderStep, FailStep, Over
<1>2. TypeOK /\ [Next]_vars =>
        [\A p \in Pipe :
           /\ pst[p] \in {"DRAINING", "CLOSED", "FAILED"} =>
                /\ pst'[p] \in {"DRAINING", "CLOSED", "FAILED"}
                /\ log'[p] = log[p]
           /\ pst[p] = "DRAINING" /\ pst'[p] = "FAILED" =>
                \A q \in Pipe \ {p} : pst'[q] = pst[q] /\ reinj'[q] = reinj[q]]_vars
  BY <1>1, MatesSpared
<1> QED
  BY <1>2, TypeCorrect, PTL DEF Spec, RemovalStands

\* While the acknowledged positions stand still, so does what is acknowledged:
\* records are only appended, behind every position.
LEMMA AckedStands ==
  ASSUME Base, TypeOK', acked' = acked, \A p \in Pipe : Extends(p)
  PROVE  Acked' = Acked
<1>0. TypeOK /\ PositionsOrdered
  BY DEF Base
<1>1. Acked \subseteq Acked'
  <2>1. \A p \in Pipe : acked[p] <= acked'[p]
    BY <1>0 DEF TypeOK
  <2> QED
    BY <2>1, AckedGrows
<1>2. ASSUME NEW c \in Acked' PROVE c \in Acked
  <2>1. PICK p \in Pipe : \E i \in 1..Len(log'[p]) : i <= acked'[p] /\ log'[p][i] = c
    BY DEF Acked, Covered
  <2>2. PICK i \in 1..Len(log'[p]) : i <= acked'[p] /\ log'[p][i] = c
    BY <2>1
  <2>3. i \in 1..Len(log[p])
    BY <1>0, <2>2 DEF PositionsOrdered, TypeOK
  <2>4. log'[p][i] = log[p][i]
    BY <1>0, <2>3, ExtendsKeeps
  <2> QED
    BY <2>2, <2>3, <2>4 DEF Acked, Covered
<1> QED
  BY <1>1, <1>2

\* An acknowledgement releases chunks that have arrived.
LEMMA RecvAckReleases ==
  ASSUME Base, TypeOK', NEW q \in Pipe, RecvAck(q)
  PROVE  Acked \subseteq Acked' /\ Acked' \subseteq got
<1>0. TypeOK /\ PositionsOrdered /\ CountedIsApplied
  BY DEF Base
<1>1. log' = log
  BY DEF RecvAck
<1>2. \A p \in Pipe : acked[p] <= acked'[p] /\ acked'[p] <= rpos[p]
  BY AckIsBehind
<1>3. Acked \subseteq Acked'
  BY <1>1, <1>2, <1>0, AckedGrows DEF Extends
<1>4. ASSUME NEW c \in Acked' PROVE c \in got
  <2>1. PICK p \in Pipe : \E i \in 1..Len(log[p]) : i <= acked'[p] /\ log[p][i] = c
    BY <1>1 DEF Acked, Covered
  <2>2. PICK i \in 1..Len(log[p]) : i <= acked'[p] /\ log[p][i] = c
    BY <2>1
  <2>3. c # Control
    BY DEF Acked, Covered, Chunk, Control
  <2>4. i <= acked'[p] /\ acked'[p] <= rpos[p] /\ i \in Nat /\ 1 <= i
    BY <1>2, <2>2
  <2>5. acked'[p] \in Nat /\ rpos[p] \in Nat
    BY <1>0 DEF TypeOK
  <2>6. i \in 1..rpos[p]
    BY <2>4, <2>5
  <2> QED
    BY <1>0, <2>2, <2>3, <2>6 DEF CountedIsApplied
<1> QED
  BY <1>3, <1>4

\* Every step of the pipes is a step of Delivery or leaves it alone.
LEMMA StepRefines == Base /\ [Next]_vars => [Abstract!Next]_(Abstract!avars)
<1> SUFFICES ASSUME Base, [Next]_vars PROVE [Abstract!Next]_(Abstract!avars)
  OBVIOUS
<1>0. TypeOK /\ TypeOK' /\ OnlySent
  BY TypeStep DEF Base
<1>1. ASSUME NEW p \in Pipe, SendNew(p) PROVE Abstract!Take
  <2>1. /\ next < N /\ next' = next + 1 /\ acked' = acked /\ got' = got /\ read' = read
        /\ log' = [log EXCEPT ![p] = Append(@, next + 1)]
    BY <1>1 DEF SendNew, rvars
  <2>2. \A q \in Pipe : Extends(q)
    BY <1>0, <1>1, SendStepSends DEF SendStep, Sends
  <2>3. Acked' = Acked
    BY <1>0, <2>1, <2>2, AckedStands
  <2> QED
    BY <2>1, <2>3 DEF Abstract!Take
<1>2. ASSUME NEW p \in Pipe, SendStep(p), ~SendNew(p) PROVE UNCHANGED Abstract!avars
  <2>1. (\A q \in Pipe : Extends(q)) /\ acked' = acked /\ rvars' = rvars
    BY <1>0, <1>2, SendStepSends DEF Sends
  <2>2. Acked' = Acked
    BY <1>0, <2>1, AckedStands
  <2>3. next' = next
    <3>1. CASE FailStep(p)
      <4>1. PICK spread \in BOOLEAN : FailPipe(p, spread)
        BY <3>1, FailStepIsFail
      <4> QED
        BY <4>1 DEF FailPipe
    <3> QED
      BY <1>2, <3>1 DEF SendStep, Join, ReSend, Suspect, MarkDraining, Remove, RecvAbandon
  <2> QED
    BY <2>1, <2>2, <2>3 DEF Abstract!avars, rvars
<1>3. ASSUME NEW q \in Pipe, RecvAck(q) PROVE Abstract!Release
  <2>1. Acked \subseteq Acked' /\ Acked' \subseteq got
    BY <1>0, <1>3, RecvAckReleases
  <2>2. Acked' \in SUBSET got /\ Acked' = Acked \union Acked'
    BY <2>1
  <2>3. next' = next /\ got' = got /\ read' = read
    BY <1>3 DEF RecvAck, rvars
  <2> QED
    BY <2>2, <2>3 DEF Abstract!Release
<1>4. ASSUME NEW p \in Pipe, Apply(p) PROVE [Abstract!Next]_(Abstract!avars)
  <2>1. /\ svars' = svars /\ read' = read
        /\ rpos[p] < Len(log[p])
        /\ got' = got \union ({log[p][rpos[p] + 1]} \ {Control})
    BY <1>4 DEF Apply
  <2>2. next' = next /\ Acked' = Acked
    BY <2>1 DEF svars, Acked, Covered
  <2>3. CASE got' = got
    BY <2>1, <2>2, <2>3 DEF Abstract!avars
  <2>4. CASE got' # got
    <3> DEFINE c == log[p][rpos[p] + 1]
    <3>1. got' = got \union {c} /\ c \notin got /\ c # Control
      BY <2>1, <2>4
    <3>2. rpos[p] + 1 \in 1..Len(log[p])
      BY <1>0, <2>1 DEF TypeOK
    <3>3. c \in Frame /\ c <= next
      BY <1>0, <3>2 DEF OnlySent, TypeOK
    <3>4. next \in Nat
      BY <1>0, NAssumption DEF TypeOK
    <3>5. c \in (1..next) \ got
      BY <3>1, <3>3, <3>4, NAssumption DEF Frame, Control
    <3>6. Abstract!Arrive
      BY <2>1, <2>2, <3>1, <3>5 DEF Abstract!Arrive
    <3> QED
      BY <3>6 DEF Abstract!Next
  <2> QED
    BY <2>3, <2>4
<1>5. ASSUME Read PROVE Abstract!Read
  <2>1. svars' = svars /\ read + 1 \in got /\ read' = read + 1 /\ got' = got
    BY <1>5 DEF Read
  <2> QED
    BY <2>1 DEF Abstract!Read, svars, Acked, Covered
<1>6. ASSUME svars' = svars, got' = got, read' = read PROVE UNCHANGED Abstract!avars
  BY <1>6 DEF Abstract!avars, svars, Acked, Covered
<1>7. ASSUME NEW p \in Pipe,
             \/ Cut(p) \/ EndInbound(p) \/ SendAbandon(p) \/ AnswerUnseen(p)
             \/ AbandonError(p, "failed") \/ AbandonError(p, "limit")
      PROVE  svars' = svars /\ got' = got /\ read' = read
  BY <1>7 DEF Cut, EndInbound, SendAbandon, AnswerUnseen, AbandonError, rvars
<1>8. ASSUME (\E Q \in AckPipes : SendAck(Q)) \/ UNCHANGED vars
      PROVE  svars' = svars /\ got' = got /\ read' = read
  BY <1>8 DEF SendAck, vars, rvars
<1> QED
  BY <1>1, <1>2, <1>3, <1>4, <1>5, <1>6, <1>7, <1>8
  DEF Next, SenderStep, SendStep, FailStep, ReceiverStep, Over, Abstract!Next

\* The initial state of the pipes is the initial state of Delivery.
LEMMA InitRefines == Init => Abstract!Init
<1> SUFFICES ASSUME Init PROVE Abstract!Init
  OBVIOUS
<1>1. Acked = {}
  BY DEF Init, Acked, Covered
<1> QED
  BY <1>1 DEF Init, Abstract!Init

\* The pipes, with their failures, removals and lost acknowledgements, implement
\* a reliable, ordered, exactly-once delivery.
THEOREM Refinement == Spec => ImplementsDelivery
<1>1. Spec => []Base
  BY BaseCorrect
<1> QED
  BY <1>1, InitRefines, StepRefines, PTL DEF Spec, ImplementsDelivery, Abstract!Spec

-----------------------------------------------------------------------------
(* The end of a graceful removal.                                          *)

\* A pipe is closed, or its abandon was received, only after the receiver sent one.
Warned == \A p \in Pipe : exch[p] \/ pst[p] = "CLOSED" => pab[p] # "none"

\* That is inductive: closing needs the exchange, and an abandon stays sent.
LEMMA WarnedStep == TypeOK /\ Warned /\ [Next]_vars => Warned'
<1> SUFFICES ASSUME TypeOK, Warned, [Next]_vars PROVE Warned'
  OBVIOUS
<1>1. ASSUME \A p \in Pipe : (exch'[p] => exch[p]) /\ (pst'[p] = "CLOSED" => pst[p] = "CLOSED" \/ exch[p]),
             \A p \in Pipe : pab[p] # "none" => pab'[p] # "none"
      PROVE  Warned'
  BY <1>1 DEF Warned
<1>2. ASSUME NEW q \in Pipe, Join(q) \/ SendNew(q) \/ (\E c \in Chunk : ReSend(c, q))
                             \/ Suspect(q) \/ MarkDraining(q) \/ Remove(q)
      PROVE  Warned'
  <2>1. pab' = pab /\ exch' = exch
    BY <1>2 DEF Join, SendNew, ReSend, Suspect, MarkDraining, Remove, rvars
  <2>2. \A p \in Pipe : pst'[p] = "CLOSED" => pst[p] = "CLOSED"
    BY <1>2 DEF Join, SendNew, ReSend, Suspect, MarkDraining, Remove, TypeOK
  <2> QED
    BY <1>1, <2>1, <2>2
<1>3. ASSUME NEW q \in Pipe, FailStep(q) PROVE Warned'
  <2>1. PICK spread \in BOOLEAN : FailPipe(q, spread)
    BY <1>3, FailStepIsFail
  <2>2. pab' = pab /\ exch' = exch /\ \A p \in Pipe : pst'[p] = "CLOSED" => pst[p] = "CLOSED"
    BY <2>1 DEF FailPipe, rvars
  <2> QED
    BY <1>1, <2>2
<1>4. ASSUME NEW q \in Pipe, RecvAck(q) PROVE Warned'
  <2>1. pab' = pab /\ exch' = exch
        /\ \A p \in Pipe : pst'[p] = "CLOSED" => pst[p] = "CLOSED" \/ exch[p]
    BY <1>4 DEF RecvAck, Drained, rvars
  <2> QED
    BY <1>1, <2>1
<1>5. ASSUME NEW q \in Pipe, RecvAbandon(q) PROVE Warned'
  <2>1. /\ pab' = pab /\ pab[q] = "ok"
        /\ \A p \in Pipe \ {q} : exch'[p] = exch[p] /\ pst'[p] = pst[p]
    BY <1>5 DEF RecvAbandon, rvars, TypeOK
  <2> QED
    BY <2>1 DEF Warned
<1>6. ASSUME NEW q \in Pipe, Cut(q) \/ Apply(q) PROVE Warned'
  BY <1>6 DEF Cut, Apply, svars, rvars, Warned
<1>7. ASSUME NEW q \in Pipe,
             \/ EndInbound(q) \/ SendAbandon(q) \/ AnswerUnseen(q)
             \/ AbandonError(q, "failed") \/ AbandonError(q, "limit")
      PROVE  Warned'
  <2>1. exch' = exch /\ pst' = pst
    BY <1>7 DEF EndInbound, SendAbandon, AnswerUnseen, AbandonError, svars
  <2>2. \A p \in Pipe : pab[p] # "none" => pab'[p] # "none"
    BY <1>7 DEF EndInbound, SendAbandon, AnswerUnseen, AbandonError, TypeOK
  <2> QED
    BY <1>1, <2>1, <2>2
<1>8. ASSUME Read \/ (\E Q \in AckPipes : SendAck(Q)) \/ UNCHANGED vars PROVE Warned'
  BY <1>8 DEF Read, SendAck, vars, svars, rvars, Warned
<1> QED
  BY <1>2, <1>3, <1>4, <1>5, <1>6, <1>7, <1>8 DEF Next, SenderStep, FailStep, ReceiverStep, Over

\* The receiver of a gracefully removed pipe always knows that its end of stream
\* is coming, so that it never answers a completed removal with an error.
THEOREM EndIsExpectedHolds == Spec => []EndIsExpected
<1>1. Init => Warned
  BY DEF Init, Warned
<1>2. Warned => EndIsExpected
  BY DEF Warned, EndIsExpected
<1> QED
  BY <1>1, <1>2, WarnedStep, TypeCorrect, PTL DEF Spec
=============================================================================
