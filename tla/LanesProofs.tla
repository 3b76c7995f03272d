---------------------------- MODULE LanesProofs -----------------------------
(***************************************************************************)
(* Theorems about Lanes, for any number of lanes and of streams.  The       *)
(* invariant says where the data that is still to be read can be: on one    *)
(* lane per stream, in order and without a gap; what a lane holds before    *)
(* it is confirmed; and why a lane is cut off.  For each stream the lanes   *)
(* implement Delivery.                                                     *)
(***************************************************************************)
EXTENDS Lanes, SequenceTheorems, TLAPS

IsData(r) == r.type = "STREAM"

\* Before it is confirmed a lane holds at most the record that opens it.
Opening ==
  /\ lane[0] = "confirmed"
  /\ \A l \in Extra :
       /\ lane[l] = "none" => written[l] = <<>>
       /\ lane[l] \in {"opened", "refused"} => written[l] = <<PIPE_LANE>>
       /\ lane[l] = "confirmed" => acked[l] > 0

\* The CONNECTION_CLOSE is the last record of lane 0, and read when the session is closed.
Closing ==
  /\ \A l \in Lane : \A i \in 1..Len(written[l]) :
       written[l][i] = CLOSE => l = 0 /\ i = Len(written[0]) /\ sview = "closed"
  /\ sview = "closed" => Len(written[0]) > 0 /\ written[0][Len(written[0])] = CLOSE
  /\ rview = "open" => 0 \notin ended /\ \A i \in 1..read[0] : written[0][i] # CLOSE
  /\ rview = "closed" => read[0] = Len(written[0]) /\ sview = "closed"

\* The data of a stream is in the order of its pieces on each lane.
Sorted ==
  \A l \in Lane : \A i, j \in 1..Len(written[l]) :
    /\ IsData(written[l][i]) => written[l][i].piece <= sent[written[l][i].id]
    /\ i < j /\ IsData(written[l][i]) /\ IsData(written[l][j])
       /\ written[l][i].id = written[l][j].id => written[l][i].piece < written[l][j].piece

\* What is unread of a stream is on its lane, and is all that was not received.
Unread ==
  /\ \A l \in Lane : \A i \in (read[l] + 1)..Len(written[l]) :
       IsData(written[l][i]) => /\ home[written[l][i].id] = l
                                /\ got[written[l][i].id] < written[l][i].piece
  /\ \A s \in Stream :
       /\ got[s] <= sent[s]
       /\ \A n \in (got[s] + 1)..sent[s] :
            \E i \in (read[home[s]] + 1)..Len(written[home[s]]) :
              written[home[s]][i] = STREAM(s, n)

\* A close that waited leaves nothing to read on the other lanes.
Behind ==
  closing = "sent" =>
    /\ sview = "closed"
    /\ \A l \in Extra : \A i \in (read[l] + 1)..Len(written[l]) : ~IsData(written[l][i])

\* A lane is cut off by a fault, as refused, or by the receiver before it read it.
CutOff ==
  "lost" \notin {sview, rview} =>
    \A l \in failed : l \in broken \/ lane[l] = "refused" \/ (l \in Extra \cap ended /\ read[l] = 0)

IInv == /\ TypeOK /\ Opening /\ Closing /\ Sorted /\ Unread /\ Behind /\ CutOff
        /\ InOrder /\ CloseComesLast /\ LostByFaultOnly

-----------------------------------------------------------------------------
LEMMA RecordKinds ==
  /\ {PIPE_LANE, CLOSE} \subseteq Record
  /\ \A s \in Stream : \A n \in 1..MaxUnits : STREAM(s, n) \in Record
  /\ ~IsData(PIPE_LANE) /\ ~IsData(CLOSE) /\ PIPE_LANE # CLOSE
  /\ \A s, n : /\ IsData(STREAM(s, n)) /\ STREAM(s, n) # CLOSE
               /\ STREAM(s, n).id = s /\ STREAM(s, n).piece = n
  /\ \A r \in Record :
       /\ r.type = "PIPE_LANE" => ~IsData(r) /\ r # CLOSE
       /\ r.type = "CONNECTION_CLOSE" => r = CLOSE
       /\ IsData(r) => /\ r.id \in Stream /\ r.piece \in 1..MaxUnits
                      /\ r = STREAM(r.id, r.piece) /\ r # CLOSE
<1>1. \A s, n : STREAM(s, n).type = "STREAM" /\ STREAM(s, n).id = s /\ STREAM(s, n).piece = n
  BY DEF STREAM
<1>2. PIPE_LANE.type = "PIPE_LANE" /\ CLOSE.type = "CONNECTION_CLOSE"
  BY DEF PIPE_LANE, CLOSE
<1>3. {PIPE_LANE, CLOSE} \subseteq Record /\ \A s \in Stream : \A n \in 1..MaxUnits : STREAM(s, n) \in Record
  BY DEF Record
<1>4. \A s, n : IsData(STREAM(s, n)) /\ STREAM(s, n) # CLOSE
  <2> TAKE s, n
  <2> QED BY <1>1, <1>2 DEF IsData
<1>5. ~IsData(PIPE_LANE) /\ ~IsData(CLOSE) /\ PIPE_LANE # CLOSE
  BY <1>2 DEF IsData
<1>6. ASSUME NEW r \in Record
      PROVE  /\ r.type = "PIPE_LANE" => ~IsData(r) /\ r # CLOSE
             /\ r.type = "CONNECTION_CLOSE" => r = CLOSE
             /\ IsData(r) => /\ r.id \in Stream /\ r.piece \in 1..MaxUnits
                            /\ r = STREAM(r.id, r.piece) /\ r # CLOSE
  <2>1. CASE r = PIPE_LANE
    BY <2>1, <1>2, <1>5 DEF IsData
  <2>2. CASE r = CLOSE
    BY <2>2, <1>2, <1>5 DEF IsData
  <2>3. ASSUME NEW s \in Stream, NEW n \in 1..MaxUnits, r = STREAM(s, n)
        PROVE  /\ r.type = "STREAM" /\ r.id = s /\ r.piece = n
               /\ r = STREAM(r.id, r.piece) /\ r # CLOSE
    BY <2>3, <1>1, <1>4
  <2> QED BY <2>1, <2>2, <2>3 DEF Record, IsData
<1> QED BY <1>1, <1>3, <1>4, <1>5, <1>6

LEMMA Appended ==
  ASSUME NEW q \in Seq(Record), NEW r \in Record
  PROVE  /\ Append(q, r) \in Seq(Record) /\ Len(Append(q, r)) = Len(q) + 1
         /\ \A i \in 1..Len(q) : Append(q, r)[i] = q[i]
         /\ Append(q, r)[Len(q) + 1] = r
  OBVIOUS

LEMMA LaneNumbers == Lane \subseteq Nat /\ 0 \in Lane /\ Extra \subseteq Lane /\ 0 \notin Extra
  BY LanesAssumption DEF Lane, Extra

\* What the type invariant says of one lane and of one stream.
LEMMA Facts ==
  ASSUME TypeOK
  PROVE  /\ \A l \in Lane : /\ Len(written[l]) \in Nat /\ read[l] \in Nat /\ acked[l] \in Nat
                            /\ acked[l] <= read[l] /\ read[l] <= Len(written[l])
                            /\ \A i \in 1..Len(written[l]) : written[l][i] \in Record
         /\ \A s \in Stream : /\ home[s] \in Lane /\ sent[s] \in 0..MaxUnits
                              /\ got[s] \in 0..MaxUnits
  BY LanesAssumption DEF TypeOK

-----------------------------------------------------------------------------
LEMMA InitHolds == Init => IInv
<1> SUFFICES ASSUME Init PROVE IInv
  OBVIOUS
<1> USE LaneNumbers DEF Init
<1>1. TypeOK
  <2>1. written \in [Lane -> Seq(Record)] /\ \A l \in Lane : Len(written[l]) = 0
    OBVIOUS
  <2>2. 0 \in 0..MaxUnits
    BY LanesAssumption
  <2> QED BY <2>1, <2>2 DEF TypeOK
<1>2. \A l \in Lane : Len(written[l]) = 0 /\ read[l] = 0
  OBVIOUS
<1>3. Opening
  BY DEF Opening
<1>4. Closing
  BY <1>2 DEF Closing
<1>5. Sorted
  BY <1>2 DEF Sorted
<1>6. Unread
  BY <1>2 DEF Unread
<1>7. Behind /\ CutOff /\ InOrder /\ CloseComesLast /\ LostByFaultOnly
  BY DEF Behind, CutOff, InOrder, CloseComesLast, LostByFaultOnly
<1> QED BY <1>1, <1>3, <1>4, <1>5, <1>6, <1>7 DEF IInv

-----------------------------------------------------------------------------
(* The type invariant.                                                     *)

\* One record more on a lane.
LEMMA WrittenGrows ==
  ASSUME TypeOK, NEW l \in Lane, NEW r \in Record, written' = [written EXCEPT ![l] = Append(@, r)]
  PROVE  /\ written' \in [Lane -> Seq(Record)]
         /\ Len(written'[l]) = Len(written[l]) + 1 /\ written'[l][Len(written[l]) + 1] = r
         /\ \A k \in Lane : /\ Len(written'[k]) >= Len(written[k])
                            /\ k # l => written'[k] = written[k]
                            /\ \A i \in 1..Len(written[k]) : written'[k][i] = written[k][i]
                            /\ \A i \in 1..Len(written'[k]) :
                                 \/ i \in 1..Len(written[k]) /\ written'[k][i] = written[k][i]
                                 \/ k = l /\ i = Len(written[l]) + 1 /\ written'[k][i] = r
<1>1. written \in [Lane -> Seq(Record)]
  BY DEF TypeOK
<1>2. written'[l] = Append(written[l], r) /\ \A k \in Lane : k # l => written'[k] = written[k]
  BY <1>1
<1>3. /\ Append(written[l], r) \in Seq(Record)
      /\ Len(Append(written[l], r)) = Len(written[l]) + 1
      /\ \A i \in 1..Len(written[l]) : Append(written[l], r)[i] = written[l][i]
      /\ Append(written[l], r)[Len(written[l]) + 1] = r
  BY <1>1, Appended
<1>4. \A k \in Lane : Len(written[k]) \in Nat
  BY <1>1
<1> HIDE <1>3 DEF Record
<1> QED BY <1>1, <1>2, <1>3, <1>4

LEMMA TypeStep == TypeOK /\ Opening /\ [Next]_vars => TypeOK'
<1> SUFFICES ASSUME TypeOK, Opening, [Next]_vars PROVE TypeOK'
  OBVIOUS
<1> USE LaneNumbers
<1>1. ASSUME NEW l \in Lane, NEW s \in Stream, Write(s, l) PROVE TypeOK'
  <2>1. sent[s] + 1 \in 1..MaxUnits /\ sent' \in [Stream -> 0..MaxUnits]
    <3>1. sent[s] < MaxUnits /\ sent' = [sent EXCEPT ![s] = @ + 1]
      BY <1>1 DEF Write
    <3>2. sent[s] \in Nat /\ sent[s] + 1 \in 1..MaxUnits /\ sent[s] + 1 \in 0..MaxUnits
      BY <3>1, LanesAssumption, Facts
    <3> QED BY <3>1, <3>2 DEF TypeOK
  <2>2. STREAM(s, sent[s] + 1) \in Record
    BY <2>1, RecordKinds
  <2>3. /\ written' \in [Lane -> Seq(Record)]
        /\ \A k \in Lane : Len(written'[k]) >= Len(written[k])
    BY <1>1, <2>2, WrittenGrows DEF Write
  <2>4. \A k \in Lane : Len(written'[k]) \in Nat
    BY <2>3
  <2>5. home' \in [Stream -> Lane]
    BY <1>1 DEF Write, TypeOK
  <2>6. \A k \in Lane : read[k] <= Len(written'[k])
    BY <2>3, <2>4, Facts
  <2>7. UNCHANGED <<lane, acked, closing, sview, read, got, ended, rview, ack, failed, broken>>
    BY <1>1 DEF Write, rvars, cvars
  <2> QED BY <2>1, <2>3, <2>5, <2>6, <2>7 DEF TypeOK
<1>2. ASSUME NEW l \in Extra, OpenLane(l) PROVE TypeOK'
  <2>1. written[l] = <<>> /\ read[l] = 0
    BY <1>2 DEF OpenLane, Opening, TypeOK
  <2>2. <<PIPE_LANE>> \in Seq(Record) /\ Len(<<PIPE_LANE>>) = 1
    BY RecordKinds
  <2>3. /\ written' \in [Lane -> Seq(Record)]
        /\ \A k \in Lane : read[k] <= Len(written'[k])
    BY <1>2, <2>1, <2>2 DEF OpenLane, TypeOK
  <2>4. lane' \in [Lane -> {"none", "opened", "confirmed", "refused"}]
    BY <1>2 DEF OpenLane, TypeOK
  <2> QED BY <1>2, <2>3, <2>4 DEF OpenLane, rvars, cvars, TypeOK
<1>3. CASE RecvAck
  <2>1. /\ acked' \in [Lane -> Nat] /\ \A l \in Lane : acked'[l] <= ack[l]
        /\ lane' \in [Lane -> {"none", "opened", "confirmed", "refused"}]
    BY <1>3 DEF RecvAck, TypeOK
  <2> QED BY <1>3, <2>1 DEF RecvAck, rvars, cvars, TypeOK
<1>4. ASSUME NEW l \in Lane, Refused(l) \/ Unconfirmed(l) PROVE TypeOK'
  <2>1. lane' \in [Lane -> {"none", "opened", "confirmed", "refused"}]
    BY <1>4 DEF Refused, Unconfirmed, TypeOK
  <2>2. failed' \subseteq Lane /\ broken' \subseteq failed'
    <3>1. broken' = broken /\ (failed' = failed \/ failed' = failed \union {l})
      BY <1>4 DEF Refused, Unconfirmed, cvars
    <3> QED BY <3>1 DEF TypeOK
  <2>3. UNCHANGED <<written, acked, home, sent, closing, sview, read, got, ended, rview, ack>>
    BY <1>4 DEF Refused, Unconfirmed, rvars, cvars
  <2> QED BY <2>1, <2>2, <2>3 DEF TypeOK
<1>5. ASSUME NEW l \in Lane, LaneFails(l) PROVE TypeOK'
  BY <1>5 DEF LaneFails, rvars, cvars, TypeOK
<1>6. CASE Close
  BY <1>6 DEF Close, rvars, cvars, TypeOK
<1>7. ASSUME NEW how \in {"sent", "lingered"}, EndWith(how) PROVE TypeOK'
  <2>1. /\ written' \in [Lane -> Seq(Record)]
        /\ \A k \in Lane : Len(written'[k]) >= Len(written[k])
    BY <1>7, RecordKinds, WrittenGrows DEF EndWith
  <2>2. \A k \in Lane : read[k] <= Len(written'[k])
    <3>1. \A k \in Lane : Len(written'[k]) \in Nat
      BY <2>1
    <3>2. \A k \in Lane : /\ read[k] \in Nat /\ Len(written[k]) \in Nat
                         /\ read[k] <= Len(written[k]) /\ Len(written'[k]) >= Len(written[k])
      BY <2>1, Facts
    <3> QED BY <3>1, <3>2
  <2>3. /\ UNCHANGED <<lane, acked, home, sent, read, got, ended, rview, ack, failed, broken>>
        /\ closing' \in {"sent", "lingered"} /\ sview' = "closed"
    BY <1>7 DEF EndWith, rvars, cvars
  <2> QED BY <2>1, <2>2, <2>3 DEF TypeOK
<1>8. ASSUME NEW l \in Lane, Read(l) PROVE TypeOK'
  <2> DEFINE record == written[l][read[l] + 1]
  <2>1. record \in Record /\ read[l] + 1 <= Len(written[l]) /\ Len(written[l]) \in Nat
    BY <1>8 DEF Read, TypeOK
  <2>2. /\ read' \in [Lane -> Nat]
        /\ \A k \in Lane : ack[k] <= read'[k] /\ read'[k] <= Len(written[k])
    BY <1>8, <2>1 DEF Read, TypeOK
  <2>3. CASE record.type = "STREAM" /\ record.piece = got[record.id] + 1
    <3>1. record.id \in Stream /\ record.piece \in 1..MaxUnits
      BY <2>1, <2>3, RecordKinds DEF IsData
    <3>2. got' = [got EXCEPT ![record.id] = @ + 1] /\ rview' = rview
      BY <1>8, <2>3 DEF Read
    <3>3. got' \in [Stream -> 0..MaxUnits]
      BY <2>3, <3>1, <3>2, LanesAssumption DEF TypeOK
    <3> QED BY <1>8, <2>2, <3>2, <3>3 DEF Read, svars, cvars, TypeOK
  <2>4. CASE ~(record.type = "STREAM" /\ record.piece = got[record.id] + 1)
    <3>1. got' = got /\ rview' \in {"open", "closed", "violation"}
      BY <1>8, <2>4 DEF Read
    <3>2. UNCHANGED <<svars, ended, cvars>>
      BY <1>8 DEF Read
    <3> QED BY <2>2, <3>1, <3>2 DEF svars, cvars, TypeOK
  <2> QED BY <2>3, <2>4
<1>9. CASE SendAck
  <2>1. ack' = read /\ UNCHANGED <<svars, rvars, failed, broken>>
    BY <1>9 DEF SendAck
  <2>2. \A l \in Lane : acked[l] <= read[l] /\ read[l] <= read[l]
    BY Facts
  <2> QED BY <2>1, <2>2 DEF svars, rvars, TypeOK
<1>10. ASSUME NEW l \in Lane, RejectLane(l) \/ LaneError(l) PROVE TypeOK'
  BY <1>10 DEF RejectLane, LaneError, svars, cvars, TypeOK
<1>11. ASSUME NEW l \in Lane, LaneEnds(l) PROVE TypeOK'
  BY <1>11 DEF LaneEnds, svars, cvars, TypeOK
<1>12. ASSUME NEW l \in Lane, Fault(l) PROVE TypeOK'
  BY <1>12 DEF Fault, svars, rvars, TypeOK
<1>13. CASE UNCHANGED vars
  BY <1>13 DEF vars, svars, rvars, cvars, TypeOK
<1> QED BY <1>1, <1>2, <1>3, <1>4, <1>5, <1>6, <1>7, <1>8, <1>9, <1>10, <1>11, <1>12, <1>13
        DEF Next, SendClose, Linger

-----------------------------------------------------------------------------
(* The lanes that are not confirmed, and the close.                        *)

LEMMA OpeningStep == TypeOK /\ Opening /\ [Next]_vars => Opening'
<1> SUFFICES ASSUME TypeOK, Opening, [Next]_vars PROVE Opening'
  OBVIOUS
<1> USE LaneNumbers
<1>1. ASSUME NEW l \in Lane, NEW s \in Stream, Write(s, l) PROVE Opening'
  <2>1. lane[l] = "confirmed" /\ UNCHANGED <<lane, acked>>
    BY <1>1 DEF Write, MayCarry
  <2>2. \A k \in Lane : k # l => written'[k] = written[k]
    BY <1>1 DEF Write, TypeOK
  <2> QED BY <2>1, <2>2 DEF Opening
<1>2. ASSUME NEW l \in Extra, OpenLane(l) PROVE Opening'
  <2>1. /\ lane'[l] = "opened" /\ written'[l] = <<PIPE_LANE>> /\ UNCHANGED acked
        /\ \A k \in Lane : k # l => lane'[k] = lane[k] /\ written'[k] = written[k]
    BY <1>2 DEF OpenLane, TypeOK
  <2> QED BY <2>1 DEF Opening
<1>3. CASE RecvAck
  <2>1. UNCHANGED written
    BY <1>3 DEF RecvAck
  <2>2. \A l \in Lane :
          /\ acked'[l] = IF lane[l] = "refused" THEN acked[l] ELSE ack[l]
          /\ lane'[l] = IF lane[l] = "opened" /\ ack[l] > 0 THEN "confirmed" ELSE lane[l]
    BY <1>3 DEF RecvAck
  <2>3. \A l \in Lane : /\ acked[l] \in Nat /\ ack[l] \in Nat /\ acked[l] <= ack[l]
    BY DEF TypeOK
  <2>4. lane'[0] = "confirmed"
    BY <2>2 DEF Opening
  <2>5. ASSUME NEW l \in Extra
        PROVE  /\ lane'[l] = "none" => lane[l] = "none"
               /\ lane'[l] \in {"opened", "refused"} => lane[l] \in {"opened", "refused"}
               /\ lane'[l] = "confirmed" => acked'[l] > 0
    <3>1. CASE lane[l] = "confirmed"
      BY <2>2, <2>3, <3>1 DEF Opening
    <3>2. CASE lane[l] # "confirmed"
      BY <2>2, <3>2
    <3> QED BY <3>1, <3>2
  <2> QED BY <2>1, <2>4, <2>5 DEF Opening
<1>4. ASSUME NEW l \in Lane, Refused(l) \/ Unconfirmed(l) PROVE Opening'
  <2>1. /\ lane[l] = "opened" /\ lane'[l] = "refused" /\ UNCHANGED <<written, acked>>
        /\ \A k \in Lane : k # l => lane'[k] = lane[k]
    BY <1>4 DEF Refused, Unconfirmed, TypeOK
  <2> QED BY <2>1 DEF Opening
<1>5. ASSUME NEW how, EndWith(how) PROVE Opening'
  <2>1. UNCHANGED <<lane, acked>> /\ \A k \in Extra : written'[k] = written[k]
    BY <1>5 DEF EndWith, TypeOK
  <2> QED BY <2>1 DEF Opening
<1>6. CASE UNCHANGED <<lane, written, acked>>
  BY <1>6 DEF Opening
<1>7. \/ UNCHANGED <<lane, written, acked>>
      \/ RecvAck \/ (\E how : EndWith(how)) \/ (\E l \in Extra : OpenLane(l))
      \/ \E l \in Lane : Refused(l) \/ Unconfirmed(l) \/ \E s \in Stream : Write(s, l)
  BY DEF Next, SendClose, Linger, Close, LaneFails, Read, SendAck, RejectLane, LaneError,
         LaneEnds, Fault, vars, svars
<1> QED BY <1>1, <1>2, <1>3, <1>4, <1>5, <1>6, <1>7

LEMMA ClosingStep == TypeOK /\ Opening /\ Closing /\ [Next]_vars => Closing'
<1> SUFFICES ASSUME TypeOK, Opening, Closing, [Next]_vars PROVE Closing'
  OBVIOUS
<1> USE LaneNumbers
<1>0. /\ \A l \in Lane : /\ Len(written[l]) \in Nat /\ read[l] \in Nat /\ read[l] <= Len(written[l])
                         /\ \A i \in 1..Len(written[l]) : written[l][i] \in Record
  BY DEF TypeOK
<1>1. ASSUME NEW l \in Lane, NEW s \in Stream, Write(s, l) PROVE Closing'
  <2> DEFINE r == STREAM(s, sent[s] + 1)
  <2>1. r \in Record /\ r # CLOSE
    <3>1. sent[s] + 1 \in 1..MaxUnits
      BY <1>1, LanesAssumption DEF Write, TypeOK
    <3> QED BY <3>1, RecordKinds
  <2>2. sview = "open" /\ rview # "closed" /\ UNCHANGED <<sview, read, rview, ended>>
    BY <1>1 DEF Write, rvars, Closing
  <2>3. written' = [written EXCEPT ![l] = Append(@, r)]
    BY <1>1 DEF Write
  <2> HIDE DEF r
  <2>4. \A k \in Lane : \A i \in 1..Len(written'[k]) : written'[k][i] # CLOSE
    BY <2>1, <2>2, <2>3, WrittenGrows DEF Closing
  <2>5. read[0] <= Len(written'[0]) /\ Len(written'[0]) \in Nat
    BY <1>0, <2>1, <2>3, WrittenGrows
  <2> QED BY <1>0, <2>2, <2>4, <2>5 DEF Closing
<1>2. ASSUME NEW l \in Extra, OpenLane(l) PROVE Closing'
  <2>1. /\ written'[l] = <<PIPE_LANE>> /\ UNCHANGED <<sview, read, rview, ended>>
        /\ \A k \in Lane : k # l => written'[k] = written[k]
    BY <1>2 DEF OpenLane, rvars, TypeOK
  <2>2. \A i \in 1..Len(written'[l]) : written'[l][i] # CLOSE
    BY <2>1, RecordKinds
  <2>3. written'[0] = written[0]
    BY <2>1
  <2> QED BY <2>1, <2>2, <2>3 DEF Closing
<1>3. ASSUME NEW how, EndWith(how) PROVE Closing'
  <2>1. /\ sview = "open" /\ sview' = "closed" /\ UNCHANGED <<read, rview, ended>>
        /\ written' = [written EXCEPT ![0] = Append(@, CLOSE)]
    BY <1>3 DEF EndWith, rvars
  <2>2. CLOSE \in Record
    BY RecordKinds
  <2>3. /\ Len(written'[0]) = Len(written[0]) + 1 /\ written'[0][Len(written'[0])] = CLOSE
        /\ \A i \in 1..read[0] : written'[0][i] = written[0][i]
    <3>1. /\ Len(written'[0]) = Len(written[0]) + 1 /\ written'[0][Len(written[0]) + 1] = CLOSE
          /\ \A i \in 1..Len(written[0]) : written'[0][i] = written[0][i]
      BY <2>1, <2>2, WrittenGrows
    <3> QED BY <1>0, <3>1
  <2>4. \A k \in Lane : \A i \in 1..Len(written'[k]) :
          written'[k][i] = CLOSE => k = 0 /\ i = Len(written'[0])
    BY <2>1, <2>2, <2>3, WrittenGrows DEF Closing
  <2> QED BY <1>0, <2>1, <2>3, <2>4 DEF Closing
<1>4. ASSUME NEW l \in Lane, LaneFails(l) PROVE Closing'
  BY <1>4 DEF LaneFails, rvars, Closing
<1>5. ASSUME NEW l \in Lane, Read(l) PROVE Closing'
  <2> DEFINE record == written[l][read[l] + 1]
  <2>1. /\ rview = "open" /\ read[l] < Len(written[l]) /\ UNCHANGED <<written, sview, ended>>
        /\ read' = [read EXCEPT ![l] = @ + 1]
        /\ \/ rview' \in {"open", "violation"} /\ record.type \in {"PIPE_LANE", "STREAM"}
           \/ rview' = "closed" /\ record.type = "CONNECTION_CLOSE"
    BY <1>5 DEF Read, svars
  <2>2. /\ read'[l] = read[l] + 1 /\ read[l] + 1 \in 1..Len(written[l]) /\ record \in Record
        /\ \A k \in Lane : k # l => read'[k] = read[k]
    BY <1>0, <2>1 DEF TypeOK
  <2>3. CASE rview' = "closed"
    <3>1. record = CLOSE
      BY <2>1, <2>2, <2>3, RecordKinds
    <3>2. l = 0 /\ read'[0] = Len(written[0]) /\ sview = "closed"
      BY <2>2, <3>1 DEF Closing
    <3> QED BY <2>1, <2>3, <3>2 DEF Closing
  <2>4. CASE rview' # "closed"
    <3>1. record # CLOSE
      BY <2>1, <2>2, <2>4, RecordKinds DEF IsData
    <3>2. \A i \in 1..read'[0] : written[0][i] # CLOSE
      BY <1>0, <2>1, <2>2, <3>1 DEF Closing
    <3> QED BY <2>1, <2>4, <3>2 DEF Closing
  <2> QED BY <2>3, <2>4
<1>6. ASSUME NEW l \in Lane, RejectLane(l) PROVE Closing'
  BY <1>6 DEF RejectLane, svars, Closing
<1>7. ASSUME NEW l \in Lane, LaneError(l) PROVE Closing'
  BY <1>7 DEF LaneError, svars, Closing
<1>8. ASSUME NEW l \in Lane, LaneEnds(l) PROVE Closing'
  <2>1. l # 0
    BY <1>0, <1>8 DEF LaneEnds, Closing
  <2>2. /\ UNCHANGED <<written, sview, read>> /\ ended' = ended \union {l}
        /\ rview = "open" /\ rview' \in {"open", "lost"}
    BY <1>8 DEF LaneEnds, svars
  <2> QED BY <2>1, <2>2 DEF Closing
<1>9. CASE UNCHANGED <<written, sview, read, rview, ended>>
  BY <1>9 DEF Closing
<1>10. \/ UNCHANGED <<written, sview, read, rview, ended>>
       \/ (\E how : EndWith(how)) \/ (\E l \in Extra : OpenLane(l))
       \/ \E l \in Lane : \/ \E s \in Stream : Write(s, l)
                          \/ LaneFails(l) \/ Read(l) \/ RejectLane(l) \/ LaneError(l) \/ LaneEnds(l)
  BY DEF Next, SendClose, Linger, RecvAck, Close, SendAck, Refused, Unconfirmed, Fault,
         vars, svars, rvars
<1> QED BY <1>1, <1>2, <1>3, <1>4, <1>5, <1>6, <1>7, <1>8, <1>9, <1>10

-----------------------------------------------------------------------------
(* The order of the data.                                                  *)

\* The next piece of a stream to be read is the next one.
LEMMA NextInOrder ==
  ASSUME TypeOK, Sorted, Unread, NEW l \in Lane, read[l] < Len(written[l]),
         IsData(written[l][read[l] + 1])
  PROVE  written[l][read[l] + 1].piece = got[written[l][read[l] + 1].id] + 1
<1> DEFINE p == read[l] + 1
           r == written[l][p]
           s == r.id
<1>1. p \in (read[l] + 1)..Len(written[l]) /\ p \in 1..Len(written[l]) /\ r \in Record
  BY Facts
<1>2. s \in Stream /\ r.piece \in 1..MaxUnits
  BY <1>1, RecordKinds
<1>3. home[s] = l /\ got[s] < r.piece /\ r.piece <= sent[s]
  BY <1>1 DEF Sorted, Unread
<1>4. SUFFICES ASSUME r.piece # got[s] + 1 PROVE FALSE
  OBVIOUS
<1>5. got[s] + 1 \in (got[s] + 1)..sent[s] /\ got[s] + 1 < r.piece
  <2>1. got[s] \in Nat /\ sent[s] \in Nat /\ r.piece \in Nat
    BY <1>2, Facts
  <2> HIDE DEF s, r
  <2> QED BY <1>3, <1>4, <2>1
<1>6. PICK i \in p..Len(written[l]) : written[l][i] = STREAM(s, got[s] + 1)
  <2>1. home[s] = l /\ s \in Stream
    BY <1>2, <1>3
  <2> HIDE DEF s, r
  <2>2. \E i \in (read[home[s]] + 1)..Len(written[home[s]]) :
          written[home[s]][i] = STREAM(s, got[s] + 1)
    BY <1>5, <2>1 DEF Unread
  <2> QED BY <2>1, <2>2
<1>7. IsData(written[l][i]) /\ written[l][i].id = s /\ written[l][i].piece = got[s] + 1
  BY <1>6, RecordKinds
<1>8. i \in 1..Len(written[l]) /\ (i = p \/ p < i)
  BY <1>1, <1>6, Facts
<1>9. CASE i = p
  BY <1>4, <1>7, <1>9
<1>10. CASE p < i
  <2>1. r.piece < written[l][i].piece
    BY <1>1, <1>7, <1>8, <1>10 DEF Sorted
  <2> QED BY <1>2, <1>5, <1>7, <2>1, Facts
<1> QED BY <1>8, <1>9, <1>10

\* A record at the end of a lane, which is not data or the next piece of a stream.
LEMMA SortedGrows ==
  ASSUME TypeOK, Sorted, NEW l \in Lane, NEW r \in Record,
         written' = [written EXCEPT ![l] = Append(@, r)],
         \A s \in Stream : sent[s] <= sent'[s] /\ sent'[s] \in Nat,
         IsData(r) => sent[r.id] < r.piece /\ r.piece <= sent'[r.id]
  PROVE  Sorted'
<1>1. \A k \in Lane : \A i \in 1..Len(written'[k]) :
        \/ i \in 1..Len(written[k]) /\ written'[k][i] = written[k][i]
        \/ k = l /\ i = Len(written[l]) + 1 /\ written'[k][i] = r
  BY WrittenGrows
<1>2. ASSUME NEW k \in Lane, NEW i \in 1..Len(written[k]), IsData(written[k][i])
      PROVE  /\ written[k][i].id \in Stream /\ written[k][i].piece \in Nat
             /\ written[k][i].piece <= sent[written[k][i].id]
  BY <1>2, Facts, RecordKinds DEF Sorted
<1>3. IsData(r) => r.id \in Stream /\ r.piece \in Nat
  BY RecordKinds
<1>4. ASSUME NEW k \in Lane, NEW i \in 1..Len(written'[k]), IsData(written'[k][i])
      PROVE  written'[k][i].piece <= sent'[written'[k][i].id]
  <2>1. CASE i \in 1..Len(written[k]) /\ written'[k][i] = written[k][i]
    <3>1. /\ written[k][i].id \in Stream /\ written[k][i].piece \in Nat
          /\ written[k][i].piece <= sent[written[k][i].id]
      BY <1>2, <1>4, <2>1
    <3> QED BY <2>1, <3>1, Facts
  <2>2. CASE written'[k][i] = r
    BY <1>4, <2>2
  <2> QED BY <1>1, <2>1, <2>2
<1>5. ASSUME NEW k \in Lane, NEW i \in 1..Len(written'[k]), NEW j \in 1..Len(written'[k]), i < j,
             IsData(written'[k][i]), IsData(written'[k][j]), written'[k][i].id = written'[k][j].id
      PROVE  written'[k][i].piece < written'[k][j].piece
  <2>1. i \in 1..Len(written[k]) /\ written'[k][i] = written[k][i]
    <3>1. Len(written[k]) \in Nat /\ Len(written'[k]) <= Len(written[k]) + 1
      BY WrittenGrows, Facts
    <3> QED BY <1>1, <1>5, <3>1
  <2>2. CASE j \in 1..Len(written[k]) /\ written'[k][j] = written[k][j]
    BY <1>5, <2>1, <2>2 DEF Sorted
  <2>3. CASE written'[k][j] = r
    <3>1. /\ written[k][i].id = r.id /\ IsData(r) /\ r.piece \in Nat /\ sent[r.id] < r.piece
          /\ r.id \in Stream
      BY <1>3, <1>5, <2>1, <2>3
    <3>2. written[k][i].piece \in Nat /\ written[k][i].piece <= sent[r.id]
      BY <1>2, <1>5, <2>1, <3>1
    <3>3. sent[r.id] \in Nat
      BY <3>1, Facts
    <3>4. written[k][i].piece < r.piece
      BY <3>1, <3>2, <3>3
    <3> QED BY <2>1, <2>3, <3>4
  <2> QED BY <1>1, <2>2, <2>3
<1> QED BY <1>4, <1>5 DEF Sorted

LEMMA SortedStep == TypeOK /\ Opening /\ Sorted /\ [Next]_vars => Sorted'
<1> SUFFICES ASSUME TypeOK, Opening, Sorted, [Next]_vars PROVE Sorted'
  OBVIOUS
<1> USE LaneNumbers
<1>1. ASSUME NEW l \in Lane, NEW s \in Stream, Write(s, l) PROVE Sorted'
  <2> DEFINE r == STREAM(s, sent[s] + 1)
  <2>1. sent[s] + 1 \in 1..MaxUnits /\ sent' = [sent EXCEPT ![s] = @ + 1]
    BY <1>1, LanesAssumption, Facts DEF Write
  <2>2. r \in Record /\ r.id = s /\ r.piece = sent[s] + 1
    BY <2>1, RecordKinds
  <2>3. /\ \A t \in Stream : sent[t] <= sent'[t] /\ sent'[t] \in Nat
        /\ sent[s] < sent[s] + 1 /\ sent'[s] = sent[s] + 1
    <3>1. sent'[s] = sent[s] + 1 /\ \A t \in Stream : t # s => sent'[t] = sent[t]
      BY <2>1 DEF TypeOK
    <3>2. \A t \in Stream : sent[t] \in Nat
      BY Facts
    <3> QED BY <3>1, <3>2
  <2>4. written' = [written EXCEPT ![l] = Append(@, r)]
    BY <1>1 DEF Write
  <2>5. sent[r.id] < r.piece /\ r.piece <= sent'[r.id]
    BY <2>2, <2>3, Facts
  <2> HIDE DEF r
  <2> QED BY <2>2, <2>3, <2>4, <2>5, SortedGrows
<1>2. ASSUME NEW l \in Extra, OpenLane(l) PROVE Sorted'
  <2>1. /\ written'[l] = <<PIPE_LANE>> /\ UNCHANGED sent
        /\ \A k \in Lane : k # l => written'[k] = written[k]
    BY <1>2 DEF OpenLane, TypeOK
  <2>2. \A i \in 1..Len(written'[l]) : ~IsData(written'[l][i])
    BY <2>1, RecordKinds
  <2> QED BY <2>1, <2>2 DEF Sorted
<1>3. ASSUME NEW how, EndWith(how) PROVE Sorted'
  <2>1. written' = [written EXCEPT ![0] = Append(@, CLOSE)] /\ UNCHANGED sent
    BY <1>3 DEF EndWith
  <2>2. CLOSE \in Record /\ ~IsData(CLOSE)
    BY RecordKinds
  <2>3. \A t \in Stream : sent[t] <= sent'[t] /\ sent'[t] \in Nat
    BY <2>1, Facts
  <2> QED BY <2>1, <2>2, <2>3, SortedGrows
<1>4. CASE UNCHANGED <<written, sent>>
  BY <1>4 DEF Sorted
<1>5. \/ UNCHANGED <<written, sent>>
      \/ (\E how : EndWith(how)) \/ (\E l \in Extra : OpenLane(l))
      \/ \E l \in Lane : \E s \in Stream : Write(s, l)
  BY DEF Next, SendClose, Linger, RecvAck, Close, SendAck, Refused, Unconfirmed, Fault, LaneFails,
         Read, RejectLane, LaneError, LaneEnds, vars, svars
<1> QED BY <1>1, <1>2, <1>3, <1>4, <1>5

\* A stream moves to another lane only when it has nothing unread.
LEMMA WriteUnread ==
  ASSUME TypeOK, Sorted, Unread, NEW l \in Lane, NEW s \in Stream, Write(s, l)
  PROVE  Unread'
<1> DEFINE r == STREAM(s, sent[s] + 1)
<1>1. /\ sent[s] + 1 \in 1..MaxUnits /\ sent' = [sent EXCEPT ![s] = @ + 1]
      /\ home' = [home EXCEPT ![s] = l] /\ MayCarry(s, l) /\ UNCHANGED <<read, got>>
      /\ written' = [written EXCEPT ![l] = Append(@, r)]
  BY LanesAssumption, Facts DEF Write, rvars
<1>2. r \in Record /\ IsData(r) /\ r.id = s /\ r.piece = sent[s] + 1
  BY <1>1, RecordKinds
<1>3. /\ \A t \in Stream : t # s => sent'[t] = sent[t] /\ home'[t] = home[t]
      /\ sent'[s] = sent[s] + 1 /\ home'[s] = l
  BY <1>1 DEF TypeOK
<1>4. l # home[s] => \A i \in (read[home[s]] + 1)..Len(written[home[s]]) :
                       \A n \in 1..MaxUnits : written[home[s]][i] # STREAM(s, n)
  <2>1. home[s] \in Lane /\ read[home[s]] \in Nat /\ Len(written[home[s]]) \in Nat
        /\ acked[home[s]] \in Nat /\ acked[home[s]] <= read[home[s]]
    BY Facts
  <2>2. \A i \in (read[home[s]] + 1)..Len(written[home[s]]) :
          i \in (acked[home[s]] + 1)..Len(written[home[s]])
    BY <2>1
  <2>3. \/ l = home[s]
        \/ \A i \in (acked[home[s]] + 1)..Len(written[home[s]]) :
             \A n \in 1..MaxUnits : written[home[s]][i] # STREAM(s, n)
    BY <1>1 DEF MayCarry
  <2> QED BY <2>2, <2>3
<1> HIDE DEF r
<1>5. /\ Len(written'[l]) = Len(written[l]) + 1 /\ written'[l][Len(written[l]) + 1] = r
      /\ \A k \in Lane :
           /\ Len(written'[k]) >= Len(written[k])
           /\ \A i \in 1..Len(written[k]) : written'[k][i] = written[k][i]
           /\ \A i \in 1..Len(written'[k]) :
                \/ i \in 1..Len(written[k]) /\ written'[k][i] = written[k][i]
                \/ k = l /\ i = Len(written[l]) + 1 /\ written'[k][i] = r
  <2>1. written' = [written EXCEPT ![l] = Append(@, r)]
    BY <1>1
  <2>2. r \in Record
    BY <1>2
  <2>3. /\ Len(written'[l]) = Len(written[l]) + 1 /\ written'[l][Len(written[l]) + 1] = r
    BY <2>1, <2>2, WrittenGrows
  <2>4. \A k \in Lane :
           /\ Len(written'[k]) >= Len(written[k])
           /\ \A i \in 1..Len(written[k]) : written'[k][i] = written[k][i]
    BY <2>1, <2>2, WrittenGrows
  <2>5. \A k \in Lane : \A i \in 1..Len(written'[k]) :
          \/ i \in 1..Len(written[k]) /\ written'[k][i] = written[k][i]
          \/ k = l /\ i = Len(written[l]) + 1 /\ written'[k][i] = r
    BY <2>1, <2>2, WrittenGrows
  <2> QED BY <2>3, <2>4, <2>5
<1>6. ASSUME NEW k \in Lane, NEW i \in (read[k] + 1)..Len(written'[k]), IsData(written'[k][i])
      PROVE  home'[written'[k][i].id] = k /\ got[written'[k][i].id] < written'[k][i].piece
  <2>1. i \in 1..Len(written'[k])
    BY Facts
  <2>2. CASE i \in 1..Len(written[k]) /\ written'[k][i] = written[k][i]
    <3> DEFINE q == written[k][i]
    <3>1. q \in Record /\ IsData(q) /\ i \in (read[k] + 1)..Len(written[k])
      BY <1>6, <2>2, Facts
    <3>2. q.id \in Stream /\ q.piece \in 1..MaxUnits /\ q = STREAM(q.id, q.piece)
      BY <3>1, RecordKinds
    <3>3. home[q.id] = k /\ got[q.id] < q.piece
      BY <3>1 DEF Unread
    <3>4. q.id = s => k = l
      BY <1>4, <3>1, <3>2, <3>3
    <3>5. home'[q.id] = k
      BY <1>3, <3>2, <3>3, <3>4
    <3> QED BY <2>2, <3>3, <3>5
  <2>3. CASE k = l /\ written'[k][i] = r
    BY <1>2, <1>3, <2>3, Facts DEF Unread
  <2> QED BY <1>5, <2>1, <2>2, <2>3
<1>7. ASSUME NEW t \in Stream
      PROVE  /\ got[t] <= sent'[t]
             /\ \A n \in (got[t] + 1)..sent'[t] :
                  \E i \in (read[home'[t]] + 1)..Len(written'[home'[t]]) :
                    written'[home'[t]][i] = STREAM(t, n)
  <2>1. got[t] <= sent[t] /\ sent[t] \in Nat /\ got[t] \in Nat
    BY Facts DEF Unread
  <2>2. ASSUME NEW n \in (got[t] + 1)..sent[t]
        PROVE  \E i \in (read[home'[t]] + 1)..Len(written'[home'[t]]) :
                 written'[home'[t]][i] = STREAM(t, n)
    <3>1. PICK i \in (read[home[t]] + 1)..Len(written[home[t]]) : written[home[t]][i] = STREAM(t, n)
      BY DEF Unread
    <3>2. n \in 1..MaxUnits
      <4>1. sent[t] <= MaxUnits
        BY Facts
      <4> QED BY <2>1, <4>1, LanesAssumption
    <3>3. home'[t] = home[t]
      BY <1>3, <1>4, <3>1, <3>2
    <3>4. /\ i \in 1..Len(written[home[t]]) /\ i \in (read[home[t]] + 1)..Len(written'[home[t]])
          /\ written'[home[t]][i] = STREAM(t, n)
      <4>1. /\ home[t] \in Lane /\ read[home[t]] \in Nat /\ Len(written[home[t]]) \in Nat
            /\ Len(written'[home[t]]) >= Len(written[home[t]]) /\ Len(written'[home[t]]) \in Nat
        BY <1>5, Facts
      <4>2. i \in 1..Len(written[home[t]]) /\ i \in (read[home[t]] + 1)..Len(written'[home[t]])
        BY <3>1, <4>1
      <4> QED BY <1>5, <3>1, <4>1, <4>2
    <3> QED BY <3>3, <3>4
  <2>3. CASE t # s
    BY <1>3, <2>1, <2>2, <2>3
  <2>4. CASE t = s
    <3>1. /\ Len(written[l]) + 1 \in (read[l] + 1)..Len(written'[l])
          /\ written'[l][Len(written[l]) + 1] = STREAM(s, sent[s] + 1)
      BY <1>5, Facts DEF r
    <3>2. \A n \in (got[t] + 1)..sent'[t] : n \in (got[t] + 1)..sent[t] \/ n = sent[s] + 1
      BY <1>3, <2>1, <2>4
    <3>3. got[t] <= sent'[t] /\ home'[t] = l
      BY <1>3, <2>1, <2>4
    <3> QED BY <2>2, <2>4, <3>1, <3>2, <3>3
  <2> QED BY <2>3, <2>4
<1>8. UNCHANGED <<read, got>>
  BY <1>1
<1> QED BY <1>6, <1>7, <1>8 DEF Unread

LEMMA ReadUnread ==
  ASSUME TypeOK, Sorted, Unread, NEW l \in Lane, Read(l)
  PROVE  Unread' /\ rview' # "violation"
<1> DEFINE p == read[l] + 1
           r == written[l][p]
<1>1. /\ rview = "open" /\ read[l] < Len(written[l]) /\ UNCHANGED <<written, home, sent>>
      /\ read' = [read EXCEPT ![l] = @ + 1]
      /\ \/ IsData(r) /\ r.piece = got[r.id] + 1 /\ got' = [got EXCEPT ![r.id] = @ + 1] /\ rview' = rview
         \/ IsData(r) /\ r.piece # got[r.id] + 1
         \/ r.type \in {"PIPE_LANE", "CONNECTION_CLOSE"} /\ got' = got /\ rview' \in {rview, "closed"}
  BY DEF Read, svars, IsData
<1>2. IsData(r) => r.piece = got[r.id] + 1
  BY <1>1, NextInOrder
<1>3. /\ p \in 1..Len(written[l]) /\ p \in (read[l] + 1)..Len(written[l]) /\ r \in Record
      /\ read'[l] = p /\ \A k \in Lane : k # l => read'[k] = read[k]
  BY <1>1, Facts DEF TypeOK
<1>4. \A k \in Lane : \A i \in (read'[k] + 1)..Len(written[k]) :
        /\ i \in (read[k] + 1)..Len(written[k]) /\ i \in 1..Len(written[k])
        /\ k = l => p < i
  BY <1>3, Facts
<1>5. \A k \in Lane : \A i \in (read[k] + 1)..Len(written[k]) :
        i \in (read'[k] + 1)..Len(written[k]) \/ (k = l /\ i = p)
  BY <1>3, Facts
<1>6. CASE ~IsData(r)
  <2>1. got' = got /\ rview' # "violation"
    BY <1>1, <1>6
  <2>2. \A s, n : r # STREAM(s, n)
    BY <1>6, RecordKinds
  <2>3. ASSUME NEW s \in Stream, NEW n \in (got[s] + 1)..sent[s]
        PROVE  \E i \in (read'[home[s]] + 1)..Len(written[home[s]]) : written[home[s]][i] = STREAM(s, n)
    <3>1. PICK i \in (read[home[s]] + 1)..Len(written[home[s]]) : written[home[s]][i] = STREAM(s, n)
      BY DEF Unread
    <3> QED BY <1>5, <2>2, <3>1, Facts
  <2> QED BY <1>1, <1>4, <2>1, <2>3 DEF Unread
<1>7. CASE IsData(r)
  <2>1. r.id \in Stream /\ r.piece = got[r.id] + 1 /\ r.piece <= sent[r.id] /\ home[r.id] = l
    BY <1>2, <1>3, <1>7, RecordKinds DEF Sorted, Unread
  <2>2. rview' # "violation" /\ got' = [got EXCEPT ![r.id] = @ + 1]
    BY <1>1, <1>2, <1>7, RecordKinds, <1>3 DEF IsData
  <2>3. got'[r.id] = r.piece /\ \A s \in Stream : s # r.id => got'[s] = got[s]
    BY <2>1, <2>2 DEF TypeOK
  <2>4. ASSUME NEW k \in Lane, NEW i \in (read'[k] + 1)..Len(written[k]), IsData(written[k][i])
        PROVE  home[written[k][i].id] = k /\ got'[written[k][i].id] < written[k][i].piece
    <3>1. written[k][i].id \in Stream
      BY <1>4, <2>4, Facts, RecordKinds
    <3>2. home[written[k][i].id] = k /\ got[written[k][i].id] < written[k][i].piece
      BY <1>4, <2>4 DEF Unread
    <3>3. CASE written[k][i].id = r.id
      <4>1. k = l /\ p < i /\ i \in 1..Len(written[l]) /\ p \in 1..Len(written[l])
        BY <1>3, <1>4, <2>1, <3>2, <3>3
      <4>2. r.piece < written[l][i].piece
        BY <1>7, <2>4, <3>3, <4>1 DEF Sorted
      <4> QED BY <2>3, <3>2, <3>3, <4>1, <4>2
    <3> QED BY <2>3, <3>1, <3>2, <3>3
  <2>5. ASSUME NEW s \in Stream, NEW n \in (got'[s] + 1)..sent[s]
        PROVE  \E i \in (read'[home[s]] + 1)..Len(written[home[s]]) : written[home[s]][i] = STREAM(s, n)
    <3>1. n \in (got[s] + 1)..sent[s] /\ (s = r.id => n # r.piece)
      <4>1. got[s] \in Nat /\ sent[s] \in Nat
        BY Facts
      <4>2. CASE s = r.id
        BY <2>1, <2>3, <4>1, <4>2
      <4>3. CASE s # r.id
        BY <2>3, <4>1, <4>3
      <4> QED BY <4>2, <4>3
    <3>2. PICK i \in (read[home[s]] + 1)..Len(written[home[s]]) : written[home[s]][i] = STREAM(s, n)
      BY <3>1 DEF Unread
    <3>3. r # STREAM(s, n)
      BY <3>1, RecordKinds
    <3>4. home[s] \in Lane
      BY Facts
    <3>5. i \in (read'[home[s]] + 1)..Len(written[home[s]])
      BY <1>5, <3>2, <3>3, <3>4
    <3> QED BY <3>2, <3>5
  <2>6. \A s \in Stream : got'[s] <= sent[s]
    BY <2>1, <2>3 DEF Unread
  <2>7. UNCHANGED <<written, home, sent>>
    BY <1>1
  <2> HIDE DEF r
  <2>8. Unread'
    BY <2>4, <2>5, <2>6, <2>7 DEF Unread
  <2> QED BY <2>2, <2>8
<1> QED BY <1>6, <1>7

LEMMA UnreadStep ==
  TypeOK /\ Opening /\ Sorted /\ Unread /\ InOrder /\ [Next]_vars => Unread' /\ InOrder'
<1> SUFFICES ASSUME TypeOK, Opening, Sorted, Unread, InOrder, [Next]_vars PROVE Unread' /\ InOrder'
  OBVIOUS
<1> USE LaneNumbers
<1>1. ASSUME NEW l \in Lane, NEW s \in Stream, Write(s, l) PROVE Unread' /\ InOrder'
  BY <1>1, WriteUnread DEF Write, rvars, InOrder
<1>2. ASSUME NEW l \in Lane, Read(l) PROVE Unread' /\ InOrder'
  BY <1>2, ReadUnread DEF InOrder
<1>3. ASSUME NEW l \in Extra, OpenLane(l) PROVE Unread' /\ InOrder'
  <2>1. /\ written[l] = <<>> /\ written'[l] = <<PIPE_LANE>>
        /\ UNCHANGED <<read, got, sent, home, rview>>
        /\ \A k \in Lane : k # l => written'[k] = written[k]
    BY <1>3 DEF OpenLane, Opening, rvars, TypeOK
  <2>2. Len(written[l]) = 0 /\ \A i \in 1..Len(written'[l]) : ~IsData(written'[l][i])
    BY <2>1, RecordKinds
  <2>3. ASSUME NEW k \in Lane, NEW i \in (read[k] + 1)..Len(written'[k]), IsData(written'[k][i])
        PROVE  home[written'[k][i].id] = k /\ got[written'[k][i].id] < written'[k][i].piece
    <3>1. CASE k = l
      <4>1. read[l] \in Nat
        BY Facts
      <4> QED BY <2>2, <2>3, <3>1, <4>1
    <3>2. CASE k # l
      BY <2>1, <2>3, <3>2 DEF Unread
    <3> QED BY <3>1, <3>2
  <2>4. ASSUME NEW s \in Stream, NEW n \in (got[s] + 1)..sent[s]
        PROVE  \E i \in (read[home[s]] + 1)..Len(written'[home[s]]) : written'[home[s]][i] = STREAM(s, n)
    <3>1. PICK i \in (read[home[s]] + 1)..Len(written[home[s]]) : written[home[s]][i] = STREAM(s, n)
      BY DEF Unread
    <3>2. home[s] \in Lane /\ home[s] # l
      BY <2>2, <3>1, Facts
    <3> QED BY <2>1, <3>1, <3>2
  <2>5. \A s \in Stream : got[s] <= sent[s]
    BY DEF Unread
  <2> QED BY <2>1, <2>3, <2>4, <2>5 DEF Unread, InOrder
<1>4. ASSUME NEW how, EndWith(how) PROVE Unread' /\ InOrder'
  <2>1. /\ written' = [written EXCEPT ![0] = Append(@, CLOSE)]
        /\ UNCHANGED <<read, got, sent, home, rview>>
    BY <1>4 DEF EndWith, rvars
  <2>2. CLOSE \in Record /\ ~IsData(CLOSE)
    BY RecordKinds
  <2>3. \A k \in Lane :
          /\ Len(written'[k]) >= Len(written[k])
          /\ \A i \in 1..Len(written[k]) : written'[k][i] = written[k][i]
          /\ \A i \in 1..Len(written'[k]) :
               \/ i \in 1..Len(written[k]) /\ written'[k][i] = written[k][i]
               \/ written'[k][i] = CLOSE
    BY <2>1, <2>2, WrittenGrows
  <2>4. ASSUME NEW k \in Lane, NEW i \in (read[k] + 1)..Len(written'[k]), IsData(written'[k][i])
        PROVE  home[written'[k][i].id] = k /\ got[written'[k][i].id] < written'[k][i].piece
    <3>1. read[k] \in Nat /\ Len(written[k]) \in Nat
      BY Facts
    <3>2. i \in (read[k] + 1)..Len(written[k]) /\ written'[k][i] = written[k][i]
      <4>1. written'[k][i] # CLOSE /\ i \in 1..Len(written'[k])
        BY <2>2, <2>4, <3>1
      <4>2. i \in 1..Len(written[k]) /\ written'[k][i] = written[k][i]
        BY <2>3, <4>1
      <4> QED BY <3>1, <4>2
    <3> QED BY <2>4, <3>2 DEF Unread
  <2>5. ASSUME NEW s \in Stream, NEW n \in (got[s] + 1)..sent[s]
        PROVE  \E i \in (read[home[s]] + 1)..Len(written'[home[s]]) : written'[home[s]][i] = STREAM(s, n)
    <3>1. PICK i \in (read[home[s]] + 1)..Len(written[home[s]]) : written[home[s]][i] = STREAM(s, n)
      BY DEF Unread
    <3>2. home[s] \in Lane /\ read[home[s]] \in Nat /\ Len(written[home[s]]) \in Nat
      BY Facts
    <3>3. /\ i \in 1..Len(written[home[s]]) /\ i \in (read[home[s]] + 1)..Len(written'[home[s]])
          /\ written'[home[s]][i] = STREAM(s, n)
      <4> DEFINE k == home[s]
      <4>1. /\ Len(written'[k]) >= Len(written[k]) /\ Len(written'[k]) \in Nat
            /\ \A j \in 1..Len(written[k]) : written'[k][j] = written[k][j]
        BY <2>1, <2>2, <3>2, WrittenGrows
      <4>2. /\ i \in (read[k] + 1)..Len(written[k]) /\ written[k][i] = STREAM(s, n)
            /\ read[k] \in Nat /\ Len(written[k]) \in Nat
        BY <3>1, <3>2
      <4> HIDE DEF k
      <4>3. i \in 1..Len(written[k]) /\ i \in (read[k] + 1)..Len(written'[k])
        BY <4>1, <4>2
      <4>4. written'[k][i] = STREAM(s, n)
        BY <4>1, <4>2, <4>3
      <4> QED BY <4>3, <4>4 DEF k
    <3> QED BY <3>3
  <2>6. \A s \in Stream : got[s] <= sent[s]
    BY DEF Unread
  <2>7. UNCHANGED <<read, got, sent, home, rview>>
    BY <2>1
  <2> QED BY <2>4, <2>5, <2>6, <2>7 DEF Unread, InOrder
<1>5. ASSUME UNCHANGED <<written, read, got, sent, home>>, rview' \in {rview, "lost"}
      PROVE  Unread' /\ InOrder'
  BY <1>5 DEF Unread, InOrder
<1>6. \/ UNCHANGED <<written, read, got, sent, home>> /\ rview' \in {rview, "lost"}
      \/ (\E how : EndWith(how)) \/ (\E l \in Extra : OpenLane(l))
      \/ \E l \in Lane : Read(l) \/ \E s \in Stream : Write(s, l)
  BY DEF Next, SendClose, Linger, RecvAck, Close, SendAck, Refused, Unconfirmed, Fault, LaneFails,
         RejectLane, LaneError, LaneEnds, vars, svars, rvars
<1> QED BY <1>1, <1>2, <1>3, <1>4, <1>5, <1>6

-----------------------------------------------------------------------------
(* The close, and the lanes that are cut off.                              *)

LEMMA BehindStep == TypeOK /\ Opening /\ Behind /\ [Next]_vars => Behind'
<1> SUFFICES ASSUME TypeOK, Opening, Behind, [Next]_vars, closing' = "sent"
             PROVE  /\ sview' = "closed"
                    /\ \A l \in Extra : \A i \in (read'[l] + 1)..Len(written'[l]) : ~IsData(written'[l][i])
  BY DEF Behind
<1> USE LaneNumbers
<1>1. CASE SendClose
  <2>1. /\ sview' = "closed" /\ UNCHANGED read
        /\ \A l \in Extra : lane[l] # "refused" => acked[l] = Len(written[l])
        /\ \A l \in Extra : written'[l] = written[l]
    BY <1>1 DEF SendClose, EndWith, rvars, TypeOK
  <2>2. ASSUME NEW l \in Extra, NEW i \in (read[l] + 1)..Len(written[l]) PROVE ~IsData(written[l][i])
    <3>1. CASE lane[l] = "refused"
      <4>1. written[l] = <<PIPE_LANE>> /\ read[l] \in Nat
        BY <3>1, Facts DEF Opening
      <4> QED BY <4>1, RecordKinds
    <3>2. CASE lane[l] # "refused"
      BY <2>1, <3>2, Facts
    <3> QED BY <3>1, <3>2
  <2> QED BY <2>1, <2>2
<1>2. ASSUME NEW l \in Lane, Read(l)
      PROVE  /\ sview' = "closed"
             /\ \A k \in Extra : \A i \in (read'[k] + 1)..Len(written'[k]) : ~IsData(written'[k][i])
  <2>1. UNCHANGED <<written, closing, sview>> /\ read' = [read EXCEPT ![l] = @ + 1]
    BY <1>2 DEF Read, svars
  <2>2. \A k \in Lane : \A i \in (read'[k] + 1)..Len(written[k]) : i \in (read[k] + 1)..Len(written[k])
    BY <2>1, Facts DEF TypeOK
  <2> QED BY <2>1, <2>2 DEF Behind
<1>3. CASE UNCHANGED <<written, read, closing, sview>>
  BY <1>3 DEF Behind
<1>4. sview = "closed" => SendClose \/ (\E l \in Lane : Read(l)) \/ UNCHANGED <<written, read, closing, sview>>
  BY DEF Next, Write, OpenLane, RecvAck, Refused, Unconfirmed, LaneFails, Close, Linger, EndWith,
         SendAck, RejectLane, LaneError, LaneEnds, Fault, vars, svars, rvars
<1>5. closing # "sent" => SendClose
  BY DEF Next, Write, OpenLane, RecvAck, Refused, Unconfirmed, LaneFails, Close, Linger, EndWith,
         Read, SendAck, RejectLane, LaneError, LaneEnds, Fault, vars, svars
<1> QED BY <1>1, <1>2, <1>3, <1>4, <1>5 DEF Behind

\* Why a lane is cut off, and what a lost session has lost.
LEMMA CutOffStep ==
  /\ TypeOK /\ Opening /\ Closing /\ CutOff /\ LostByFaultOnly
  /\ [Next]_vars
  => CutOff' /\ LostByFaultOnly'
<1> SUFFICES ASSUME TypeOK, Opening, Closing, CutOff, LostByFaultOnly, [Next]_vars
             PROVE  CutOff' /\ LostByFaultOnly'
  OBVIOUS
<1> USE LaneNumbers
\* What was lost stays lost, and for the same fault.
<1>1. (\E l \in broken : lane[l] = "confirmed") => LostByFaultOnly'
  <2>1. \A l \in Lane : lane[l] = "confirmed" => lane'[l] = "confirmed"
    BY DEF Next, Write, OpenLane, RecvAck, Refused, Unconfirmed, LaneFails, Close, SendClose, Linger,
           EndWith, Read, SendAck, RejectLane, LaneError, LaneEnds, Fault, vars, svars, TypeOK
  <2>2. broken # {} => broken' = broken
    BY DEF Next, Write, OpenLane, RecvAck, Refused, Unconfirmed, LaneFails, Close, SendClose, Linger,
           EndWith, Read, SendAck, RejectLane, LaneError, LaneEnds, Fault, vars, cvars
  <2>3. broken \subseteq Lane
    BY DEF TypeOK
  <2> QED BY <2>1, <2>2, <2>3 DEF LostByFaultOnly
<1>2. CASE "lost" \in {sview, rview}
  <2>1. "lost" \in {sview', rview'}
    BY <1>2 DEF Next, Write, OpenLane, RecvAck, Refused, Unconfirmed, LaneFails, Close, SendClose,
           Linger, EndWith, Read, SendAck, RejectLane, LaneError, LaneEnds, Fault, vars, svars, rvars
  <2> QED BY <1>1, <1>2, <2>1 DEF LostByFaultOnly, CutOff
\* A lane in use that is cut off was cut off by the fault.
<1>3. ASSUME "lost" \notin {sview, rview}, NEW l \in failed, lane[l] = "confirmed"
      PROVE  LostByFaultOnly'
  <2>1. l \in broken \/ (l \in Extra /\ read[l] = 0)
    BY <1>3 DEF CutOff
  <2>2. l \in Extra => acked[l] > 0 /\ acked[l] <= read[l] /\ acked[l] \in Nat /\ read[l] \in Nat
    BY <1>3, Facts DEF Opening
  <2> QED BY <1>1, <1>3, <2>1, <2>2
<1>4. ASSUME "lost" \notin {sview, rview}, NEW l \in Lane, InUse(l) PROVE lane[l] = "confirmed"
  <2>1. CASE l = 0
    BY <2>1 DEF Opening
  <2>2. CASE l # 0
    <3>1. l \in Extra /\ read[l] > 1 /\ read[l] \in Nat /\ Len(written[l]) \in Nat /\ read[l] <= Len(written[l])
      BY <1>4, <2>2, Facts DEF InUse, Extra
    <3>2. written[l] # <<>> /\ written[l] # <<PIPE_LANE>>
      <4>1. ASSUME written[l] = <<>> PROVE FALSE
        <5>1. Len(written[l]) = 0
          BY <4>1
        <5> QED BY <3>1, <5>1
      <4>2. ASSUME written[l] = <<PIPE_LANE>> PROVE FALSE
        <5>1. Len(written[l]) = 1
          BY <4>2
        <5> QED BY <3>1, <5>1
      <4> QED BY <4>1, <4>2
    <3> QED BY <3>1, <3>2 DEF Opening, TypeOK
  <2> QED BY <2>1, <2>2
<1>5. CASE "lost" \notin {sview, rview} /\ UNCHANGED <<sview, rview>>
  <2>1. LostByFaultOnly'
    BY <1>5 DEF LostByFaultOnly
  <2> USE <1>5 DEF CutOff
  <2>2. CASE UNCHANGED <<lane, read, failed, broken>> /\ ended \subseteq ended'
    BY <2>1, <2>2
  <2>3. ASSUME NEW l \in Extra, OpenLane(l) PROVE CutOff'
    <3>1. UNCHANGED <<read, failed, broken, ended>> /\ \A k \in Lane : lane[k] = "refused" => lane'[k] = "refused"
      BY <2>3 DEF OpenLane, rvars, cvars, TypeOK
    <3> QED BY <3>1 DEF TypeOK
  <2>4. CASE RecvAck
    <3>1. UNCHANGED <<read, failed, broken, ended>>
      BY <2>4 DEF RecvAck, rvars, cvars
    <3>2. \A k \in Lane : lane[k] = "refused" => lane'[k] = "refused"
      <4>1. \A k \in Lane : lane'[k] = IF lane[k] = "opened" /\ ack[k] > 0 THEN "confirmed" ELSE lane[k]
        BY <2>4 DEF RecvAck
      <4> QED BY <4>1
    <3> QED BY <2>1, <3>1, <3>2 DEF TypeOK
  <2>5. ASSUME NEW l \in Lane, Refused(l) \/ Unconfirmed(l) PROVE CutOff'
    <3>1. /\ UNCHANGED <<read, broken, ended>> /\ failed' \subseteq failed \union {l} /\ lane'[l] = "refused"
          /\ \A k \in Lane : lane[k] = "refused" => lane'[k] = "refused"
      BY <2>5 DEF Refused, Unconfirmed, rvars, cvars, TypeOK
    <3> QED BY <3>1 DEF TypeOK
  <2>6. ASSUME NEW l \in Lane, Read(l) PROVE CutOff'
    <3>1. /\ UNCHANGED <<lane, failed, broken, ended>>
          /\ \A k \in Lane : k \in ended => read'[k] = read[k]
      BY <2>6 DEF Read, svars, cvars, TypeOK
    <3> QED BY <3>1 DEF TypeOK
  <2>7. ASSUME NEW l \in Lane, RejectLane(l) PROVE CutOff'
    BY <2>7 DEF RejectLane, svars
  <2>8. ASSUME NEW l \in Lane, Fault(l) PROVE CutOff'
    BY <2>8 DEF Fault, svars, rvars
  <2>9. \/ UNCHANGED <<lane, read, failed, broken>> /\ ended \subseteq ended'
        \/ RecvAck \/ \E l \in Extra : OpenLane(l)
        \/ \E l \in Lane : Refused(l) \/ Unconfirmed(l) \/ Read(l) \/ RejectLane(l) \/ Fault(l)
    BY DEF Next, Write, LaneFails, Close, SendClose, Linger, EndWith, SendAck, LaneError, LaneEnds,
           vars, svars, rvars, cvars
  <2> QED BY <2>1, <2>2, <2>3, <2>4, <2>5, <2>6, <2>7, <2>8, <2>9
<1>6. CASE "lost" \notin {sview, rview} /\ ~UNCHANGED <<sview, rview>>
  <2>1. ASSUME NEW l \in Lane, LaneFails(l) \/ LaneError(l) PROVE LostByFaultOnly'
    BY <1>3, <1>4, <1>6, <2>1 DEF LaneFails, LaneError
  <2>2. ASSUME NEW l \in Lane, LaneFails(l) \/ LaneError(l) PROVE CutOff'
    BY <2>2 DEF LaneFails, LaneError, CutOff
  <2>3. ASSUME NEW l \in Lane, LaneEnds(l) PROVE FALSE
    <3>1. l # 0
      BY <2>3, Facts DEF LaneEnds, Closing
    <3>2. 0 \notin ended' /\ InUse(0)
      BY <2>3, <3>1 DEF LaneEnds, Closing, InUse
    <3> QED BY <1>6, <2>3, <3>2 DEF LaneEnds, svars
  <2>4. ASSUME NEW how, EndWith(how) PROVE CutOff' /\ LostByFaultOnly'
    BY <1>6, <2>4 DEF EndWith, CutOff, LostByFaultOnly, rvars, cvars
  <2>5. ASSUME NEW l \in Lane, Read(l) PROVE CutOff' /\ LostByFaultOnly'
    <3>1. /\ UNCHANGED <<lane, failed, broken, ended>> /\ "lost" \notin {sview', rview'}
          /\ \A k \in Lane : k \in ended => read'[k] = read[k]
      BY <1>6, <2>5 DEF Read, svars, cvars, TypeOK
    <3> QED BY <1>6, <3>1 DEF TypeOK, CutOff, LostByFaultOnly
  <2>6. \/ \E how : EndWith(how)
        \/ \E l \in Lane : LaneFails(l) \/ LaneError(l) \/ LaneEnds(l) \/ Read(l)
    BY <1>6 DEF Next, Write, OpenLane, RecvAck, Refused, Unconfirmed, Close, SendClose, Linger,
           SendAck, RejectLane, Fault, vars, svars, rvars
  <2> QED BY <2>1, <2>2, <2>3, <2>4, <2>5, <2>6
<1> QED BY <1>2, <1>5, <1>6

LEMMA CloseStep ==
  TypeOK /\ Closing /\ Unread /\ Behind /\ CloseComesLast /\ [Next]_vars => CloseComesLast'
<1> SUFFICES ASSUME TypeOK, Closing, Unread, Behind, CloseComesLast, [Next]_vars,
                    rview' = "closed", closing' = "sent"
             PROVE  got' = sent'
  BY DEF CloseComesLast
<1> USE LaneNumbers
<1>1. CASE rview = "closed"
  <2>1. sview = "closed"
    BY <1>1 DEF Closing
  <2>2. UNCHANGED <<closing, got, sent>>
    BY <1>1, <2>1 DEF Next, Write, OpenLane, RecvAck, Refused, Unconfirmed, LaneFails, Close, SendClose,
       Linger, EndWith, Read, SendAck, RejectLane, LaneError, LaneEnds, Fault, vars, svars, rvars
  <2> QED BY <1>1, <2>2 DEF CloseComesLast
<1>2. CASE rview # "closed"
  <2>1. PICK l \in Lane : Read(l) /\ written[l][read[l] + 1].type = "CONNECTION_CLOSE"
    BY <1>2 DEF Next, Write, OpenLane, RecvAck, Refused, Unconfirmed, LaneFails, Close, SendClose,
       Linger, EndWith, Read, SendAck, RejectLane, LaneError, LaneEnds, Fault, vars, svars, rvars
  <2>2. /\ read[l] < Len(written[l]) /\ UNCHANGED <<written, sent, closing>> /\ got' = got
    BY <2>1 DEF Read, svars
  <2>3. read[l] + 1 \in 1..Len(written[l]) /\ written[l][read[l] + 1] = CLOSE
    BY <2>1, <2>2, Facts, RecordKinds
  <2>4. l = 0 /\ read[0] + 1 = Len(written[0])
    BY <2>3 DEF Closing
  \* Nothing is unread but the CONNECTION_CLOSE.
  <2>5. ASSUME NEW k \in Lane, NEW i \in (read[k] + 1)..Len(written[k]) PROVE ~IsData(written[k][i])
    <3>1. CASE k = 0
      <4>1. i = read[0] + 1
        BY <2>4, <3>1, Facts
      <4> QED BY <2>3, <2>4, <3>1, <4>1, RecordKinds
    <3>2. CASE k # 0
      BY <2>2, <3>2 DEF Behind, Extra
    <3> QED BY <3>1, <3>2
  <2>6. ASSUME NEW s \in Stream PROVE got[s] = sent[s]
    <3>1. got[s] <= sent[s] /\ got[s] \in Nat /\ sent[s] \in Nat /\ home[s] \in Lane
      BY Facts DEF Unread
    <3>2. SUFFICES ASSUME sent[s] \in (got[s] + 1)..sent[s] PROVE FALSE
      BY <3>1
    <3>3. PICK i \in (read[home[s]] + 1)..Len(written[home[s]]) : written[home[s]][i] = STREAM(s, sent[s])
      BY <3>2 DEF Unread
    <3>4. ~IsData(written[home[s]][i])
      BY <2>5, <3>1
    <3> QED BY <3>3, <3>4, RecordKinds
  <2> QED BY <2>2, <2>6 DEF TypeOK
<1> QED BY <1>1, <1>2

-----------------------------------------------------------------------------
LEMMA Invariance == Spec => []IInv
<1>1. IInv /\ [Next]_vars => IInv'
  BY TypeStep, OpeningStep, ClosingStep, SortedStep, UnreadStep, BehindStep, CutOffStep, CloseStep DEF IInv
<1> QED BY InitHolds, <1>1, PTL DEF Spec

\* The type invariant: positions are acknowledged no further than they were read, and
\* read no further than was written, for any number of lanes and streams.
THEOREM TypeCorrect == Spec => []TypeOK
<1>1. IInv => TypeOK
  BY DEF IInv
<1> QED BY Invariance, <1>1, PTL

\* A stream that moves between lanes arrives in order, however far one lane is ahead of
\* another: what is unread of it is on one lane, for it moves only when all of it was
\* acknowledged.
THEOREM ArrivesInOrder == Spec => []InOrder
<1>1. IInv => InOrder
  BY DEF IInv
<1> QED BY Invariance, <1>1, PTL

\* A CONNECTION_CLOSE that waited for the other lanes is read after all data: they hold
\* nothing unread when it is written, and nothing is written on them afterwards.
THEOREM CloseIsReadLast == Spec => []CloseComesLast
<1>1. IInv => CloseComesLast
  BY DEF IInv
<1> QED BY Invariance, <1>1, PTL

\* Only the failure of lane 0 or of a confirmed lane loses the session, for a lane that is
\* in use at the receiver is confirmed at the sender.
THEOREM OnlyFaultsLose == Spec => []LostByFaultOnly
<1>1. IInv => LostByFaultOnly
  BY DEF IInv
<1> QED BY Invariance, <1>1, PTL

-----------------------------------------------------------------------------
(* What the lanes do for one stream is what Delivery promises.              *)

\* A piece whose record was read was received.
Received ==
  \A l \in Lane : \A i \in 1..read[l] :
    IsData(written[l][i]) => written[l][i].piece <= got[written[l][i].id]

\* What is written stays written.
LEMMA WrittenStays ==
  ASSUME TypeOK, Opening, [Next]_vars
  PROVE  \A k \in Lane : \A i \in 1..Len(written[k]) : written'[k][i] = written[k][i]
<1> USE LaneNumbers
<1>1. ASSUME NEW l \in Lane, NEW s \in Stream, Write(s, l)
      PROVE  \A k \in Lane : \A i \in 1..Len(written[k]) : written'[k][i] = written[k][i]
  <2> DEFINE r == STREAM(s, sent[s] + 1)
  <2>1. sent[s] + 1 \in 1..MaxUnits /\ written' = [written EXCEPT ![l] = Append(@, r)]
    BY <1>1, LanesAssumption, Facts DEF Write
  <2>2. r \in Record
    BY <2>1, RecordKinds
  <2> HIDE DEF r
  <2> QED BY <2>1, <2>2, WrittenGrows
<1>2. ASSUME NEW l \in Extra, OpenLane(l)
      PROVE  \A k \in Lane : \A i \in 1..Len(written[k]) : written'[k][i] = written[k][i]
  <2>1. written[l] = <<>> /\ \A k \in Lane : k # l => written'[k] = written[k]
    BY <1>2 DEF OpenLane, Opening, TypeOK
  <2> QED BY <2>1
<1>3. ASSUME NEW how, EndWith(how)
      PROVE  \A k \in Lane : \A i \in 1..Len(written[k]) : written'[k][i] = written[k][i]
  <2>1. written' = [written EXCEPT ![0] = Append(@, CLOSE)]
    BY <1>3 DEF EndWith
  <2> QED BY <2>1, RecordKinds, WrittenGrows
<1>4. CASE UNCHANGED written
  BY <1>4
<1>5. \/ UNCHANGED written
      \/ (\E how : EndWith(how)) \/ (\E l \in Extra : OpenLane(l))
      \/ \E l \in Lane : \E s \in Stream : Write(s, l)
  BY DEF Next, SendClose, Linger, RecvAck, Close, SendAck, Refused, Unconfirmed, Fault, LaneFails,
         Read, RejectLane, LaneError, LaneEnds, vars, svars
<1> QED BY <1>1, <1>2, <1>3, <1>4, <1>5

\* What a read does to one stream, when it is no violation.
LEMMA ReadCounts ==
  ASSUME TypeOK, NEW l \in Lane, Read(l), rview' # "violation"
  PROVE  /\ UNCHANGED <<written, sent, acked, home>>
         /\ read'[l] = read[l] + 1 /\ \A k \in Lane : k # l => read'[k] = read[k]
         /\ read[l] + 1 \in 1..Len(written[l])
         /\ \A s \in Stream : got'[s] = got[s] \/ got'[s] = got[s] + 1
         /\ IsData(written[l][read[l] + 1]) =>
              written[l][read[l] + 1].piece <= got'[written[l][read[l] + 1].id]
<1> DEFINE r == written[l][read[l] + 1]
<1>1. /\ read[l] < Len(written[l]) /\ UNCHANGED <<written, sent, acked, home>>
      /\ read' = [read EXCEPT ![l] = @ + 1]
      /\ \/ IsData(r) /\ r.piece = got[r.id] + 1 /\ got' = [got EXCEPT ![r.id] = @ + 1]
         \/ ~IsData(r) /\ got' = got
  BY DEF Read, svars, IsData
<1>2. read[l] + 1 \in 1..Len(written[l]) /\ r \in Record
  BY <1>1, Facts
<1>3. IsData(r) => r.id \in Stream /\ r.piece \in Nat
  BY <1>2, RecordKinds
<1>4. read'[l] = read[l] + 1 /\ \A k \in Lane : k # l => read'[k] = read[k]
  BY <1>1 DEF TypeOK
<1> HIDE DEF r
<1>5. ASSUME IsData(r), r.piece = got[r.id] + 1, got' = [got EXCEPT ![r.id] = @ + 1]
      PROVE  /\ \A s \in Stream : got'[s] = got[s] \/ got'[s] = got[s] + 1
             /\ r.piece <= got'[r.id]
  <2>1. got \in [Stream -> 0..MaxUnits] /\ r.id \in Stream /\ r.piece \in Nat
    BY <1>3, <1>5 DEF TypeOK
  <2>2. got'[r.id] = got[r.id] + 1 /\ \A s \in Stream : s # r.id => got'[s] = got[s]
    BY <1>5, <2>1
  <2> QED BY <1>5, <2>1, <2>2
<1>6. /\ \A s \in Stream : got'[s] = got[s] \/ got'[s] = got[s] + 1
      /\ IsData(r) => r.piece <= got'[r.id]
  BY <1>1, <1>5
<1> QED BY <1>1, <1>2, <1>4, <1>6 DEF r

LEMMA ReceivedStep ==
  ASSUME TypeOK, Opening, Received, InOrder', [Next]_vars
  PROVE  Received'
<1>1. \A k \in Lane : \A i \in 1..read[k] : written'[k][i] = written[k][i]
  BY WrittenStays, Facts
<1>2. ASSUME NEW l \in Lane, Read(l) PROVE Received'
  <2>1. /\ written' = written
        /\ read'[l] = read[l] + 1 /\ \A k \in Lane : k # l => read'[k] = read[k]
        /\ \A s \in Stream : got'[s] = got[s] \/ got'[s] = got[s] + 1
        /\ IsData(written[l][read[l] + 1]) =>
             written[l][read[l] + 1].piece <= got'[written[l][read[l] + 1].id]
    BY <1>2, ReadCounts DEF InOrder
  <2> SUFFICES ASSUME NEW k \in Lane, NEW i \in 1..read'[k], IsData(written[k][i])
               PROVE  written[k][i].piece <= got'[written[k][i].id]
    BY <2>1 DEF Received
  <2>2. i \in 1..read[k] \/ (k = l /\ i = read[l] + 1)
    BY <2>1, Facts
  <2>3. CASE i \in 1..read[k]
    <3>1. written[k][i] \in Record
      BY <2>3, Facts
    <3> DEFINE r == written[k][i]
    <3>2. r.id \in Stream /\ r.piece \in 1..MaxUnits
      BY <3>1, RecordKinds
    <3>3. r.piece <= got[r.id] /\ got[r.id] \in Nat
      BY <2>3, <3>2, Facts DEF Received
    <3>4. got'[r.id] = got[r.id] \/ got'[r.id] = got[r.id] + 1
      BY <2>1, <3>2
    <3> HIDE DEF r
    <3>5. r.piece <= got'[r.id]
      BY <3>2, <3>3, <3>4
    <3> QED BY <3>5 DEF r
  <2>4. CASE k = l /\ i = read[l] + 1
    BY <2>1, <2>4
  <2> QED BY <2>2, <2>3, <2>4
<1>3. CASE UNCHANGED <<read, got>>
  BY <1>1, <1>3 DEF Received
<1>4. (\E l \in Lane : Read(l)) \/ UNCHANGED <<read, got>>
  BY DEF Next, Write, OpenLane, RecvAck, Refused, Unconfirmed, LaneFails, Close, SendClose, Linger,
         EndWith, SendAck, RejectLane, LaneError, LaneEnds, Fault, vars, svars, rvars
<1> QED BY <1>2, <1>3, <1>4

\* The initial state is that of Delivery.
LEMMA PromiseInit == ASSUME Init, NEW s \in Stream PROVE Promise(s)!Init
<1>1. sent[s] = 0 /\ got[s] = 0 /\ \A l \in Lane : acked[l] = 0
  BY DEF Init
<1>2. 1..got[s] = {} /\ Covered(s) = {}
  BY <1>1 DEF Covered
<1> QED BY <1>1, <1>2 DEF Promise!Init

\* Every step of the lanes is one of Delivery for the stream, or does not concern it.
LEMMA PromiseStep ==
  ASSUME TypeOK, TypeOK', Opening, Unread', Received, Received', InOrder', [Next]_vars,
         NEW s \in Stream
  PROVE  [Promise(s)!Next]_(Promise(s)!avars)
<1>0. /\ \A l \in Lane : \A i \in 1..acked[l] :
           i \in 1..Len(written[l]) /\ written'[l][i] = written[l][i]
      /\ sent[s] \in Nat /\ got[s] \in Nat
  BY WrittenStays, Facts
<1>1. acked' = acked => Covered(s)' = Covered(s)
  BY <1>0 DEF Covered
<1>2. ASSUME NEW l \in Lane, NEW t \in Stream, Write(t, l) PROVE [Promise(s)!Next]_(Promise(s)!avars)
  <2>1. /\ sent[t] < MaxUnits /\ sent' = [sent EXCEPT ![t] = @ + 1] /\ UNCHANGED <<acked, got>>
    BY <1>2 DEF Write, rvars
  <2>2. Covered(s)' = Covered(s) /\ 1..got'[s] = 1..got[s]
    BY <1>1, <2>1
  <2>3. CASE t = s
    <3>1. sent[s] < MaxUnits /\ sent'[s] = sent[s] + 1
      BY <2>1, <2>3 DEF TypeOK
    <3>2. Promise(s)!Take
      BY <2>2, <3>1 DEF Promise!Take
    <3> QED BY <3>2 DEF Promise!Next
  <2>4. CASE t # s
    <3>1. sent'[s] = sent[s]
      BY <2>1, <2>4 DEF TypeOK
    <3> QED BY <2>2, <3>1 DEF Promise!avars
  <2> QED BY <2>3, <2>4
<1>3. ASSUME NEW l \in Lane, Read(l) PROVE [Promise(s)!Next]_(Promise(s)!avars)
  <2>1. UNCHANGED <<sent, acked>> /\ (got'[s] = got[s] \/ got'[s] = got[s] + 1)
    BY <1>3, ReadCounts DEF InOrder
  <2>2. Covered(s)' = Covered(s)
    BY <1>1, <2>1
  <2>3. CASE got'[s] = got[s]
    BY <2>1, <2>2, <2>3 DEF Promise!avars
  <2>4. CASE got'[s] = got[s] + 1
    <3>1. got[s] + 1 <= sent[s]
      BY <2>1, <2>4 DEF Unread
    <3>2. got[s] + 1 \in (1..sent[s]) \ (1..got[s]) /\ 1..got'[s] = (1..got[s]) \union {got[s] + 1}
      BY <1>0, <2>4, <3>1
    <3>3. Promise(s)!Arrive
      BY <2>1, <2>2, <3>2 DEF Promise!Arrive
    <3> QED BY <3>3 DEF Promise!Next
  <2> QED BY <2>1, <2>3, <2>4
<1>4. CASE RecvAck
  <2>1. /\ UNCHANGED <<sent, got, written, read>>
        /\ acked' = [l \in Lane |-> IF lane[l] = "refused" THEN acked[l] ELSE ack[l]]
    BY <1>4 DEF RecvAck, rvars
  <2>2. \A l \in Lane : acked[l] \in Nat /\ acked'[l] \in Nat /\ acked[l] <= acked'[l]
    BY <2>1 DEF TypeOK
  <2>3. Covered(s) \subseteq Covered(s)'
    BY <2>1, <2>2 DEF Covered
  \* What is acknowledged was read, hence received.
  <2>4. ASSUME NEW n \in Covered(s)' PROVE n \in 1..got[s]
    <3>1. PICK l \in Lane : \E i \in 1..acked'[l] : written[l][i] = STREAM(s, n)
      BY <2>1 DEF Covered
    <3>2. PICK i \in 1..acked'[l] : written[l][i] = STREAM(s, n)
      BY <3>1
    <3>3. acked'[l] <= read[l] /\ read[l] \in Nat /\ acked'[l] \in Nat
      BY <2>1 DEF TypeOK
    <3>4. i \in 1..read[l]
      BY <3>2, <3>3
    <3>5. n <= got[s]
      BY <3>2, <3>4, RecordKinds DEF Received
    <3>6. n \in 1..MaxUnits
      BY DEF Covered
    <3> QED BY <1>0, <3>5, <3>6
  <2>5. Promise(s)!Release
    <3>1. Covered(s)' \in SUBSET (1..got[s]) /\ Covered(s)' = Covered(s) \union Covered(s)'
      BY <2>3, <2>4
    <3>2. sent'[s] = sent[s] /\ 1..got'[s] = 1..got[s]
      BY <2>1
    <3> QED BY <3>1, <3>2 DEF Promise!Release
  <2> QED BY <2>5 DEF Promise!Next
<1>5. CASE UNCHANGED <<sent, got, acked>>
  BY <1>1, <1>5 DEF Promise!avars
<1>6. \/ UNCHANGED <<sent, got, acked>> \/ RecvAck
      \/ (\E l \in Lane : Read(l)) \/ (\E l \in Lane : \E t \in Stream : Write(t, l))
  BY DEF Next, SendClose, Linger, EndWith, OpenLane, Close, SendAck, Refused, Unconfirmed, Fault,
         LaneFails, RejectLane, LaneError, LaneEnds, vars, svars, rvars
<1> QED BY <1>2, <1>3, <1>4, <1>5, <1>6

\* For each stream the lanes implement Delivery: what is received was sent, and the sender
\* has no more use for a piece only once it was received, whichever lanes the stream took,
\* were refused or failed.
THEOREM LanesDeliver == ASSUME NEW s \in Stream PROVE Spec => Promise(s)!Spec
<1>1. Spec => []IInv
  BY Invariance
<1>2. Init => Received
  <2> SUFFICES ASSUME Init PROVE Received
    OBVIOUS
  <2> QED BY DEF Init, Received
<1>3. IInv /\ IInv' /\ Received /\ [Next]_vars => Received'
  BY ReceivedStep DEF IInv
<1>4. Spec => []Received
  BY <1>1, <1>2, <1>3, PTL DEF Spec
<1>5. Init => Promise(s)!Init
  BY PromiseInit
<1>6. IInv /\ IInv' /\ Received /\ Received' /\ [Next]_vars => [Promise(s)!Next]_(Promise(s)!avars)
  BY PromiseStep DEF IInv
<1> QED BY <1>1, <1>4, <1>5, <1>6, PTL DEF Spec, Promise!Spec
=============================================================================
