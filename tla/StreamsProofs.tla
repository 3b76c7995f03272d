--------------------------- MODULE StreamsProofs ---------------------------
(***************************************************************************)
(* Proofs about Streams, for every number of streams and every concurrency *)
(* limit, ordered or not: types, the "not processed" guarantee of GOAWAY,  *)
(* the bound on open streams, and what the first GOAWAY and the fence      *)
(* spare.                                                                  *)
(***************************************************************************)
EXTENDS Streams, FiniteSetTheorems, WellFoundedInduction, TLAPS

-----------------------------------------------------------------------------
(* The inductive invariant.                                                *)

\* First frames, identifiers and limits are ordered as they are handed out.
Bounds == /\ hi <= sent /\ sent <= alloc /\ alloc <= mx /\ mx <= lim
          /\ waiting + alloc <= MaxId

\* The limit advertised is paid for by streams discarded.
Credited == lim <= Limit + Cardinality(Discarded)

\* What was offered was opened.
Seen == \A i \in Offered : i < hi

\* The watermarks sent in each phase, one of which the opener knows.
Phases == /\ phase = "open" => gw = {}
          /\ phase = "fence" => gw = {lim}
          /\ wm # None => wm \in gw

\* No watermark lies at or below a stream that was offered.
Kept == \A w \in gw : \A i \in Offered : i < w

\* A rejected stream was declined or lies at or above a watermark.
Refused == \A i \in rejO : app[i] = "declined" \/ \E w \in gw : w <= i

\* On a single pipe every open stream is offered until the final GOAWAY, and the
\* final watermark covers what was emitted before the fence was answered.
InOrder == ordered => /\ phase # "final" => \A i \in 0..(hi - 1) : i \in Offered
                      /\ mark # None => mark <= sent
                      /\ phase = "final" => \A i \in 0..(mark - 1) : \A w \in gw : i < w

IInv == /\ TypeOK /\ Bounds /\ Credited /\ Seen /\ Phases /\ Kept
        /\ Refused /\ FirstGoawayRefusesNothing /\ InOrder

-----------------------------------------------------------------------------
(* Sets of numbers.                                                        *)

\* A non-empty set of naturals has a smallest element.
LEMMA Smallest ==
  ASSUME NEW S \in SUBSET Nat, S # {}
  PROVE  \E x \in S : \A y \in S : x <= y
<1> DEFINE R == {ss \in Nat \X Nat : ss[1] < ss[2]}
<1>1. IsWellFoundedOn(R, Nat)
  BY NatLessThanWellFounded DEF OpToRel
<1>2. \E x \in S : \A y \in S : ~(<<y, x>> \in R)
  <2> HIDE DEF R
  <2> QED
    BY <1>1, WFMin
<1>3. PICK x \in S : \A y \in S : ~(<<y, x>> \in R)
  BY <1>2
<1>4. ASSUME NEW y \in S PROVE x <= y
  <2>1. y < x => <<y, x>> \in R
    OBVIOUS
  <2>2. ~(y < x)
    BY <1>3, <2>1
  <2> QED
    BY <2>2
<1> QED
  BY <1>3, <1>4

\* The operator Min, on such a set.
LEMMA MinIs ==
  ASSUME NEW S \in SUBSET Nat, S # {}
  PROVE  Min(S) \in S /\ \A y \in S : Min(S) <= y
  BY Smallest DEF Min

\* The operator Max, on a non-empty set of naturals with an upper bound.
LEMMA MaxIs ==
  ASSUME NEW S \in SUBSET Nat, S # {}, NEW n \in Nat, \A y \in S : y <= n
  PROVE  Max(S) \in S /\ \A y \in S : y <= Max(S)
<1> DEFINE U == {u \in Nat : \A y \in S : y <= u}
<1>1. n \in U
  OBVIOUS
<1>2. PICK u \in U : \A v \in U : u <= v
  BY <1>1, Smallest
<1>3. u \in S
  <2>1. SUFFICES ASSUME u \notin S PROVE FALSE
    OBVIOUS
  <2>2. PICK y \in S : TRUE
    OBVIOUS
  <2>3. \A z \in S : z < u
    BY <2>1, <1>2
  <2>4. u - 1 \in U
    BY <2>2, <2>3
  <2> QED
    BY <2>4, <1>2
<1> QED
  BY <1>2, <1>3 DEF Max

-----------------------------------------------------------------------------
(* The sets and watermarks of a state.                                     *)

\* The smallest of a set of watermarks and None.
LEMMA LowestIs ==
  ASSUME NEW G \in SUBSET (0..(None - 1))
  PROVE  /\ Min(G \union {None}) \in G \union {None}
         /\ \A w \in G \union {None} : Min(G \union {None}) <= w
<1>1. G \union {None} \in SUBSET Nat
  BY BoundAssumption DEF None
<1> QED
  BY <1>1, MinIs

\* The final watermark lies just above the highest stream offered.
LEMMA FinalIs ==
  ASSUME TypeOK
  PROVE  /\ FinalWatermark \in 0..MaxId
         /\ \A i \in Offered : i < FinalWatermark
         /\ FinalWatermark = 0 \/ FinalWatermark - 1 \in Offered
<1> DEFINE T == {i + 1 : i \in Offered} \union {0}
<1>1. T \in SUBSET Nat /\ T # {} /\ \A y \in T : y <= MaxId
  BY BoundAssumption DEF Offered, Id
<1>2. MaxId \in Nat
  BY BoundAssumption
<1>3. Max(T) \in T /\ \A y \in T : y <= Max(T)
  <2> HIDE DEF T
  <2> QED
    BY <1>1, <1>2, MaxIs
<1>4. FinalWatermark = Max(T)
  BY DEF FinalWatermark
<1>5. \A i \in Offered : i + 1 <= Max(T) /\ i \in Nat
  BY <1>3, BoundAssumption DEF Offered, Id
<1>6. Max(T) \in 0..MaxId
  BY <1>1, <1>2, <1>3
<1>7. Max(T) = 0 \/ Max(T) - 1 \in Offered
  <2>1. CASE Max(T) = 0
    BY <2>1
  <2>2. CASE \E i \in Offered : Max(T) = i + 1
    BY <2>2 DEF Offered, Id
  <2> QED
    BY <1>3, <2>1, <2>2
<1> QED
  BY <1>4, <1>5, <1>6, <1>7

\* A set of streams is finite, and has at most MaxId members.
LEMMA StreamsFinite ==
  ASSUME NEW S \in SUBSET Id
  PROVE  IsFiniteSet(S) /\ Cardinality(S) \in 0..MaxId
<1>1. IsFiniteSet(Id) /\ Cardinality(Id) <= MaxId
  <2>1. 0 \in Int /\ MaxId - 1 \in Int
    BY BoundAssumption
  <2>2. /\ IsFiniteSet(0..(MaxId - 1))
        /\ Cardinality(0..(MaxId - 1)) = IF 0 > MaxId - 1 THEN 0 ELSE MaxId - 1 - 0 + 1
    BY <2>1, FS_Interval
  <2> QED
    BY <2>2, BoundAssumption DEF Id
<1>2. IsFiniteSet(S) /\ Cardinality(S) <= Cardinality(Id)
  BY <1>1, FS_Subset
<1>3. Cardinality(Id) \in Nat /\ Cardinality(S) \in Nat
  BY <1>1, <1>2, FS_CardinalityType
<1> QED
  BY <1>1, <1>2, <1>3, BoundAssumption

\* Discarded streams are streams, and so finitely many.
LEMMA DiscardedFinite ==
  Discarded \in SUBSET Id /\ Cardinality(Discarded) \in 0..MaxId
<1>1. Discarded \in SUBSET Id
  BY DEF Discarded, Released, Rejected
<1> QED
  BY <1>1, StreamsFinite

\* The steps of the accepting application.
AppAny(i) == Take(i) \/ Decline(i) \/ Finish(i) \/ Release(i)

\* An application step changes one stream, which had been offered and stays so.
LEMMA AppIs ==
  ASSUME TypeOK, NEW i \in Id, AppAny(i)
  PROVE  /\ UNCHANGED <<ovars, hi, fin, lim, phase, gw, ordered>>
         /\ app' \in [Id -> {"none", "offered", "taken", "finished", "declined", "released"}]
         /\ app[i] \in {"offered", "taken", "finished"}
         /\ app'[i] # "none"
         /\ \A j \in Id \ {i} : app'[j] = app[j]
<1>1. PICK from \in SUBSET {"offered", "taken", "finished"},
              to \in {"taken", "finished", "declined", "released"} : AppStep(i, from, to)
  BY DEF AppAny, Take, Decline, Finish, Release
<1>2. app' = [app EXCEPT ![i] = to]
  BY <1>1 DEF AppStep
<1>3. app' \in [Id -> {"none", "offered", "taken", "finished", "declined", "released"}]
  BY <1>2 DEF TypeOK
<1> QED
  BY <1>1, <1>2, <1>3 DEF AppStep, TypeOK

-----------------------------------------------------------------------------
(* Types.                                                                  *)

\* Every step preserves the types; the watermark sent first is a limit paid for.
LEMMA TypeStep ==
  ASSUME TypeOK, Bounds, Credited, [Next]_vars
  PROVE  TypeOK'
<1> USE BoundAssumption
<1>1. CASE Open
  BY <1>1 DEF Open, TypeOK, avars
<1>2. CASE Cancel
  BY <1>2 DEF Cancel, TypeOK, avars
<1>3. CASE Pin
  BY <1>3 DEF Pin, TypeOK, avars, Bounds
<1>4. CASE EmitPinned
  BY <1>4 DEF EmitPinned, TypeOK, avars
<1>5. CASE EmitNew
  BY <1>5 DEF EmitNew, TypeOK, avars, Bounds
<1>6. CASE RecvMaxStreams
  BY <1>6 DEF RecvMaxStreams, TypeOK, avars
<1>7. ASSUME NEW w \in gw, RecvGoaway(w) PROVE TypeOK'
  BY <1>7 DEF RecvGoaway, TypeOK, avars, None
<1>8. CASE RecvPing
  BY <1>8 DEF RecvPing, TypeOK, avars, None
<1>9. ASSUME NEW i \in Id, End(i) PROVE TypeOK'
  BY <1>9 DEF End, TypeOK, avars
<1>10. ASSUME NEW i \in Id, RecvEnd(i) PROVE TypeOK'
  BY <1>10 DEF RecvEnd, TypeOK, avars
<1>11. ASSUME NEW i \in Id, RecvPreamble(i) PROVE TypeOK'
  <2>1. Opened(i) \in 0..MaxId
    BY DEF Opened, Id, TypeOK
  <2> QED
    BY <1>11, <2>1 DEF RecvPreamble, TypeOK, ovars
<1>12. ASSUME NEW i \in Id, RecvFin(i) PROVE TypeOK'
  <2>1. Opened(i) \in 0..MaxId
    BY DEF Opened, Id, TypeOK
  <2> QED
    BY <1>12, <2>1 DEF RecvFin, TypeOK, ovars
<1>13. ASSUME NEW i \in Id, AppAny(i) PROVE TypeOK'
  BY <1>13, AppIs DEF TypeOK, ovars
<1>14. CASE Raise
  <2>1. lim + Freed \in Nat
    BY <1>14, DiscardedFinite DEF Raise, Freed, TypeOK
  <2> QED
    BY <1>14, <2>1 DEF Raise, TypeOK, ovars
<1>15. CASE Shutdown
  <2>1. lim \in 0..(None - 1)
    BY DiscardedFinite DEF Credited, None, TypeOK
  <2> QED
    BY <1>15, <2>1 DEF Shutdown, TypeOK, ovars
<1>16. CASE RecvPong
  <2>1. FinalWatermark \in 0..(None - 1)
    BY FinalIs DEF None
  <2> QED
    BY <1>16, <2>1 DEF RecvPong, TypeOK, ovars
<1>17. CASE UNCHANGED vars
  BY <1>17 DEF vars, ovars, avars, TypeOK
<1> QED
  BY <1>1, <1>2, <1>3, <1>4, <1>5, <1>6, <1>7, <1>8, <1>9, <1>10, <1>11, <1>12, <1>13,
     <1>14, <1>15, <1>16, <1>17 DEF Next, AppAny, RecvStop, Over

-----------------------------------------------------------------------------
(* Which steps change what, and what only grows.                           *)

\* The steps that change each variable the invariant speaks of.
LEMMA Writers ==
  ASSUME TypeOK, [Next]_vars
  PROVE  /\ app' = app \/ \E i \in Id : RecvPreamble(i) \/ AppAny(i)
         /\ hi' = hi \/ \E i \in Id : RecvPreamble(i) \/ RecvFin(i)
         /\ UNCHANGED <<gw, phase>> \/ Shutdown \/ RecvPong
         /\ lim' = lim \/ Raise
         /\ rejO' = rejO \/ (\E w \in gw : RecvGoaway(w)) \/ (\E i \in Id : RecvEnd(i))
         /\ wm' = wm \/ \E w \in gw : RecvGoaway(w)
         /\ mark' = mark \/ RecvPing
         /\ fin' = fin \/ \E i \in Id : RecvFin(i)
         /\ got' = got \/ \E i \in Id : RecvEnd(i)
         /\ ordered' = ordered
<1>1. CASE Open \/ Cancel \/ Pin \/ EmitPinned \/ EmitNew \/ RecvMaxStreams
  BY <1>1 DEF Open, Cancel, Pin, EmitPinned, EmitNew, RecvMaxStreams, avars
<1>2. CASE (\E w \in gw : RecvGoaway(w)) \/ RecvPing
  BY <1>2 DEF RecvGoaway, RecvPing, avars
<1>3. ASSUME NEW i \in Id, End(i) \/ RecvEnd(i)
      PROVE  /\ UNCHANGED <<avars, wm, mark>>
             /\ UNCHANGED <<rejO, got>> \/ RecvEnd(i)
  BY <1>3 DEF End, RecvEnd, avars
<1>4. ASSUME NEW i \in Id, RecvPreamble(i)
      PROVE  UNCHANGED <<ovars, fin, lim, phase, gw, ordered>>
  BY <1>4 DEF RecvPreamble
<1>5. ASSUME NEW i \in Id, RecvFin(i)
      PROVE  UNCHANGED <<ovars, app, lim, phase, gw, ordered>>
  BY <1>5 DEF RecvFin
<1>6. ASSUME NEW i \in Id, AppAny(i)
      PROVE  UNCHANGED <<ovars, hi, fin, lim, phase, gw, ordered>>
  BY <1>6, AppIs
<1>7. CASE Raise \/ Shutdown \/ RecvPong
  BY <1>7 DEF Raise, Shutdown, RecvPong, ovars
<1>8. CASE UNCHANGED vars
  BY <1>8 DEF vars, ovars, avars
<1>9. \/ Open \/ Cancel \/ Pin \/ EmitPinned \/ EmitNew \/ RecvMaxStreams
      \/ (\E w \in gw : RecvGoaway(w)) \/ RecvPing
      \/ (\E i \in Id : End(i) \/ RecvEnd(i)) \/ (\E i \in Id : RecvPreamble(i))
      \/ (\E i \in Id : RecvFin(i)) \/ (\E i \in Id : AppAny(i))
      \/ Raise \/ Shutdown \/ RecvPong \/ UNCHANGED vars
  BY DEF Next, AppAny, RecvStop, Over
<1>10. CASE \E i \in Id : End(i) \/ RecvEnd(i)
  BY <1>10, <1>3 DEF avars
<1>11. CASE \E i \in Id : RecvPreamble(i)
  BY <1>11, <1>4 DEF ovars
<1>12. CASE \E i \in Id : RecvFin(i)
  BY <1>12, <1>5 DEF ovars
<1>13. CASE \E i \in Id : AppAny(i)
  BY <1>13, <1>6 DEF ovars
<1> QED
  BY <1>1, <1>2, <1>7, <1>8, <1>9, <1>10, <1>11, <1>12, <1>13

\* A first frame opens its stream and offers it below the watermark; no other
\* stream changes.
LEMMA PreambleIs ==
  ASSUME TypeOK, NEW i \in Id, RecvPreamble(i)
  PROVE  /\ hi <= hi' /\ i < hi' /\ i < sent /\ (hi' = hi \/ hi' = i + 1)
         /\ Offered \subseteq Offered'
         /\ \A j \in Offered' : j \in Offered \/ (j = i /\ i < Watermark)
         /\ \A j \in Offered : app'[j] = app[j]
         /\ i < Watermark => i \in Offered'
<1>1. hi' = Opened(i) /\ i < sent
  BY DEF RecvPreamble
<1>2. hi <= hi' /\ i < hi' /\ (hi' = hi \/ hi' = i + 1)
  BY <1>1, BoundAssumption DEF Opened, Id, TypeOK
<1>3. app' = IF i < Watermark /\ app[i] = "none"
             THEN [app EXCEPT ![i] = "offered"] ELSE app
  BY DEF RecvPreamble
<1> QED
  BY <1>1, <1>2, <1>3 DEF Offered, TypeOK

\* Nothing is taken back: openings, offers, releases, ends and watermarks.
LEMMA Grows ==
  ASSUME TypeOK, Phases, [Next]_vars
  PROVE  /\ hi <= hi' /\ Offered \subseteq Offered' /\ Released \subseteq Released'
         /\ fin \subseteq fin' /\ got \subseteq got' /\ gw \subseteq gw'
         /\ \A i \in Id : app[i] = "declined" => app'[i] = "declined"
<1>1. hi <= hi'
  <2>1. ASSUME NEW i \in Id, RecvFin(i) PROVE hi <= hi'
    BY <2>1, BoundAssumption DEF RecvFin, Opened, Id, TypeOK
  <2>2. hi \in Int
    BY DEF TypeOK
  <2> QED
    BY <2>1, <2>2, Writers, PreambleIs
<1>2. \A i \in Id : /\ app[i] # "none" => app'[i] # "none"
                    /\ app[i] \in {"declined", "released"} => app'[i] = app[i]
  <2>1. ASSUME NEW j \in Id, AppAny(j), NEW i \in Id
        PROVE  /\ app[i] # "none" => app'[i] # "none"
               /\ app[i] \in {"declined", "released"} => app'[i] = app[i]
    BY <2>1, AppIs
  <2>2. ASSUME NEW j \in Id, RecvPreamble(j), NEW i \in Id
        PROVE  app[i] # "none" => app'[i] = app[i]
    BY <2>2, PreambleIs DEF Offered
  <2> QED
    BY <2>1, <2>2, Writers
<1>3. fin \subseteq fin'
  BY Writers DEF RecvFin
<1>4. got \subseteq got'
  BY Writers DEF RecvEnd
<1>5. gw \subseteq gw'
  BY Writers DEF Shutdown, RecvPong, Phases
<1> QED
  BY <1>1, <1>2, <1>3, <1>4, <1>5 DEF Offered, Released

\* What was discarded stays discarded.
LEMMA DiscardedGrows ==
  ASSUME TypeOK, TypeOK', Phases, [Next]_vars
  PROVE  Cardinality(Discarded) <= Cardinality(Discarded')
<1>1. Watermark' <= Watermark /\ Watermark \in Int /\ Watermark' \in Int
  <2>1. gw \in SUBSET (0..(None - 1)) /\ gw' \in SUBSET (0..(None - 1)) /\ gw \subseteq gw'
    BY Grows DEF TypeOK, None
  <2>2. None \in Nat
    BY BoundAssumption DEF None
  <2>3. Watermark = Min(gw \union {None}) /\ Watermark' = Min(gw' \union {None})
    BY DEF Watermark, None
  <2>4. /\ Watermark \in gw \union {None}
        /\ \A w \in gw \union {None} : Watermark <= w
    BY <2>1, <2>3, LowestIs
  <2>5. /\ Watermark' \in gw' \union {None}
        /\ \A w \in gw' \union {None} : Watermark' <= w
    BY <2>1, <2>3, LowestIs
  <2> QED
    BY <2>1, <2>2, <2>4, <2>5
<1>2. Rejected \subseteq Rejected'
  <2>1. \A i \in Rejected : i \in Id /\ Watermark <= i /\ i < hi
    BY DEF Rejected
  <2>2. hi \in Int /\ hi' \in Int /\ hi <= hi'
    BY Grows DEF TypeOK
  <2>3. \A i \in Rejected : i \in Id /\ Watermark' <= i /\ i < hi'
    BY <2>1, <2>2, <1>1, BoundAssumption DEF Id
  <2> QED
    BY <2>3 DEF Rejected, Id
<1>3. Discarded \in SUBSET Discarded'
  BY <1>2, Grows DEF Discarded
<1>4. Discarded' \in SUBSET Id
  BY DEF Discarded, Released, Rejected, Id
<1>5. IsFiniteSet(Discarded')
  BY <1>4, StreamsFinite
<1> QED
  BY <1>3, <1>5, FS_Subset

-----------------------------------------------------------------------------
(* The invariant is preserved, one part at a time.                         *)

\* Identifiers are handed out below the limit known, first frames in their order,
\* and a frame that arrives was sent.
LEMMA BoundsStep ==
  ASSUME IInv, TypeOK', [Next]_vars
  PROVE  Bounds'
<1> USE BoundAssumption DEF IInv, TypeOK, Bounds
<1>1. CASE Open \/ Cancel \/ Pin
  <2>1. CASE Open
    BY <2>1 DEF Open, avars
  <2>2. CASE Cancel
    BY <2>2 DEF Cancel, avars
  <2>3. CASE Pin
    BY <2>3 DEF Pin, avars
  <2> QED
    BY <1>1, <2>1, <2>2, <2>3
<1>2. CASE EmitPinned
  BY <1>2 DEF EmitPinned, avars
<1>3. CASE EmitNew
  BY <1>3 DEF EmitNew, avars
<1>4. CASE RecvMaxStreams
  BY <1>4 DEF RecvMaxStreams, avars
<1>5. ASSUME NEW w \in gw, RecvGoaway(w) PROVE Bounds'
  BY <1>5 DEF RecvGoaway, avars
<1>6. CASE RecvPing
  BY <1>6 DEF RecvPing, avars
<1>7. ASSUME NEW i \in Id, End(i) \/ RecvEnd(i) PROVE Bounds'
  BY <1>7 DEF End, RecvEnd, avars
<1>8. ASSUME NEW i \in Id, RecvPreamble(i) PROVE Bounds'
  <2>1. (hi' = hi \/ hi' = i + 1) /\ i < sent
    BY <1>8, PreambleIs
  <2> QED
    BY <1>8, <2>1 DEF RecvPreamble, ovars, Id
<1>9. ASSUME NEW i \in Id, RecvFin(i) PROVE Bounds'
  BY <1>9 DEF RecvFin, Opened, ovars, Id
<1>10. ASSUME NEW i \in Id, AppAny(i) PROVE Bounds'
  BY <1>10, AppIs DEF ovars
<1>11. CASE Raise
  <2>1. lim <= lim'
    BY <1>11, DiscardedFinite DEF Raise, Freed
  <2> QED
    BY <1>11, <2>1 DEF Raise, ovars
<1>12. CASE Shutdown \/ RecvPong
  BY <1>12 DEF Shutdown, RecvPong, ovars
<1>13. CASE UNCHANGED vars
  BY <1>13 DEF vars, ovars, avars
<1> QED
  BY <1>1, <1>2, <1>3, <1>4, <1>5, <1>6, <1>7, <1>8, <1>9, <1>10, <1>11, <1>12, <1>13
     DEF Next, AppAny, RecvStop, Over

\* MAX_STREAMS is raised by what was discarded only.
LEMMA CreditedStep ==
  ASSUME IInv, TypeOK', [Next]_vars
  PROVE  Credited'
<1>1. Cardinality(Discarded) <= Cardinality(Discarded')
  BY DiscardedGrows DEF IInv
<1>2. /\ Cardinality(Discarded) \in Nat
      /\ Discarded' \in SUBSET Id
  BY DiscardedFinite DEF Discarded, Released, Rejected, Id
<1>3. Cardinality(Discarded') \in Nat
  BY <1>2, StreamsFinite
<1>4. CASE Raise
  BY <1>1, <1>2, <1>3, <1>4, BoundAssumption DEF Raise, Freed, Credited, IInv, TypeOK
<1>5. CASE lim' = lim
  BY <1>1, <1>2, <1>3, <1>5, BoundAssumption DEF Credited, IInv, TypeOK
<1> QED
  BY <1>4, <1>5, Writers DEF IInv

\* A stream is opened before or when it is offered.
LEMMA SeenStep ==
  ASSUME IInv, TypeOK', [Next]_vars
  PROVE  Seen'
<1> USE DEF IInv
<1>1. hi \in Int /\ hi' \in Int /\ hi <= hi' /\ Id \subseteq Int
  <2>1. hi <= hi'
    BY Grows
  <2> QED
    BY <2>1 DEF TypeOK, Id
<1>2. ASSUME NEW j \in Id, RecvPreamble(j), NEW i \in Offered' PROVE i < hi'
  <2>1. i \in Offered \/ i = j
    BY <1>2, PreambleIs
  <2> QED
    BY <1>1, <1>2, <2>1, PreambleIs DEF Seen, Offered
<1>3. ASSUME NEW j \in Id, AppAny(j), NEW i \in Offered' PROVE i < hi'
  <2>1. i \in Offered
    BY <1>3, AppIs DEF Offered
  <2> QED
    BY <1>1, <2>1 DEF Seen, Offered
<1>4. CASE app' = app
  BY <1>1, <1>4 DEF Seen, Offered
<1> QED
  BY <1>2, <1>3, <1>4, Writers DEF Seen

\* Only a shutdown sends watermarks, and only sent ones are received.
LEMMA PhasesStep ==
  ASSUME IInv, TypeOK', [Next]_vars
  PROVE  Phases'
<1> USE DEF IInv, TypeOK, Phases
<1>1. wm' # None => wm' \in gw'
  <2>1. gw \subseteq gw'
    BY Grows
  <2>2. ASSUME NEW w \in gw, RecvGoaway(w) PROVE wm' \in gw'
    BY <2>1, <2>2 DEF RecvGoaway
  <2> QED
    BY <2>1, <2>2, Writers DEF None
<1>2. CASE Shutdown
  BY <1>1, <1>2 DEF Shutdown, None
<1>3. CASE RecvPong
  BY <1>1, <1>3 DEF RecvPong, None
<1>4. CASE UNCHANGED <<gw, phase>>
  <2>1. CASE lim' = lim
    BY <1>1, <1>4, <2>1 DEF None
  <2>2. CASE Raise
    BY <1>1, <1>4, <2>2 DEF Raise, None
  <2> QED
    BY <2>1, <2>2, Writers
<1> QED
  BY <1>2, <1>3, <1>4, Writers

\* The watermark in force is None or one that was sent, and below all of those.
LEMMA WatermarkIs ==
  ASSUME TypeOK
  PROVE  /\ Watermark \in gw \union {None} /\ Watermark \in Nat
         /\ \A w \in gw : Watermark <= w
         /\ \A i \in Id : Watermark <= i => Watermark \in gw
<1>1. gw \in SUBSET (0..(None - 1)) /\ None \in Nat
  BY BoundAssumption DEF TypeOK, None
<1>2. /\ Watermark \in gw \union {None}
      /\ \A w \in gw \union {None} : Watermark <= w
  BY <1>1, LowestIs DEF Watermark
<1>3. \A i \in Id : i < None
  BY BoundAssumption DEF Id, None
<1> QED
  BY <1>1, <1>2, <1>3, BoundAssumption DEF Id

\* A stream is offered below every watermark sent, and a watermark is sent above
\* every stream offered.
LEMMA KeptStep ==
  ASSUME IInv, TypeOK', [Next]_vars
  PROVE  Kept'
<1> USE DEF IInv
<1>1. Id \subseteq Int /\ gw \subseteq Int /\ lim \in Int /\ hi \in Int /\ hi <= lim
  BY BoundAssumption DEF Id, TypeOK, Bounds, None
<1>2. CASE UNCHANGED <<gw, phase>>
  <2>1. ASSUME NEW j \in Id, RecvPreamble(j), NEW w \in gw, NEW i \in Offered' PROVE i < w
    <3>1. i \in Offered \/ (i = j /\ i < Watermark)
      BY <2>1, PreambleIs
    <3>2. Watermark <= w /\ Watermark \in Int
      BY WatermarkIs
    <3> QED
      BY <1>1, <3>1, <3>2 DEF Kept
  <2>2. ASSUME NEW j \in Id, AppAny(j), NEW i \in Offered' PROVE i \in Offered
    BY <2>2, AppIs DEF Offered
  <2> QED
    BY <1>2, <2>1, <2>2, Writers DEF Kept, Offered
<1>3. CASE Shutdown
  BY <1>1, <1>3 DEF Shutdown, Kept, Seen, Offered, TypeOK
<1>4. CASE RecvPong
  BY <1>1, <1>4, FinalIs DEF RecvPong, Kept, Offered, TypeOK
<1> QED
  BY <1>2, <1>3, <1>4, Writers

\* A stream is reported as rejected when a watermark says so, or its reset does.
LEMMA RefusedStep ==
  ASSUME IInv, TypeOK', [Next]_vars
  PROVE  Refused' /\ FirstGoawayRefusesNothing'
<1> USE DEF IInv
<1>1. gw \subseteq gw' /\ \A i \in Id : app[i] = "declined" => app'[i] = "declined"
  BY Grows
<1>2. phase' # "final" => phase # "final"
  BY Writers DEF Shutdown, RecvPong
<1>3. rejO \subseteq Id
  BY DEF TypeOK
<1>4. CASE rejO' = rejO
  BY <1>1, <1>2, <1>3, <1>4 DEF Refused, FirstGoawayRefusesNothing
<1>5. ASSUME NEW w \in gw, RecvGoaway(w) PROVE Refused' /\ FirstGoawayRefusesNothing'
  <2>1. rejO' = rejO \union {i \in Id : w <= i /\ i < alloc}
    BY <1>5 DEF RecvGoaway
  <2>2. Refused'
    BY <1>1, <1>3, <2>1 DEF Refused
  <2>3. phase # "final" => w = lim
    BY DEF Phases, TypeOK
  <2>4. phase # "final" => {i \in Id : w <= i /\ i < alloc} = {}
    <3>1. alloc \in Int /\ lim \in Int /\ alloc <= lim /\ Id \subseteq Int
      <4>1. alloc \in Int /\ mx \in Int /\ lim \in Int
        BY DEF TypeOK
      <4> QED
        BY <4>1 DEF Bounds, Id
    <3>2. ASSUME phase # "final", NEW i \in Id, w <= i, i < alloc PROVE FALSE
      <4>1. w = lim /\ i \in Int
        BY <2>3, <3>1, <3>2
      <4> QED
        BY <3>1, <3>2, <4>1
    <3> QED
      BY <3>2
  <2> QED
    BY <1>1, <1>2, <1>3, <2>1, <2>2, <2>4 DEF FirstGoawayRefusesNothing
<1>6. ASSUME NEW i \in Id, RecvEnd(i) PROVE Refused' /\ FirstGoawayRefusesNothing'
  <2>1. rejO' \subseteq rejO \union {i} /\ app' = app
        /\ (i \in rejO' => i \in rejO \/ i \in Rejected \/ app[i] = "declined")
    BY <1>6 DEF RecvEnd, avars
  <2>2. i \in Rejected => Watermark \in gw /\ Watermark <= i /\ i < hi
    BY WatermarkIs DEF Rejected
  <2>3. Refused'
    BY <1>1, <1>3, <2>1, <2>2 DEF Refused
  <2>4. phase # "final" => i \notin Rejected
    <3>1. hi \in Int /\ lim \in Int /\ hi <= lim /\ Id \subseteq Int
      BY DEF Bounds, TypeOK, Id
    <3>2. phase # "final" => gw = {} \/ gw = {lim}
      BY DEF Phases, TypeOK
    <3> QED
      BY <2>2, <3>1, <3>2
  <2> QED
    BY <1>2, <2>1, <2>3, <2>4 DEF FirstGoawayRefusesNothing
<1> QED
  BY <1>4, <1>5, <1>6, Writers

\* On a single pipe every stream is offered as it is opened; the fence is answered
\* after the first GOAWAY and returns after all that was emitted before.
LEMMA InOrderStep ==
  ASSUME IInv, TypeOK', [Next]_vars
  PROVE  InOrder'
<1> USE DEF IInv
<1>1. SUFFICES ASSUME ordered, ordered' = ordered
               PROVE  /\ phase' # "final" => \A i \in 0..(hi' - 1) : i \in Offered'
                      /\ mark' # None => mark' <= sent'
                      /\ phase' = "final" =>
                           \A i \in 0..(mark' - 1) : \A w \in gw' : i < w
  BY Writers DEF InOrder, None
<1>2. /\ hi \in Nat /\ hi' \in Nat /\ sent \in Int /\ mark \in Int /\ lim \in Int
      /\ hi <= sent /\ sent <= lim /\ gw \subseteq Int /\ Id \subseteq Int
  BY BoundAssumption DEF TypeOK, Bounds, None, Id
<1>3. phase' # "final" => \A i \in 0..(hi' - 1) : i \in Offered'
  <2>1. phase' # "final" => phase # "final" /\ \A i \in 0..(hi - 1) : i \in Offered'
    BY <1>1, Writers, Grows DEF Shutdown, RecvPong, InOrder
  <2>2. CASE hi' = hi
    BY <2>1, <2>2
  <2>3. ASSUME NEW i \in Id, RecvPreamble(i), phase' # "final"
        PROVE  \A j \in 0..(hi' - 1) : j \in Offered'
    <3>1. i < Watermark
      <4>1. gw \subseteq {lim}
        BY <2>1, <2>3 DEF Phases, TypeOK
      <4>2. Watermark = lim \/ Watermark = None
        BY <4>1, WatermarkIs
      <4>3. i < lim /\ i < None
        <5>1. i < sent
          BY <2>3, PreambleIs
        <5> QED
          BY <1>2, <5>1, BoundAssumption DEF Id, None
      <4> QED
        BY <4>2, <4>3
    <3>2. i \in Offered' /\ (hi' = hi \/ hi' = i + 1)
      BY <2>3, <3>1, PreambleIs
    <3>3. i <= hi
      BY <1>1, <2>3 DEF RecvPreamble
    <3>4. i \in Int /\ hi \in Int
      BY <1>2, <2>3
    <3>5. 0..(hi' - 1) \subseteq 0..(hi - 1) \union {i}
      <4>1. CASE hi' = hi
        BY <4>1
      <4>2. CASE hi' = i + 1
        <5>1. \A j \in 0..i : j <= hi - 1 \/ j = i
          BY <3>3, <3>4
        <5> QED
          BY <3>3, <3>4, <4>2, <5>1
      <4> QED
        BY <3>2, <4>1, <4>2
    <3> QED
      BY <2>1, <2>3, <3>2, <3>5
  <2>4. ASSUME NEW i \in Id, RecvFin(i) PROVE hi' = hi
    BY <1>1, <2>4 DEF RecvFin, Opened
  <2> QED
    BY <2>2, <2>3, <2>4, Writers
<1>4. mark' # None => mark' <= sent'
  <2>1. sent <= sent' /\ sent' \in Int
    <3>1. sent' \in Int
      BY DEF TypeOK
    <3>2. sent' = sent \/ sent' = sent + 1
      <4>1. CASE Open \/ Cancel \/ Pin \/ EmitPinned \/ EmitNew \/ RecvMaxStreams \/ RecvPing
        BY <4>1 DEF Open, Cancel, Pin, EmitPinned, EmitNew, RecvMaxStreams, RecvPing
      <4>2. ASSUME NEW w \in gw, RecvGoaway(w) PROVE sent' = sent
        BY <4>2 DEF RecvGoaway
      <4>3. ASSUME NEW i \in Id, End(i) \/ RecvEnd(i) \/ RecvPreamble(i) \/ RecvFin(i)
            PROVE  sent' = sent
        BY <4>3 DEF End, RecvEnd, RecvPreamble, RecvFin, ovars
      <4>4. ASSUME NEW i \in Id, AppAny(i) PROVE sent' = sent
        BY <4>4, AppIs DEF ovars
      <4>5. CASE Raise \/ Shutdown \/ RecvPong \/ UNCHANGED vars
        BY <4>5 DEF Raise, Shutdown, RecvPong, vars, ovars
      <4> QED
        BY <4>1, <4>2, <4>3, <4>4, <4>5 DEF Next, AppAny, RecvStop, Over
    <3> QED
      BY <1>2, <3>1, <3>2
  <2>2. CASE RecvPing
    BY <1>2, <2>1, <2>2 DEF RecvPing
  <2>3. CASE mark' = mark
    BY <1>1, <1>2, <2>1, <2>3 DEF InOrder
  <2> QED
    BY <2>2, <2>3, Writers
<1>5. phase' = "final" => \A i \in 0..(mark' - 1) : \A w \in gw' : i < w
  <2>1. CASE RecvPong
    <3>1. /\ mark' = mark /\ mark <= hi /\ gw' = gw \union {FinalWatermark} /\ gw = {lim}
          /\ phase # "final"
      BY <1>1, <2>1 DEF RecvPong, ovars, Phases
    <3>2. \A i \in 0..(mark - 1) : i < lim /\ i \in Offered
      BY <1>1, <1>2, <3>1 DEF InOrder
    <3>3. \A i \in 0..(mark - 1) : i < FinalWatermark
      BY <3>2, FinalIs
    <3> QED
      BY <3>1, <3>2, <3>3
  <2>2. CASE Shutdown
    BY <2>2 DEF Shutdown
  <2>3. CASE UNCHANGED <<gw, phase>>
    <3>1. phase = "final" => mark' = mark
      BY Writers DEF RecvPing
    <3> QED
      BY <1>1, <2>3, <3>1 DEF InOrder
  <2> QED
    BY <2>1, <2>2, <2>3, Writers
<1> QED
  BY <1>3, <1>4, <1>5

-----------------------------------------------------------------------------
(* Theorems.                                                               *)

\* The initial state satisfies the invariant.
LEMMA InitIInv == Init => IInv
<1> SUFFICES ASSUME Init PROVE IInv
  OBVIOUS
<1> USE BoundAssumption DEF Init
<1>1. TypeOK
  BY DEF TypeOK, None, Id
<1>2. Bounds /\ Phases /\ Refused /\ FirstGoawayRefusesNothing
  BY DEF Bounds, Phases, Refused, FirstGoawayRefusesNothing
<1>3. Credited
  BY DiscardedFinite DEF Credited
<1>4. Offered = {}
  BY DEF Offered
<1>5. Seen /\ Kept /\ InOrder
  BY <1>4 DEF Seen, Kept, InOrder
<1> QED
  BY <1>1, <1>2, <1>3, <1>5 DEF IInv

\* IInv is an invariant of every behaviour: each of its parts, whose steps are
\* the lemmas above, supports the others.
THEOREM InvariantHolds == Spec => []IInv
<1>1. IInv /\ [Next]_vars => IInv'
  <2> SUFFICES ASSUME IInv, [Next]_vars PROVE IInv'
    OBVIOUS
  <2>1. TypeOK'
    BY TypeStep DEF IInv
  <2> QED
    BY <2>1, BoundsStep, CreditedStep, SeenStep, PhasesStep, KeptStep, RefusedStep,
       InOrderStep DEF IInv
<1> QED
  BY <1>1, InitIInv, PTL DEF Spec

\* Every variable keeps its shape.
THEOREM TypeCorrect == Spec => []TypeOK
<1>1. IInv => TypeOK
  BY DEF IInv
<1> QED
  BY <1>1, InvariantHolds, PTL

\* A stream reported as rejected was never read by the accepting application: a
\* watermark at or below it excludes that it was ever offered.
THEOREM NotProcessedHolds == Spec => []NotProcessed
<1>1. IInv => NotProcessed
  <2> SUFFICES ASSUME IInv, NEW i \in rejO PROVE app[i] \in {"none", "declined"}
    BY DEF NotProcessed
  <2>1. i \in Id
    BY DEF IInv, TypeOK
  <2>2. ASSUME NEW w \in gw, w <= i PROVE i \notin Offered
    <3>1. w \in Int /\ i \in Int
      BY <2>1, BoundAssumption DEF IInv, TypeOK, None, Id
    <3> QED
      BY <2>2, <3>1 DEF IInv, Kept
  <2> QED
    BY <2>1, <2>2 DEF IInv, Refused, Offered
<1> QED
  BY <1>1, InvariantHolds, PTL

\* However streams are opened and reset, no more than Limit are open and not
\* discarded: the limit advertised is the initial one plus the streams discarded.
THEOREM BoundedConcurrencyHolds == Spec => []BoundedConcurrency
<1>1. IInv => BoundedConcurrency
  BY DiscardedFinite, BoundAssumption
     DEF IInv, Bounds, Credited, TypeOK, BoundedConcurrency
<1> QED
  BY <1>1, InvariantHolds, PTL

\* Until the final GOAWAY no stream is rejected that the application did not decline.
THEOREM FirstGoawayRefusesNothingHolds == Spec => []FirstGoawayRefusesNothing
<1>1. IInv => FirstGoawayRefusesNothing
  BY DEF IInv
<1> QED
  BY <1>1, InvariantHolds, PTL

\* On a single pipe the final watermark covers what was emitted before the fence
\* was answered.
THEOREM FenceCoversHolds == Spec => []FenceCovers
<1>1. IInv => FenceCovers
  <2> SUFFICES ASSUME IInv, ordered, phase = "final", NEW i \in 0..(mark - 1)
               PROVE  i < Watermark
    BY DEF FenceCovers
  <2>1. Watermark \in gw \union {None} /\ mark \in 0..None /\ None \in Nat
    BY WatermarkIs, BoundAssumption DEF IInv, TypeOK, None
  <2>2. \A w \in gw : i < w
    BY DEF IInv, InOrder
  <2>3. i < None
    BY <2>1
  <2> QED
    BY <2>1, <2>2, <2>3
<1> QED
  BY <1>1, InvariantHolds, PTL
=============================================================================
