---------------------------- MODULE ResumeProofs ----------------------------
(***************************************************************************)
(* Resume: the types of its state and the cap on unretired attachments, for *)
(* any number of slots and faults, any cap and any directions.              *)
(***************************************************************************)
EXTENDS Resume, FiniteSetTheorems, TLAPS

USE DEF End, Peer, InUse

IInv == TypeOK /\ CapHolds

(* What an end keeps is finite. *)
LEMMA HeldFinite == \A e \in End : IsFiniteSet(Held(e))
  BY SlotAssumption, FS_Subset DEF Held

(* One more attachment adds at most one to the count. *)
LEMMA OneMore ==
  ASSUME NEW S, IsFiniteSet(S), NEW x, NEW T, T \subseteq S \cup {x}
  PROVE  IsFiniteSet(T) /\ Cardinality(T) <= Cardinality(S) + 1
<1>1. IsFiniteSet(S \cup {x}) /\ Cardinality(S \cup {x}) <= Cardinality(S) + 1
  <2>1. Cardinality(S) \in Nat
    BY FS_CardinalityType
  <2> QED BY <2>1, FS_AddElement
<1>2. IsFiniteSet(T) /\ Cardinality(T) <= Cardinality(S \cup {x})
  BY <1>1, FS_Subset
<1>3. Cardinality(T) \in Nat /\ Cardinality(S) \in Nat /\ Cardinality(S \cup {x}) \in Nat
  BY <1>1, <1>2, FS_CardinalityType
<1> QED BY <1>1, <1>2, <1>3

(* An attachment that takes the place of another adds nothing. *)
LEMMA InPlaceOf ==
  ASSUME NEW S, IsFiniteSet(S), NEW t \in S, NEW x, NEW T, T \subseteq (S \ {t}) \cup {x}
  PROVE  Cardinality(T) <= Cardinality(S)
<1>1. IsFiniteSet(S \ {t}) /\ Cardinality(S \ {t}) = Cardinality(S) - 1
  BY FS_RemoveElement
<1>2. Cardinality(T) <= Cardinality(S \ {t}) + 1
  BY <1>1, OneMore
<1>3. Cardinality(S) \in Nat
  BY FS_CardinalityType
<1> QED BY <1>1, <1>2, <1>3

(* A step after which neither end keeps anything new stays within the cap. *)
LEMMA NothingNew ==
  ASSUME CapHolds, \A e \in End : Held(e)' \subseteq Held(e)
  PROVE  CapHolds'
<1> SUFFICES ASSUME NEW e \in End PROVE Cardinality(Held(e)') <= Cap
  BY DEF CapHolds
<1>1. IsFiniteSet(Held(e))
  BY HeldFinite
<1>2. IsFiniteSet(Held(e)') /\ Cardinality(Held(e)') <= Cardinality(Held(e))
  BY <1>1, FS_Subset
<1>3. Cardinality(Held(e)) \in Nat /\ Cardinality(Held(e)') \in Nat
  BY <1>1, <1>2, FS_CardinalityType
<1> QED BY <1>2, <1>3, CapAssumption DEF CapHolds

(* Neither does an end that makes room for the one attachment it takes. *)
LEMMA MadeRoom ==
  ASSUME CapHolds, NEW e \in End, NEW s,
         Held(Peer(e))' \subseteq Held(Peer(e)),
         \/ ~Full(e) /\ Held(e)' \subseteq Held(e) \cup {s}
         \/ \E t \in Held(e) : Held(e)' \subseteq (Held(e) \ {t}) \cup {s}
  PROVE  CapHolds'
<1>1. \A f \in End : IsFiniteSet(Held(f)) /\ Cardinality(Held(f)) \in Nat
  BY HeldFinite, FS_CardinalityType
<1>2. IsFiniteSet(Held(e)') /\ Cardinality(Held(e)') <= Cap
  <2>1. CASE ~Full(e) /\ Held(e)' \subseteq Held(e) \cup {s}
    <3>1. IsFiniteSet(Held(e)') /\ Cardinality(Held(e)') <= Cardinality(Held(e)) + 1
      BY <2>1, <1>1, OneMore
    <3>2. Cardinality(Held(e)') \in Nat
      BY <3>1, FS_CardinalityType
    <3> QED BY <2>1, <1>1, <3>1, <3>2, CapAssumption DEF Full
  <2>2. ASSUME NEW t \in Held(e), Held(e)' \subseteq (Held(e) \ {t}) \cup {s}
        PROVE  IsFiniteSet(Held(e)') /\ Cardinality(Held(e)') <= Cap
    <3>1. Held(e)' \subseteq Held(e) \cup {s}
      BY <2>2
    <3>2. IsFiniteSet(Held(e)') /\ Cardinality(Held(e)') <= Cardinality(Held(e))
      BY <2>2, <3>1, <1>1, OneMore, InPlaceOf
    <3>3. Cardinality(Held(e)') \in Nat
      BY <3>2, FS_CardinalityType
    <3> QED BY <3>2, <3>3, <1>1, CapAssumption DEF CapHolds
  <2> QED BY <2>1, <2>2
<1>3. Cardinality(Held(Peer(e))') <= Cap
  <2>1. Peer(e) \in End
    OBVIOUS
  <2>2. IsFiniteSet(Held(Peer(e))') /\ Cardinality(Held(Peer(e))') <= Cardinality(Held(Peer(e)))
    BY <1>1, <2>1, FS_Subset
  <2>3. Cardinality(Held(Peer(e))') \in Nat
    BY <2>2, FS_CardinalityType
  <2> QED BY <1>1, <2>1, <2>2, <2>3, CapAssumption DEF CapHolds
<1> QED BY <1>2, <1>3 DEF CapHolds

(* Displacing takes one of the attachments the end keeps. *)
LEMMA DisplacesHeld ==
  ASSUME NEW e \in End, NEW d PROVE Displaceable(e, d) \subseteq Held(e)
  BY DEF Displaceable, Failed, Held

-----------------------------------------------------------------------------
(* What the end of a step does to the types: it keeps them, and the direction *)
(* of every attachment that is still known.                                   *)
LEMMA JudgeTypes ==
  ASSUME NEW d \in [Slot -> {"up", "down", "bidi"}], Judge(d)
  PROVE  /\ sus' \in [End -> BOOLEAN]
         /\ dir' \in [Slot -> {"up", "down", "bidi"}]
         /\ \A s \in Slot : st'["J"][s] = "joining" => dir'[s] = d[s]
<1>1. sus' \in [End -> BOOLEAN]
  BY DEF Judge, Complete
<1>2. dir' \in [Slot -> {"up", "down", "bidi"}]
  BY DEF Judge
<1>3. \A s \in Slot : st'["J"][s] = "joining" => dir'[s] = d[s]
  BY DEF Judge
<1> QED BY <1>1, <1>2, <1>3

(* A step that starts no join keeps the types if what it changes has them. *)
LEMMA KeepsTypes ==
  ASSUME TypeOK, Judge(dir), over' \in BOOLEAN, faults' \in 0..MaxFaults,
         net' \in [Slot -> {"ok", "silent", "cut"}],
         st' \in [End -> [Slot -> {"none", "joining", "live", "failed"}]],
         \A t \in Slot : st'["A"][t] # "joining",
         \A t \in Slot : st'["J"][t] = "joining" => st["J"][t] = "joining"
  PROVE  TypeOK'
<1>1. dir \in [Slot -> {"up", "down", "bidi"}]
  BY DEF TypeOK
<1>2. /\ sus' \in [End -> BOOLEAN]
      /\ dir' \in [Slot -> {"up", "down", "bidi"}]
      /\ \A s \in Slot : st'["J"][s] = "joining" => dir'[s] = dir[s]
  BY <1>1, JudgeTypes
<1>3. \A s \in Slot : st["J"][s] = "joining" => dir[s] \in Dirs
  BY DEF TypeOK
<1>4. \A s \in Slot : st'["J"][s] = "joining" => dir'[s] \in Dirs
  BY <1>2, <1>3
<1> QED BY <1>2, <1>4 DEF TypeOK

LEMMA InitIInv == Init => IInv
<1> SUFFICES ASSUME Init PROVE IInv
  OBVIOUS
<1>1. TypeOK
  <2>1. faults \in 0..MaxFaults
    BY FaultAssumption DEF Init
  <2>2. /\ dir \in [Slot -> {"up", "down", "bidi"}]
        /\ net \in [Slot -> {"ok", "silent", "cut"}]
        /\ sus \in [End -> BOOLEAN] /\ over \in BOOLEAN
    BY DEF Init
  <2>3. st \in [End -> [Slot -> {"none", "joining", "live", "failed"}]]
    BY DEF Init
  <2>4. \A s \in Slot : st["A"][s] # "joining" /\ st["J"][s] # "joining"
    BY DEF Init
  <2> QED BY <2>1, <2>2, <2>3, <2>4 DEF TypeOK
<1>2. \A e \in End : Held(e) = {Boot}
  BY BootAssumption DEF Init, Held
<1>3. CapHolds
  <2>1. Cardinality({Boot}) = 1
    BY FS_Singleton
  <2> QED BY <1>2, <2>1, CapAssumption DEF CapHolds
<1> QED BY <1>1, <1>3 DEF IInv

LEMMA StepIInv == IInv /\ [Next]_vars => IInv'
<1> SUFFICES ASSUME IInv, [Next]_vars PROVE IInv'
  OBVIOUS
<1> USE DEF IInv
<1>1. ASSUME NEW d \in Dirs, Join(d) PROVE IInv'
  <2> DEFINE s == CHOOSE s \in Free : TRUE
  <2>1. s \in Free /\ s \in Slot /\ \A e \in End : st[e][s] = "none"
    BY <1>1 DEF Join, Free
  <2> HIDE DEF s
  <2>2. PICK out \in SUBSET Slot :
          /\ Take(s, d, out)
          /\ \/ out = {} /\ ~Full("J")
             \/ \E t \in Held("J") : out = {t}
    BY <1>1, <2>1, DisplacesHeld DEF Join, s, Held
  <2>3. TypeOK'
    <3>1. /\ [dir EXCEPT ![s] = d] \in [Slot -> {"up", "down", "bidi"}]
          /\ Judge([dir EXCEPT ![s] = d])
      BY <2>1, <2>2, DirsAssumption DEF TypeOK, Take
    <3>2. st' \in [End -> [Slot -> {"none", "joining", "live", "failed"}]]
      BY <2>1, <2>2 DEF TypeOK, Take
    <3>3. net' \in [Slot -> {"ok", "silent", "cut"}]
      BY <2>1, <2>2 DEF TypeOK, Take, Cut
    <3>4. /\ \A t \in Slot : st'["A"][t] = st["A"][t]
          /\ \A t \in Slot : st'["J"][t] = "joining" => t = s \/ st["J"][t] = "joining"
      BY <2>1, <2>2 DEF TypeOK, Take
    <3>5. ASSUME NEW t \in Slot, st'["J"][t] = "joining" PROVE dir'[t] \in Dirs
      <4>1. dir'[t] = [dir EXCEPT ![s] = d][t]
        BY <3>1, <3>5, JudgeTypes
      <4>2. CASE t = s
        BY <2>1, <4>1, <4>2 DEF TypeOK
      <4>3. CASE t # s
        BY <2>1, <3>4, <3>5, <4>1, <4>3 DEF TypeOK
      <4> QED BY <4>2, <4>3
    <3>6. over' = over /\ faults' = faults
      BY <2>2 DEF Take
    <3> QED BY <3>1, <3>2, <3>3, <3>4, <3>5, <3>6, JudgeTypes DEF TypeOK
  <2>4. Held("A")' \subseteq Held("A")
    BY <2>2 DEF Take, TypeOK, Held
  <2>5. Held("J")' \subseteq (Held("J") \ out) \cup {s}
    BY <2>2 DEF Take, TypeOK, Held
  <2>6. CapHolds'
    BY <2>1, <2>2, <2>4, <2>5, MadeRoom
  <2> QED BY <2>3, <2>6
<1>2. ASSUME NEW s \in Slot, Arrive(s) PROVE IInv'
  <2>1. TypeOK'
    <3>1. Judge(dir) /\ over' \in BOOLEAN /\ faults' \in 0..MaxFaults
      BY <1>2 DEF TypeOK, Arrive
    <3>2. /\ st' \in [End -> [Slot -> {"none", "joining", "live", "failed"}]]
          /\ net' \in [Slot -> {"ok", "silent", "cut"}]
          /\ \A t \in Slot : st'["A"][t] # "joining" /\ st'["J"][t] = st["J"][t]
      <4>1. ASSUME NEW out \in SUBSET Slot, Attach(s, out) PROVE <3>2!:
        BY <4>1 DEF TypeOK, Attach, Cut
      <4>2. ASSUME net' = [net EXCEPT ![s] = "cut"], st' = st PROVE <3>2!:
        BY <4>2 DEF TypeOK
      <4>3. \/ \E out \in SUBSET Slot : Attach(s, out)
            \/ net' = [net EXCEPT ![s] = "cut"] /\ st' = st
        BY <1>2, DisplacesHeld DEF Arrive, Held
      <4> QED BY <4>1, <4>2, <4>3
    <3> QED BY <3>1, <3>2, KeepsTypes
  <2>2. CASE st' = st
    BY <2>1, <2>2, NothingNew DEF Held
  <2>3. ASSUME NEW out \in SUBSET Slot, Attach(s, out),
               \/ out = {} /\ ~Full("A")
               \/ \E t \in Held("A") : out = {t}
        PROVE  IInv'
    <3>1. Held("J")' \subseteq Held("J")
      BY <2>3 DEF Attach, TypeOK, Held
    <3>2. Held("A")' \subseteq (Held("A") \ out) \cup {s}
      BY <2>3 DEF Attach, TypeOK, Held
    <3>3. CapHolds'
      BY <2>3, <3>1, <3>2, MadeRoom
    <3> QED BY <2>1, <3>3
  <2>4. \/ st' = st
        \/ \E out \in SUBSET Slot :
             /\ Attach(s, out)
             /\ \/ out = {} /\ ~Full("A")
                \/ \E t \in Held("A") : out = {t}
    BY <1>2, DisplacesHeld DEF Arrive, Held
  <2> QED BY <2>2, <2>3, <2>4
<1>3. ASSUME NEW s \in Slot, Confirm(s) PROVE IInv'
  <2>1. TypeOK'
    BY <1>3 DEF TypeOK, Confirm, Judge, Complete
  <2>2. \A e \in End : Held(e)' \subseteq Held(e)
    BY <1>3 DEF TypeOK, Confirm, Held
  <2> QED BY <2>1, <2>2, NothingNew
<1>4. ASSUME NEW e \in End, NEW s \in Slot, NEW n \in {0, 1}, Fail(e, s, n), st[e][s] \in InUse,
             faults + n <= MaxFaults
      PROVE  IInv'
  <2>1. TypeOK'
    <3>1. Judge(dir) /\ over' \in BOOLEAN
      BY <1>4 DEF TypeOK, Fail
    <3>2. faults' \in 0..MaxFaults
      BY <1>4, FaultAssumption DEF TypeOK, Fail
    <3>3. net' \in [Slot -> {"ok", "silent", "cut"}]
      BY <1>4 DEF TypeOK, Fail, Cut
    <3>4. /\ st' \in [End -> [Slot -> {"none", "joining", "live", "failed"}]]
          /\ \A t \in Slot : st'["A"][t] # "joining"
          /\ \A t \in Slot : st'["J"][t] = "joining" => st["J"][t] = "joining"
      BY <1>4 DEF TypeOK, Fail
    <3> QED BY <3>1, <3>2, <3>3, <3>4, KeepsTypes
  <2>2. \A f \in End : Held(f)' \subseteq Held(f)
    BY <1>4 DEF TypeOK, Fail, Held
  <2> QED BY <2>1, <2>2, NothingNew
<1>5. ASSUME NEW e \in End, NEW s \in Slot,
             CarrierError(e, s) \/ Stalled(e, s) \/ Silent(e, s) \/ Abandoned(e, s)
      PROVE  IInv'
  <2>1. Fail(e, s, 0) /\ st[e][s] \in InUse
    BY <1>5 DEF CarrierError, Stalled, Silent, Abandoned
  <2>2. faults + 0 <= MaxFaults
    BY FaultAssumption DEF TypeOK
  <2> QED BY <1>4, <2>1, <2>2
<1>6. ASSUME NEW s \in Slot, JoinTimeout(s) PROVE IInv'
  <2>1. Fail("J", s, 0) /\ st["J"][s] \in InUse
    BY <1>6 DEF JoinTimeout
  <2>2. faults + 0 <= MaxFaults
    BY FaultAssumption DEF TypeOK
  <2> QED BY <1>4, <2>1, <2>2
<1>7. ASSUME NEW e \in End, NEW s \in Slot, Pause(e, s) PROVE IInv'
  <2>1. Fail(e, s, 1) /\ st[e][s] \in InUse /\ faults + 1 <= MaxFaults
    BY <1>7, FaultAssumption DEF Pause, TypeOK
  <2> QED BY <1>4, <2>1
<1>8. ASSUME NEW e \in End, NEW s \in Slot, Retire(e, s) PROVE IInv'
  <2>1. TypeOK'
    BY <1>8 DEF TypeOK, Retire, Judge, Complete
  <2>2. \A f \in End : Held(f)' \subseteq Held(f)
    BY <1>8 DEF TypeOK, Retire, Held
  <2> QED BY <2>1, <2>2, NothingNew
<1>9. ASSUME NEW s \in Slot, NEW how \in {"silent", "cut"}, Fault(s, how) PROVE IInv'
  <2>1. TypeOK'
    BY <1>9, FaultAssumption DEF TypeOK, Fault
  <2>2. \A f \in End : Held(f)' \subseteq Held(f)
    BY <1>9 DEF Fault, Held
  <2> QED BY <2>1, <2>2, NothingNew
<1>10. ASSUME NEW s \in Slot, Remove(s) PROVE IInv'
  <2>1. TypeOK'
    <3>1. Judge(dir) /\ over' \in BOOLEAN
      BY <1>10 DEF TypeOK, Remove
    <3>2. faults' \in 0..MaxFaults
      BY <1>10, FaultAssumption DEF TypeOK, Remove
    <3>3. net' \in [Slot -> {"ok", "silent", "cut"}]
      BY <1>10 DEF TypeOK, Remove
    <3>4. /\ st' \in [End -> [Slot -> {"none", "joining", "live", "failed"}]]
          /\ \A t \in Slot : st'["A"][t] # "joining"
          /\ \A t \in Slot : st'["J"][t] = "joining" => st["J"][t] = "joining"
      BY <1>10 DEF TypeOK, Remove
    <3> QED BY <3>1, <3>2, <3>3, <3>4, KeepsTypes
  <2>2. \A f \in End : Held(f)' \subseteq Held(f)
    BY <1>10 DEF TypeOK, Remove, Held
  <2> QED BY <2>1, <2>2, NothingNew
<1>11. ASSUME NEW e \in End, Expire(e) PROVE IInv'
  <2>1. TypeOK'
    BY <1>11 DEF TypeOK, Expire
  <2>2. \A f \in End : Held(f)' \subseteq Held(f)
    BY <1>11 DEF Expire, Held
  <2> QED BY <2>1, <2>2, NothingNew
<1>12. CASE UNCHANGED vars
  <2>1. TypeOK'
    BY <1>12 DEF vars, TypeOK
  <2>2. \A f \in End : Held(f)' \subseteq Held(f)
    BY <1>12 DEF vars, Held
  <2> QED BY <2>1, <2>2, NothingNew
<1> QED
  BY <1>1, <1>2, <1>3, <1>5, <1>6, <1>7, <1>8, <1>9, <1>10, <1>11, <1>12 DEF Next

-----------------------------------------------------------------------------
(* Every state of every behaviour is of the type the module gives it; the    *)
(* acceptor never waits for the confirmation of an attachment.                *)
THEOREM TypeCorrect == Spec => []TypeOK
<1>1. IInv => TypeOK
  BY DEF IInv
<1> QED BY <1>1, InitIInv, StepIInv, PTL DEF Spec

(* However many joins are made and cut off, neither end ever keeps more      *)
(* attachments than the cap (MULTIPATH.md 5.4 step 9).                        *)
THEOREM CapKept == Spec => []CapHolds
<1>1. IInv => CapHolds
  BY DEF IInv
<1> QED BY <1>1, InitIInv, StepIInv, PTL DEF Spec

-----------------------------------------------------------------------------
(* What A keeps and does not displace it has in the same direction as before. *)
LEMMA StaysAsItWas ==
  ASSUME TypeOK, Judge(dir), NEW s \in Slot, NEW out, Attach(s, out), NEW u \in Slot \ out,
         st["A"][u] = "live"
  PROVE  st'["A"][u] = "live" /\ dir'[u] = dir[u]
<1>1. st'["A"][u] = "live"
  BY DEF TypeOK, Attach
<1>2. dir'[u] = dir[u]
  BY <1>1 DEF Judge
<1> QED BY <1>1, <1>2

(* Nobody has to be displaced, or what is displaced has failed already. *)
LEMMA NoneLiveDisplaced ==
  ASSUME TypeOK, Judge(dir), NEW s \in Slot, NEW out, Attach(s, out),
         \A t \in out : st["A"][t] # "live"
  PROVE  KeepsDirections
<1>1. \A u \in Slot : st["A"][u] = "live" => st'["A"][u] = "live" /\ dir'[u] = dir[u]
  BY StaysAsItWas
<1>2. HasOut("A", {"live"}) => HasOut("A", {"live"})'
  BY <1>1 DEF HasOut
<1>3. HasIn("A", {"live"}) => HasIn("A", {"live"})'
  BY <1>1 DEF HasIn
<1> QED BY <1>2, <1>3 DEF KeepsDirections

(* A live attachment is displaced: none has failed, so what A keeps is live   *)
(* and serves the direction A has; with a cap of two or more one is left.      *)
LEMMA LiveDisplaced ==
  ASSUME TypeOK, Judge(dir), NEW s \in Slot, NEW t \in Slot, Attach(s, {t}),
         Full("A"), Failed("A") = {}, Provides("A", dir[s])
  PROVE  KeepsDirections
<1>1. PICK u \in Held("A") : u # t
  <2>1. SUFFICES ASSUME Held("A") \subseteq {t} PROVE FALSE
    OBVIOUS
  <2>2. IsFiniteSet({t}) /\ Cardinality({t}) = 1
    BY FS_Singleton
  <2>3. IsFiniteSet(Held("A")) /\ Cardinality(Held("A")) <= 1
    BY <2>1, <2>2, FS_Subset
  <2>4. Cardinality(Held("A")) \in Nat
    BY <2>3, FS_CardinalityType
  <2> QED BY <2>3, <2>4, CapAssumption DEF Full
<1>2. u \in Slot /\ st["A"][u] = "live"
  BY <1>1 DEF Held, Failed, TypeOK
<1>3. st'["A"][u] = "live" /\ dir'[u] = dir[u]
  BY <1>1, <1>2, StaysAsItWas
<1>4. dir[u] \in {"up", "down", "bidi"}
  BY <1>2 DEF TypeOK
<1>5. CASE ~HasOut("A", {"live"})
  <2>1. ~GivesOut("A", dir[u])
    BY <1>2, <1>5 DEF HasOut
  <2>2. GivesIn("A", dir[u])
    BY <2>1, <1>4 DEF GivesOut, GivesIn
  <2>3. HasIn("A", {"live"})'
    BY <2>2, <1>2, <1>3 DEF HasIn
  <2> QED BY <1>5, <2>3 DEF KeepsDirections
<1>6. CASE ~HasIn("A", {"live"})
  <2>1. ~GivesIn("A", dir[u])
    BY <1>2, <1>6 DEF HasIn
  <2>2. GivesOut("A", dir[u])
    BY <2>1, <1>4 DEF GivesOut, GivesIn
  <2>3. HasOut("A", {"live"})'
    BY <2>2, <1>2, <1>3 DEF HasOut
  <2> QED BY <1>6, <2>3 DEF KeepsDirections
<1> QED BY <1>5, <1>6 DEF Provides

LEMMA StepKeepsDirections == IInv /\ [Next]_vars => [KeepsDirections]_vars
<1> SUFFICES ASSUME IInv, [Next]_vars PROVE KeepsDirections
  OBVIOUS
<1>1. TypeOK
  BY DEF IInv
<1>2. ASSUME NEW s \in Slot, Arrive(s) PROVE KeepsDirections
  <2>1. Judge(dir)
    BY <1>2 DEF Arrive
  <2>2. CASE Attach(s, {})
    BY <1>1, <2>1, <2>2, NoneLiveDisplaced
  <2>3. ASSUME NEW t \in Displaceable("A", dir[s]), Full("A"), Attach(s, {t})
        PROVE  KeepsDirections
    <3>1. CASE t \in Failed("A")
      BY <1>1, <2>1, <2>3, <3>1, NoneLiveDisplaced DEF Failed
    <3>2. CASE t \notin Failed("A")
      <4>1. t \in Slot /\ Failed("A") = {} /\ Provides("A", dir[s])
        BY <2>3, <3>2 DEF Displaceable
      <4> QED BY <1>1, <2>1, <2>3, <4>1, LiveDisplaced
    <3> QED BY <3>1, <3>2
  <2>4. CASE st' = st
    BY <2>4 DEF KeepsDirections
  <2> QED BY <1>2, <2>2, <2>3, <2>4 DEF Arrive
<1>3. ASSUME \A s \in Slot : st["A"][s] = "none" => st'["A"][s] = "none" PROVE KeepsDirections
  BY <1>3 DEF KeepsDirections
<1>4. ASSUME NEW d \in Dirs, Join(d) PROVE KeepsDirections
  <2>1. PICK s, out : Take(s, d, out)
    BY <1>4 DEF Join
  <2> QED BY <1>1, <1>3, <2>1 DEF Take, TypeOK
<1>5. ASSUME NEW e \in End, NEW s \in Slot, NEW n, Fail(e, s, n), st[e][s] \in InUse
      PROVE  KeepsDirections
  BY <1>1, <1>3, <1>5 DEF Fail, TypeOK
<1>6. ASSUME NEW e \in End, NEW s \in Slot,
             CarrierError(e, s) \/ Stalled(e, s) \/ Silent(e, s) \/ Pause(e, s) \/ Abandoned(e, s)
      PROVE  KeepsDirections
  BY <1>5, <1>6 DEF CarrierError, Stalled, Silent, Pause, Abandoned
<1>7. ASSUME NEW s \in Slot, Confirm(s) PROVE KeepsDirections
  BY <1>1, <1>3, <1>7 DEF Confirm, TypeOK
<1>8. ASSUME NEW s \in Slot, JoinTimeout(s) PROVE KeepsDirections
  BY <1>5, <1>8 DEF JoinTimeout
<1>9. ASSUME NEW s \in Slot, Remove(s) PROVE KeepsDirections
  BY <1>1, <1>3, <1>9 DEF Remove, TypeOK
<1>10. ASSUME NEW e \in End, NEW s \in Slot, Retire(e, s) PROVE KeepsDirections
  BY <1>1, <1>3, <1>10 DEF Retire, TypeOK
<1>11. ASSUME NEW s \in Slot, NEW how \in {"silent", "cut"}, Fault(s, how) PROVE KeepsDirections
  BY <1>3, <1>11 DEF Fault
<1>12. ASSUME NEW e \in End, Expire(e) PROVE KeepsDirections
  BY <1>3, <1>12 DEF Expire
<1>13. CASE UNCHANGED vars
  BY <1>3, <1>13 DEF vars
<1> QED
  BY <1>2, <1>4, <1>6, <1>7, <1>8, <1>9, <1>10, <1>11, <1>12, <1>13 DEF Next

(* Accepting a join never takes the last pipe of a direction from the          *)
(* acceptor: why a cap of two is enough (MULTIPATH.md 5.4 step 9).             *)
THEOREM JoinsCostNoDirection == Spec => JoinCostsNoDirection
<1> QED BY InitIInv, StepIInv, StepKeepsDirections, PTL DEF Spec, JoinCostsNoDirection
=============================================================================
