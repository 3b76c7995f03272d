---------------------------- MODULE CreditProofs ----------------------------
(***************************************************************************)
(* Theorems about Credit, for any number of streams, any windows and any    *)
(* cap.  Sums of offsets are numbers of bytes, so the accounting is that of *)
(* finite sets of bytes: what was sent, what was seen, what was accounted.  *)
(***************************************************************************)
EXTENDS Credit, FiniteSetTheorems, TLAPS

\* Every limit is behind the credit it stands for, and nobody sends past one.
Limited ==
  /\ \A s \in Stream : off[s] <= msd[s] /\ msd[s] <= slim[s]
  /\ Spent <= md /\ md <= lim /\ lim <= Grant

\* What the receiver knows of a stream is what the sender did with it.
Agrees == \A s \in Stream :
  /\ off[s] = 0 \/ off[s] >= Preamble
  /\ rcvd[s] \subseteq 1..off[s]
  /\ rels[s] \subseteq 1..off[s]
  /\ fsz[s] # None => fsz[s] = off[s] /\ sst[s] # "open"
  /\ rels[s] # {} => sst[s] = "reset"
  /\ rel[s] \in rels[s] \/ rel[s] = None
  /\ rel[s] # None => fsz[s] # None

\* The preamble arrives as a whole, and nothing is consumed before it.
Parsed == \A s \in Stream : 1 \notin rcvd[s] => /\ \A j \in rcvd[s] : j > Preamble
                                                /\ cons[s] = 0

\* What was released and is not read fits the cap.
Capped == Cardinality(Buffered \ held) <= Cap

IInv == TypeOK /\ Limited /\ Agrees /\ Parsed /\ ReleasedOnce /\ Capped

-----------------------------------------------------------------------------
(* Finite sets of bytes.                                                   *)

LEMMA BytesFinite == IsFiniteSet(Byte)
<1>1. 1 \in Int /\ Size \in Int
  BY SizeAssumption
<1>2. IsFiniteSet(1..Size)
  BY <1>1, FS_Interval
<1> QED BY <1>2, StreamAssumption, FS_Product DEF Byte

LEMMA Count == ASSUME NEW S \in SUBSET Byte
               PROVE  IsFiniteSet(S) /\ Cardinality(S) \in Nat
  BY BytesFinite, FS_Subset, FS_CardinalityType

LEMMA Fewer == ASSUME NEW S \in SUBSET Byte, NEW T \in SUBSET S
               PROVE  Cardinality(T) <= Cardinality(S)
  BY Count, FS_Subset

LEMMA Joined == ASSUME NEW S \in SUBSET Byte, NEW T \in SUBSET Byte
                PROVE  Cardinality(S \union T) <= Cardinality(S) + Cardinality(T)
<1>1. /\ IsFiniteSet(S) /\ IsFiniteSet(T)
      /\ Cardinality(S) \in Nat /\ Cardinality(T) \in Nat /\ Cardinality(S \intersect T) \in Nat
  BY Count
<1>2. Cardinality(S \union T) = Cardinality(S) + Cardinality(T) - Cardinality(S \intersect T)
  BY <1>1, FS_Union
<1> QED BY <1>1, <1>2

LEMMA Disjoint == ASSUME NEW S \in SUBSET Byte, NEW T \in SUBSET Byte, S \intersect T = {}
                  PROVE  Cardinality(S \union T) = Cardinality(S) + Cardinality(T)
<1>1. IsFiniteSet(S) /\ IsFiniteSet(T) /\ Cardinality(S) \in Nat /\ Cardinality(T) \in Nat
  BY Count
<1>2. Cardinality(S \union T) = Cardinality(S) + Cardinality(T) - Cardinality(S \intersect T)
  BY <1>1, FS_Union
<1>3. Cardinality(S \intersect T) = 0
  BY FS_EmptySet
<1> QED BY <1>1, <1>2, <1>3

\* A run of bytes of one stream.
LEMMA Block == ASSUME NEW s \in Stream, NEW a \in 1..Size, NEW b \in 1..Size, a <= b
               PROVE  /\ {s} \X (a..b) \in SUBSET Byte
                      /\ Cardinality({s} \X (a..b)) = b - a + 1
<1>1. a..b \subseteq 1..Size
  BY SizeAssumption
<1>2. IsFiniteSet({s}) /\ Cardinality({s}) = 1
  BY FS_Singleton
<1>3. IsFiniteSet(a..b) /\ Cardinality(a..b) = b - a + 1
  <2>1. a \in Int /\ b \in Int /\ ~(a > b)
    BY SizeAssumption
  <2>2. IsFiniteSet(a..b) /\ Cardinality(a..b) = IF a > b THEN 0 ELSE b - a + 1
    BY <2>1, FS_Interval
  <2> QED BY <2>1, <2>2
<1>4. Cardinality({s} \X (a..b)) = Cardinality({s}) * Cardinality(a..b)
  BY <1>2, <1>3, FS_Product
<1>5. b - a + 1 \in Int /\ 1 * (b - a + 1) = b - a + 1
  BY SizeAssumption
<1>6. {s} \X (a..b) \in SUBSET Byte
  BY <1>1 DEF Byte
<1> QED BY <1>2, <1>3, <1>4, <1>5, <1>6

\* A byte, taken apart.
LEMMA Parts == \A b \in Byte : /\ b = <<b[1], b[2]>> /\ b[1] \in Stream /\ b[2] \in 1..Size
  BY DEF Byte
LEMMA Whole == \A s \in Stream, j \in 1..Size :
                 <<s, j>> \in Byte /\ <<s, j>>[1] = s /\ <<s, j>>[2] = j
  BY DEF Byte

-----------------------------------------------------------------------------
(* The initial state.                                                      *)

LEMMA Facts ==
  ASSUME TypeOK, NEW s \in Stream
  PROVE  /\ off[s] \in Nat /\ off[s] <= Size
         /\ cons[s] \in Nat /\ cons[s] <= Size
         /\ fsz[s] \in Nat /\ rel[s] \in Nat
         /\ msd[s] \in Nat /\ slim[s] \in Nat
         /\ rcvd[s] \subseteq 1..Size /\ rels[s] \subseteq Preamble..Size
         /\ sst[s] \in {"open", "fin", "reset"} /\ stop[s] \in BOOLEAN
         /\ Preamble \in Nat /\ Preamble >= 1 /\ Preamble <= Size /\ Size \in Nat
         /\ None = Size + 1
  BY SizeAssumption DEF TypeOK, None

LEMMA InitHolds == Init => IInv
<1> SUFFICES ASSUME Init PROVE IInv
  OBVIOUS
<1>1. TypeOK
  BY SizeAssumption, WindowAssumption DEF Init, TypeOK, None
<1>2. Sent = {} /\ Buffered = {} /\ Accounted = {}
  <2>1. \A b \in Byte : off[b[1]] = 0 /\ rcvd[b[1]] = {} /\ fsz[b[1]] = None
    BY Parts DEF Init
  <2>2. \A b \in Byte : ~(b[2] <= 0)
    BY Parts
  <2> QED BY <2>1, <2>2 DEF Sent, Buffered, Accounted
<1>3. Cardinality({}) = 0
  BY FS_EmptySet
<1>4. Limited
  <2>1. \A s \in Stream : off[s] <= msd[s] /\ msd[s] <= slim[s]
    BY WindowAssumption DEF Init
  <2>2. Spent <= md /\ md <= lim /\ lim <= Grant
    BY <1>2, <1>3, WindowAssumption DEF Init, Spent, Grant
  <2> QED BY <2>1, <2>2 DEF Limited
<1>5. Agrees /\ Parsed
  BY DEF Init, Agrees, Parsed
<1>6. ReleasedOnce
  BY <1>2, <1>3 DEF Init, ReleasedOnce
<1>7. Capped
  BY <1>2, <1>3, WindowAssumption DEF Capped
<1> QED BY <1>1, <1>4, <1>5, <1>6, <1>7 DEF IInv

-----------------------------------------------------------------------------
(* The sender.                                                             *)

\* The receiver's books do not move.
LEMMA SenderKeeps ==
  ASSUME IInv, UNCHANGED rvars, TypeOK', Limited', Agrees'
  PROVE  IInv'
<1>1. Accounted' = Accounted /\ Buffered' = Buffered
  BY DEF rvars, bytes, Accounted, Buffered
<1>2. Parsed'
  BY DEF IInv, Parsed, rvars, bytes
<1>3. ReleasedOnce' /\ Capped'
  BY <1>1 DEF IInv, ReleasedOnce, Capped, rvars
<1> QED BY <1>2, <1>3 DEF IInv

LEMMA LimitsStay ==
  ASSUME TypeOK, Limited, NEW n \in Nat, credit' = credit + n,
         UNCHANGED <<off, md, msd, lim, slim>>
  PROVE  Limited'
<1>1. Spent' = Spent
  BY DEF Spent, Sent
<1>2. lim' <= Grant'
  BY WindowAssumption DEF Limited, Grant, TypeOK
<1>3. \A s \in Stream : off'[s] <= msd'[s] /\ msd'[s] <= slim'[s]
  BY DEF Limited
<1>4. Spent' <= md' /\ md' <= lim'
  BY <1>1 DEF Limited
<1> QED BY <1>2, <1>3, <1>4 DEF Limited

LEMMA CreditStays == ASSUME TypeOK, UNCHANGED credit PROVE 0 \in Nat /\ credit' = credit + 0
  BY DEF TypeOK

\* Nothing is sent and no stream is ended or reset: both ends still agree.
LEMMA AgreementStays ==
  ASSUME Agrees, UNCHANGED <<off, sst, rels, rcvd, fsz, rel>>
  PROVE  Agrees'
  BY DEF Agrees

\* A unit is charged to both limits, whole.
LEMMA Charged ==
  ASSUME TypeOK, Agrees, NEW s \in Stream, Send(s)
  PROVE  /\ off'[s] \in 1..Size /\ off'[s] = off[s] + Unit(s)
         /\ Unit(s) \in Nat /\ Unit(s) >= 1
         /\ off'[s] <= msd[s] /\ off'[s] >= Preamble
         /\ \A t \in Stream : t # s => off'[t] = off[t]
         /\ off' \in [Stream -> 0..Size]
         /\ Spent' = Spent + Unit(s)
<1>1. /\ off[s] \in Nat /\ off[s] <= Size /\ Preamble \in Nat /\ Preamble >= 1
      /\ Preamble <= Size /\ Size \in Nat /\ msd[s] \in Nat
  BY Facts
<1>2. /\ off' = [off EXCEPT ![s] = @ + Unit(s)]
      /\ off[s] < Size /\ off[s] + Unit(s) <= msd[s]
  BY DEF Send, HasData
<1>3. off \in [Stream -> 0..Size]
  BY DEF TypeOK
<1>4. Unit(s) \in Nat /\ Unit(s) >= 1 /\ off[s] + Unit(s) \in 1..Size /\ off[s] + Unit(s) >= Preamble
  BY <1>1, <1>2 DEF Unit, Agrees
<1>5. /\ off'[s] = off[s] + Unit(s) /\ \A t \in Stream : t # s => off'[t] = off[t]
      /\ off' \in [Stream -> 0..Size]
  BY <1>2, <1>3, <1>4
<1>6. Spent' = Spent + Unit(s)
  <2> DEFINE new == {s} \X ((off[s] + 1)..(off[s] + Unit(s)))
  <2>1. off[s] + 1 \in 1..Size /\ off[s] + 1 <= off[s] + Unit(s)
    BY <1>1, <1>2, <1>4
  <2>2. new \in SUBSET Byte /\ Cardinality(new) = Unit(s)
    <3>1. new \in SUBSET Byte /\ Cardinality(new) = (off[s] + Unit(s)) - (off[s] + 1) + 1
      BY <1>4, <2>1, Block
    <3> QED BY <1>1, <1>4, <3>1
  <2>3. Sent \in SUBSET Byte /\ Sent \intersect new = {}
    BY <1>1, <1>4, Parts DEF Sent
  <2>4. Sent' = Sent \union new
    <3>1. ASSUME NEW b \in Byte
          PROVE  b[2] <= off'[b[1]] <=> b[2] <= off[b[1]] \/ b \in new
      <4>1. b = <<b[1], b[2]>> /\ b[1] \in Stream /\ b[2] \in 1..Size
        BY <3>1, Parts
      <4>2. CASE b[1] = s
        BY <1>1, <1>4, <1>5, <4>1, <4>2
      <4>3. CASE b[1] # s
        BY <1>5, <4>1, <4>3
      <4> QED BY <4>2, <4>3
    <3> HIDE DEF new
    <3> QED BY <2>2, <3>1 DEF Sent
  <2>5. Cardinality(Sent \union new) = Cardinality(Sent) + Cardinality(new)
    <3> HIDE DEF new
    <3> QED BY <2>2, <2>3, Disjoint
  <2> QED BY <2>2, <2>4, <2>5 DEF Spent
<1> QED BY <1>1, <1>2, <1>4, <1>5, <1>6

LEMMA SendKeeps == ASSUME IInv, NEW s \in Stream, Send(s) PROVE IInv'
<1>1. /\ UNCHANGED <<sst, rels, md, msd, blk, rvars>>
      /\ sst[s] = "open" /\ Spent + Unit(s) <= md
  BY DEF Send, HasData
<1>2. TypeOK /\ Agrees /\ Limited
  BY DEF IInv
<1>3. /\ off'[s] \in 1..Size /\ off'[s] = off[s] + Unit(s) /\ Unit(s) \in Nat /\ Unit(s) >= 1
      /\ off'[s] <= msd[s] /\ off'[s] >= Preamble
      /\ \A t \in Stream : t # s => off'[t] = off[t]
      /\ off' \in [Stream -> 0..Size] /\ Spent' = Spent + Unit(s)
  BY <1>2, Charged
<1>4. TypeOK'
  BY <1>1, <1>2, <1>3 DEF TypeOK, rvars, bytes
<1>5. Limited'
  <2>1. \A t \in Stream : off'[t] <= msd'[t] /\ msd'[t] <= slim'[t]
    BY <1>1, <1>2, <1>3 DEF Limited, rvars
  <2>2. Spent' <= md' /\ md' <= lim' /\ lim' <= Grant'
    BY <1>1, <1>2, <1>3 DEF Limited, rvars, Grant
  <2> QED BY <2>1, <2>2 DEF Limited
<1>6. Agrees'
  <2>1. off[s] \in Nat
    BY <1>2, Facts
  <2>2. \A t \in Stream : t # s => off'[t] = off[t]
    BY <1>3
  <2>3. /\ off'[s] >= Preamble /\ off'[s] \in Nat /\ off[s] <= off'[s]
    BY <1>3, <2>1
  <2>4. rels[s] = {} /\ fsz[s] = None /\ rcvd[s] \subseteq 1..off'[s]
    BY <1>1, <1>2, <2>1, <2>3 DEF Agrees
  <2> QED BY <1>1, <1>2, <2>2, <2>3, <2>4 DEF Agrees, rvars, bytes
<1> QED BY <1>1, <1>4, <1>5, <1>6, SenderKeeps

LEMMA DataBlockedKeeps == ASSUME IInv, DataBlocked PROVE IInv'
<1>1. blk' = md /\ UNCHANGED <<off, sst, rels, md, msd, rvars>>
  BY DEF DataBlocked
<1>2. TypeOK'
  BY <1>1 DEF IInv, TypeOK, rvars, bytes
<1>3. Limited'
  BY <1>1, CreditStays, LimitsStay DEF IInv, rvars
<1>4. Agrees'
  BY <1>1, AgreementStays DEF IInv, rvars, bytes
<1> QED BY <1>1, <1>2, <1>3, <1>4, SenderKeeps

LEMMA FinishKeeps == ASSUME IInv, NEW s \in Stream, Finish(s) PROVE IInv'
<1>1. /\ sst[s] = "open" /\ sst' = [sst EXCEPT ![s] = "fin"]
      /\ UNCHANGED <<off, rels, md, msd, blk, rvars>>
  BY DEF Finish
<1>2. TypeOK'
  BY <1>1 DEF IInv, TypeOK, rvars, bytes
<1>3. Limited'
  BY <1>1, CreditStays, LimitsStay DEF IInv, rvars
<1>4. Agrees'
  <2>1. sst'[s] = "fin" /\ \A t \in Stream : t # s => sst'[t] = sst[t]
    BY <1>1 DEF IInv, TypeOK
  <2> QED BY <1>1, <2>1 DEF IInv, Agrees, rvars, bytes
<1> QED BY <1>1, <1>2, <1>3, <1>4, SenderKeeps

LEMMA ResetKeeps == ASSUME IInv, NEW s \in Stream, NEW r, Reset(s, r) PROVE IInv'
<1>1. /\ off[s] > 0 /\ r \in Preamble..off[s]
      /\ sst' = [sst EXCEPT ![s] = "reset"] /\ rels' = [rels EXCEPT ![s] = @ \union {r}]
      /\ UNCHANGED <<off, md, msd, blk, rvars>>
  BY DEF Reset
<1>2. TypeOK /\ Agrees
  BY DEF IInv
<1>3. r \in Preamble..Size /\ r \in 1..off[s]
  BY <1>1, <1>2, Facts
<1>4. /\ sst'[s] = "reset" /\ rels'[s] = rels[s] \union {r}
      /\ \A t \in Stream : t # s => sst'[t] = sst[t] /\ rels'[t] = rels[t]
      /\ sst' \in [Stream -> {"open", "fin", "reset"}]
      /\ rels' \in [Stream -> SUBSET (Preamble..Size)]
  BY <1>1, <1>2, <1>3 DEF TypeOK
<1>5. TypeOK'
  BY <1>1, <1>2, <1>4 DEF TypeOK, rvars, bytes
<1>6. Limited'
  BY <1>1, CreditStays, LimitsStay DEF IInv, rvars
<1>7. Agrees'
  BY <1>1, <1>2, <1>3, <1>4 DEF Agrees, rvars, bytes
<1> QED BY <1>1, <1>5, <1>6, <1>7, SenderKeeps

LEMMA RecvMaxDataKeeps == ASSUME IInv, RecvMaxData PROVE IInv'
<1>1. lim > md /\ md' = lim /\ UNCHANGED <<off, sst, rels, msd, blk, rvars>>
  BY DEF RecvMaxData
<1>2. TypeOK'
  BY <1>1 DEF IInv, TypeOK, rvars, bytes
<1>3. Spent' = Spent /\ Spent \in Nat
  BY <1>1, Count DEF Spent, Sent
<1>4. Limited'
  BY <1>1, <1>3 DEF IInv, TypeOK, Limited, Grant, rvars
<1>5. Agrees'
  BY <1>1, AgreementStays DEF IInv, rvars, bytes
<1> QED BY <1>1, <1>2, <1>4, <1>5, SenderKeeps

LEMMA RecvMaxStreamDataKeeps ==
  ASSUME IInv, NEW s \in Stream, RecvMaxStreamData(s)
  PROVE  IInv'
<1>1. /\ slim[s] > msd[s] /\ msd' = [msd EXCEPT ![s] = slim[s]]
      /\ UNCHANGED <<off, sst, rels, md, blk, rvars>>
  BY DEF RecvMaxStreamData
<1>2. TypeOK
  BY DEF IInv
<1>3. /\ msd' \in [Stream -> Nat] /\ msd'[s] = slim[s]
      /\ \A t \in Stream : t # s => msd'[t] = msd[t]
  BY <1>1, <1>2 DEF TypeOK
<1>4. TypeOK'
  BY <1>1, <1>2, <1>3 DEF TypeOK, rvars, bytes
<1>5. Limited'
  <2>1. Spent' = Spent
    BY <1>1 DEF Spent, Sent
  <2>2. \A t \in Stream : off'[t] <= msd'[t] /\ msd'[t] <= slim'[t]
    <3>1. off[s] \in Nat /\ msd[s] \in Nat /\ slim[s] \in Nat
      BY <1>2, Facts
    <3> QED BY <1>1, <1>3, <3>1 DEF IInv, Limited, rvars
  <2>3. Spent' <= md' /\ md' <= lim' /\ lim' <= Grant'
    BY <1>1, <2>1 DEF IInv, Limited, Grant, rvars
  <2> QED BY <2>2, <2>3 DEF Limited
<1>6. Agrees'
  BY <1>1, AgreementStays DEF IInv, rvars, bytes
<1> QED BY <1>1, <1>4, <1>5, <1>6, SenderKeeps

-----------------------------------------------------------------------------
(* The receiver.                                                           *)

\* What stays held was held or is fresh; everything else is released.
LEMMA Released ==
  ASSUME TypeOK, NEW fresh \in SUBSET Byte, NEW dead \in SUBSET Byte, Release(fresh, dead)
  PROVE  /\ held' \in SUBSET Byte
         /\ \E n \in Nat : credit' = credit + n
         /\ credit' + Cardinality(held') = credit + Cardinality(held) + Cardinality(fresh \union dead)
<1> DEFINE a == Cardinality(fresh \union dead)
           h == Cardinality(held)
<1>1. PICK kept \in SUBSET (held \union fresh) :
        held' = kept /\ credit' = (credit + a + h) - Cardinality(kept)
  BY DEF Release
<1>2. held \in SUBSET Byte /\ credit \in Nat
  BY DEF TypeOK
<1>3. a \in Nat /\ h \in Nat /\ Cardinality(kept) \in Nat /\ kept \in SUBSET Byte
  BY <1>2, Count
<1>4. Cardinality(kept) <= h + a
  <2>1. Cardinality(kept) <= Cardinality(held \union (fresh \union dead))
    BY <1>2, Fewer
  <2>2. Cardinality(held \union (fresh \union dead)) <= h + a
    BY <1>2, Joined
  <2>3. Cardinality(held \union (fresh \union dead)) \in Nat
    BY <1>2, Count
  <2> HIDE DEF a, h
  <2> QED BY <1>3, <2>1, <2>2, <2>3
<1> HIDE DEF a, h
<1>5. (a + h) - Cardinality(kept) \in Nat /\ credit' = credit + ((a + h) - Cardinality(kept))
  BY <1>1, <1>2, <1>3, <1>4
<1>6. credit' + Cardinality(kept) = credit + h + a
  BY <1>1, <1>2, <1>3
<1> QED BY <1>1, <1>3, <1>5, <1>6 DEF a, h

\* At the cap everything fresh is held; below it, one byte more reaches it at most.
LEMMA CapKept ==
  ASSUME TypeOK, Capped, NEW fresh \in SUBSET Byte, NEW dead \in SUBSET Byte,
         Release(fresh, dead), NEW buf \in SUBSET Byte, Buffered' = buf,
         buf \subseteq Buffered \union fresh,
         Cardinality(buf) <= Cardinality(Buffered) + 1
  PROVE  Capped'
<1>1. /\ Buffered \in SUBSET Byte /\ Cardinality(Buffered) \in Nat
      /\ Cardinality(buf) \in Nat /\ Cap \in Nat
  BY Count, WindowAssumption DEF Buffered
<1>2. PICK kept \in SUBSET Byte :
        /\ held' = kept
        /\ kept = IF Cardinality(buf) < Cap THEN {}
                  ELSE (held \union IF Cardinality(Buffered) >= Cap THEN fresh ELSE {}) \intersect buf
  BY DEF Release
<1>3. Cardinality(buf \ kept) <= Cap
  <2>1. Cardinality(buf \ kept) <= Cardinality(buf) /\ Cardinality(buf \ kept) \in Nat
    BY Fewer, Count
  <2>2. CASE Cardinality(buf) < Cap \/ ~(Cardinality(Buffered) >= Cap)
    BY <1>1, <2>1, <2>2
  <2>3. CASE ~(Cardinality(buf) < Cap) /\ Cardinality(Buffered) >= Cap
    <3>1. buf \ kept \subseteq Buffered \ held
      BY <1>2, <2>3
    <3>2. Cardinality(buf \ kept) <= Cardinality(Buffered \ held)
      BY <1>1, <3>1, Fewer
    <3>3. Cardinality(Buffered \ held) \in Nat /\ Cardinality(Buffered \ held) <= Cap
      BY <1>1, Count DEF Capped
    <3> QED BY <1>1, <2>1, <3>2, <3>3
  <2> QED BY <2>2, <2>3
<1> QED BY <1>2, <1>3 DEF Capped

\* A step of the receiver that accounts for fresh and dead bytes and no others.
LEMMA ReceiverKeeps ==
  ASSUME IInv, UNCHANGED <<svars, lim, slim, bkd>>,
         NEW fresh \in SUBSET Byte, NEW dead \in SUBSET Byte, Release(fresh, dead),
         (fresh \union dead) \intersect Accounted = {},
         Accounted' = Accounted \union (fresh \union dead),
         NEW buf \in SUBSET Byte, Buffered' = buf, buf \subseteq Buffered \union fresh,
         Cardinality(buf) <= Cardinality(Buffered) + 1,
         rcvd' \in [Stream -> SUBSET (1..Size)], cons' \in [Stream -> 0..Size],
         fsz' \in [Stream -> 0..None], rel' \in [Stream -> 0..None],
         stop' \in [Stream -> BOOLEAN], Agrees', Parsed'
  PROVE  IInv'
<1>1. TypeOK
  BY DEF IInv
<1>2. /\ held' \in SUBSET Byte
      /\ credit' + Cardinality(held') = credit + Cardinality(held) + Cardinality(fresh \union dead)
  BY <1>1, Released
<1>3. PICK n \in Nat : credit' = credit + n
  BY <1>1, Released
<1>4. TypeOK'
  <2>1. credit' \in Nat
    BY <1>1, <1>3 DEF TypeOK
  <2> QED BY <1>1, <1>2, <2>1 DEF TypeOK, svars
<1>5. Limited'
  BY <1>1, <1>3, LimitsStay DEF IInv, svars
<1>6. ReleasedOnce'
  <2>1. Accounted \in SUBSET Byte
    BY DEF Accounted
  <2>2. Cardinality(Accounted') = Cardinality(Accounted) + Cardinality(fresh \union dead)
    BY <2>1, Disjoint
  <2>3. credit + Cardinality(held) = Cardinality(Accounted)
    BY DEF IInv, ReleasedOnce
  <2> QED BY <1>2, <2>2, <2>3 DEF ReleasedOnce
<1>7. Capped'
  BY <1>1, CapKept DEF IInv
<1> QED BY <1>4, <1>5, <1>6, <1>7 DEF IInv

\* A step that leaves the bytes and their credit alone.
LEMMA LimitKeeps ==
  ASSUME IInv, UNCHANGED <<off, sst, rels, md, msd, bytes, held, credit>>, TypeOK', Limited'
  PROVE  IInv'
<1>1. Accounted' = Accounted /\ Buffered' = Buffered
  BY DEF bytes, Accounted, Buffered
<1>2. Parsed' /\ Agrees'
  BY AgreementStays DEF IInv, Parsed, bytes
<1>3. ReleasedOnce' /\ Capped'
  BY <1>1 DEF IInv, ReleasedOnce, Capped
<1> QED BY <1>2, <1>3 DEF IInv

LEMMA SendMaxDataKeeps == ASSUME IInv, SendMaxData PROVE IInv'
<1>1. /\ Grant > lim /\ lim' = Grant /\ UNCHANGED <<svars, bytes, held, credit, slim, bkd>>
  BY DEF SendMaxData
<1>2. TypeOK /\ credit \in Nat /\ SessionWindow \in Nat /\ lim \in Nat /\ md \in Nat
  BY WindowAssumption DEF IInv, TypeOK
<1>3. Grant \in Nat
  BY <1>2 DEF Grant
<1>4. TypeOK'
  BY <1>1, <1>2, <1>3 DEF TypeOK, svars, bytes
<1>5. Limited'
  <2>1. Spent' = Spent /\ Grant' = Grant /\ md' = md
    BY <1>1 DEF Spent, Sent, Grant, svars
  <2>2. Spent <= md /\ md <= lim /\ \A s \in Stream : off[s] <= msd[s] /\ msd[s] <= slim[s]
    BY DEF IInv, Limited
  <2>3. md <= Grant /\ Grant <= Grant
    BY <1>1, <1>2, <1>3, <2>2
  <2> QED BY <1>1, <2>1, <2>2, <2>3 DEF Limited, svars
<1> QED BY <1>1, <1>4, <1>5, LimitKeeps DEF svars

LEMMA SendMaxStreamDataKeeps ==
  ASSUME IInv, NEW s \in Stream, SendMaxStreamData(s)
  PROVE  IInv'
<1>1. /\ StreamGrant(s) > slim[s] /\ slim' = [slim EXCEPT ![s] = StreamGrant(s)]
      /\ UNCHANGED <<svars, bytes, held, credit, lim, bkd>>
  BY DEF SendMaxStreamData
<1>2. TypeOK
  BY DEF IInv
<1>3. cons[s] \in Nat /\ slim[s] \in Nat /\ msd[s] \in Nat /\ StreamGrant(s) \in Nat
  BY <1>2, Facts, WindowAssumption DEF StreamGrant
<1>4. /\ slim' \in [Stream -> Nat] /\ slim'[s] = StreamGrant(s)
      /\ \A t \in Stream : t # s => slim'[t] = slim[t]
  BY <1>1, <1>2, <1>3 DEF TypeOK
<1>5. TypeOK'
  BY <1>1, <1>2, <1>4 DEF TypeOK, svars, bytes
<1>6. Limited'
  <2>1. Spent' = Spent /\ Grant' = Grant
    BY <1>1 DEF Spent, Sent, Grant, svars
  <2>2. \A t \in Stream : off[t] <= msd[t] /\ msd[t] <= slim[t]
    BY DEF IInv, Limited
  <2>3. \A t \in Stream : off'[t] <= msd'[t] /\ msd'[t] <= slim'[t]
    BY <1>1, <1>3, <1>4, <2>2 DEF svars
  <2> QED BY <1>1, <2>1, <2>3 DEF IInv, Limited, svars
<1> QED BY <1>1, <1>5, <1>6, LimitKeeps DEF svars

LEMMA RecvDataBlockedKeeps == ASSUME IInv, RecvDataBlocked PROVE IInv'
<1>1. bkd' = blk /\ UNCHANGED <<svars, bytes, held, credit, lim, slim>>
  BY DEF RecvDataBlocked
<1>2. TypeOK'
  BY <1>1 DEF IInv, TypeOK, svars, bytes
<1>3. Limited'
  BY <1>1, CreditStays, LimitsStay DEF IInv, svars
<1> QED BY <1>1, <1>2, <1>3, LimitKeeps DEF svars

LEMMA RecvFinKeeps == ASSUME IInv, NEW s \in Stream, RecvFin(s) PROVE IInv'
<1>1. /\ sst[s] = "fin" /\ fsz[s] = None /\ fsz' = [fsz EXCEPT ![s] = off[s]]
      /\ UNCHANGED <<svars, rcvd, cons, rel, stop, held, credit, lim, slim, bkd>>
  BY DEF RecvFin
<1>2. TypeOK /\ Agrees
  BY DEF IInv
<1>3. off[s] \in 0..None
  BY <1>2, Facts
<1>4. /\ fsz' \in [Stream -> 0..None] /\ fsz'[s] = off[s]
      /\ \A t \in Stream : t # s => fsz'[t] = fsz[t]
  BY <1>1, <1>2, <1>3 DEF TypeOK
<1>5. TypeOK'
  BY <1>1, <1>2, <1>4 DEF TypeOK, svars
<1>6. Limited'
  BY <1>1, CreditStays, LimitsStay DEF IInv, svars
<1>7. Agrees'
  BY <1>1, <1>2, <1>4 DEF Agrees, svars
<1>8. Parsed'
  BY <1>1 DEF IInv, Parsed
<1>9. rel[s] = Size + 1
  BY <1>1, <1>2, Facts DEF Agrees
<1>10. Accounted' = Accounted
  <2>1. ASSUME NEW b \in Byte
        PROVE  /\ rcvd'[b[1]] = rcvd[b[1]]
               /\ (fsz'[b[1]] # None /\ b[2] > rel'[b[1]] /\ b[2] <= fsz'[b[1]])
                    <=> (fsz[b[1]] # None /\ b[2] > rel[b[1]] /\ b[2] <= fsz[b[1]])
    <3>1. b[1] \in Stream /\ b[2] \in 1..Size
      BY Parts
    <3>2. CASE b[1] = s
      <4>1. ~(b[2] > rel[s])
        BY <1>9, <3>1, SizeAssumption
      <4>2. ~(b[2] > rel[b[1]]) /\ ~(b[2] > rel'[b[1]])
        BY <1>1, <3>2, <4>1
      <4> QED BY <1>1, <4>2
    <3>3. CASE b[1] # s
      BY <1>1, <1>4, <3>1, <3>3
    <3> QED BY <3>2, <3>3
  <2> QED BY <2>1 DEF Accounted
<1>11. Buffered' = Buffered
  BY <1>1 DEF Buffered
<1>12. ReleasedOnce' /\ Capped'
  BY <1>1, <1>10, <1>11 DEF IInv, ReleasedOnce, Capped
<1> QED BY <1>5, <1>6, <1>7, <1>8, <1>12 DEF IInv

\* Reading and stopping only take bytes out of the buffer.
LEMMA UnbufferKeeps ==
  ASSUME IInv, UNCHANGED <<svars, rcvd, fsz, rel, lim, slim, bkd>>, Release({}, {}),
         NEW buf \in SUBSET Buffered, Buffered' = buf,
         cons' \in [Stream -> 0..Size], stop' \in [Stream -> BOOLEAN], Parsed'
  PROVE  IInv'
<1>1. Buffered \in SUBSET Byte /\ buf \in SUBSET Byte
  BY DEF Buffered
<1>2. Cardinality(buf) <= Cardinality(Buffered) + 1
  BY <1>1, Fewer, Count
<1>3. Accounted' = Accounted \union ({} \union {})
  BY DEF Accounted
<1>4. /\ rcvd' \in [Stream -> SUBSET (1..Size)]
      /\ fsz' \in [Stream -> 0..None] /\ rel' \in [Stream -> 0..None]
  BY DEF IInv, TypeOK
<1>5. Agrees'
  BY AgreementStays DEF IInv, svars
<1> DEFINE none == {}
<1>6. none \in SUBSET Byte /\ (none \union none) \intersect Accounted = {} /\ Release(none, none)
  OBVIOUS
<1>7. buf \subseteq Buffered \union none /\ Accounted' = Accounted \union (none \union none)
  BY <1>3
<1> HIDE DEF none
<1> QED BY <1>1, <1>2, <1>4, <1>5, <1>6, <1>7, ReceiverKeeps

LEMMA ReadKeeps == ASSUME IInv, NEW s \in Stream, Read(s) PROVE IInv'
<1>1. /\ cons[s] >= Preamble /\ <<s, cons[s] + 1>> \in Buffered
      /\ cons' = [cons EXCEPT ![s] = @ + 1]
      /\ UNCHANGED <<svars, rcvd, fsz, rel, stop, lim, slim, bkd>> /\ Release({}, {})
  BY DEF Read
<1>2. TypeOK
  BY DEF IInv
<1>3. cons[s] \in Nat /\ cons[s] + 1 \in 1..Size
  BY <1>1, <1>2, Facts DEF Buffered, Byte
<1>4. /\ cons' \in [Stream -> 0..Size] /\ cons'[s] = cons[s] + 1
      /\ \A t \in Stream : t # s => cons'[t] = cons[t]
  BY <1>1, <1>2, <1>3 DEF TypeOK
<1>5. PICK buf \in SUBSET Buffered : Buffered' = buf
  <2>1. \A b \in Byte : b[2] > cons'[b[1]] => b[2] > cons[b[1]]
    <3>1. ASSUME NEW b \in Byte, b[2] > cons'[b[1]] PROVE b[2] > cons[b[1]]
      <4>1. b[1] \in Stream /\ b[2] \in Nat
        BY Parts
      <4>2. CASE b[1] = s
        BY <1>3, <1>4, <3>1, <4>1, <4>2
      <4>3. CASE b[1] # s
        BY <1>4, <3>1, <4>1, <4>3
      <4> QED BY <4>2, <4>3
    <3> QED BY <3>1
  <2>2. Buffered' \subseteq Buffered
    BY <1>1, <2>1 DEF Buffered
  <2> QED BY <2>2
<1>6. Parsed'
  <2>1. 1 \in rcvd[s]
    <3>1. cons[s] # 0
      BY <1>1, <1>2, Facts
    <3> QED BY <3>1 DEF IInv, Parsed
  <2> QED BY <1>1, <1>4, <2>1 DEF IInv, Parsed
<1>7. stop' \in [Stream -> BOOLEAN]
  BY <1>1, <1>2 DEF TypeOK
<1> QED BY <1>1, <1>4, <1>5, <1>6, <1>7, UnbufferKeeps

LEMMA StopKeeps == ASSUME IInv, NEW s \in Stream, Stop(s) PROVE IInv'
<1>1. /\ stop' = [stop EXCEPT ![s] = TRUE]
      /\ UNCHANGED <<svars, rcvd, cons, fsz, rel, lim, slim, bkd>> /\ Release({}, {})
  BY DEF Stop
<1>2. /\ stop' \in [Stream -> BOOLEAN] /\ cons' \in [Stream -> 0..Size]
      /\ stop'[s] /\ \A t \in Stream : t # s => stop'[t] = stop[t]
  BY <1>1 DEF IInv, TypeOK
<1>3. PICK buf \in SUBSET Buffered : Buffered' = buf
  <2>1. \A b \in Byte : ~stop'[b[1]] => ~stop[b[1]]
    BY <1>2, Parts
  <2>2. Buffered' \subseteq Buffered
    BY <1>1, <2>1 DEF Buffered
  <2> QED BY <2>2
<1>4. Parsed'
  BY <1>1 DEF IInv, Parsed
<1> QED BY <1>1, <1>2, <1>3, <1>4, UnbufferKeeps

\* A byte that arrives is fresh unless a reset has accounted for it already, and no
\* more than one arrives that must be buffered.
LEMMA ReceiveKeeps == ASSUME IInv, NEW s \in Stream, NEW i \in 1..Size, Receive(s, i) PROVE IInv'
<1> DEFINE fresh == {s} \X {j \in Frame(i) : j <= rel[s]}
           none  == {}
<1>1. /\ (i = 1 /\ off[s] > 0) \/ i \in (Preamble + 1)..off[s]
      /\ i \notin rcvd[s]
      /\ rcvd' = [rcvd EXCEPT ![s] = @ \union Frame(i)]
      /\ cons' = [cons EXCEPT ![s] = IF i = 1 THEN Preamble ELSE @]
      /\ UNCHANGED <<svars, fsz, rel, stop, lim, slim, bkd>>
      /\ Release(fresh, none)
  BY DEF Receive
<1>2. TypeOK /\ Agrees /\ Parsed
  BY DEF IInv
<1>3. /\ off[s] \in Nat /\ off[s] <= Size /\ rel[s] \in Nat /\ fsz[s] \in Nat
      /\ Preamble \in Nat /\ Preamble >= 1 /\ Preamble <= Size /\ Size \in Nat
      /\ None = Size + 1 /\ cons[s] \in Nat /\ cons[s] <= Size
  BY <1>2, Facts
<1>4. Frame(i) \subseteq 1..off[s] /\ Frame(i) \intersect rcvd[s] = {} /\ i \in Frame(i)
  <2>1. CASE i = 1
    <3>1. off[s] >= Preamble /\ \A j \in rcvd[s] : j > Preamble
      BY <1>1, <1>2, <1>3, <2>1 DEF Agrees, Parsed
    <3> QED BY <1>3, <2>1, <3>1 DEF Frame
  <2>2. CASE i # 1
    BY <1>1, <1>3, <2>2 DEF Frame
  <2> QED BY <2>1, <2>2
<1>5. /\ rcvd' \in [Stream -> SUBSET (1..Size)] /\ rcvd'[s] = rcvd[s] \union Frame(i)
      /\ \A t \in Stream : t # s => rcvd'[t] = rcvd[t]
  BY <1>1, <1>2, <1>3, <1>4 DEF TypeOK
<1>6. /\ cons' \in [Stream -> 0..Size]
      /\ cons'[s] = (IF i = 1 THEN Preamble ELSE cons[s])
      /\ \A t \in Stream : t # s => cons'[t] = cons[t]
  BY <1>1, <1>2, <1>3 DEF TypeOK
<1>7. /\ fsz' \in [Stream -> 0..None] /\ rel' \in [Stream -> 0..None]
      /\ stop' \in [Stream -> BOOLEAN]
  BY <1>1, <1>2 DEF TypeOK
<1>8. fresh \in SUBSET Byte
  BY <1>3, <1>4 DEF Byte
<1>9. \A b \in Byte : b \in fresh <=> b[1] = s /\ b[2] \in Frame(i) /\ b[2] <= rel[s]
  <2>1. ASSUME NEW b \in Byte PROVE b \in fresh <=> b[1] = s /\ b[2] \in Frame(i) /\ b[2] <= rel[s]
    BY Parts
  <2> QED BY <2>1
<1> HIDE DEF fresh
<1>10. Agrees'
  <2>1. rcvd'[s] \subseteq 1..off[s]
    BY <1>2, <1>4, <1>5 DEF Agrees
  <2> QED BY <1>1, <1>2, <1>5, <2>1 DEF Agrees, svars
<1>11. Parsed'
  <2>1. ASSUME 1 \notin rcvd'[s] PROVE (\A j \in rcvd'[s] : j > Preamble) /\ cons'[s] = 0
    <3>1. i # 1 /\ 1 \notin rcvd[s]
      BY <1>4, <1>5, <2>1
    <3>2. Frame(i) = {i} /\ i > Preamble
      BY <1>1, <1>3, <3>1 DEF Frame
    <3> QED BY <1>2, <1>5, <1>6, <3>1, <3>2 DEF Parsed
  <2> QED BY <1>2, <1>5, <1>6, <2>1 DEF Parsed
<1>12. (fresh \union none) \intersect Accounted = {}
  <2>1. ASSUME NEW b \in fresh PROVE b \notin Accounted
    <3>1. b \in Byte /\ b[1] = s /\ b[2] \in Frame(i) /\ b[2] <= rel[s] /\ b[2] \in Nat
      BY <1>8, <1>9, <2>1, Parts
    <3>2. b[2] \notin rcvd[s] /\ ~(b[2] > rel[s])
      BY <1>3, <1>4, <3>1
    <3> QED BY <3>1, <3>2 DEF Accounted
  <2> QED BY <2>1
<1>13. Accounted' = Accounted \union (fresh \union none)
  <2>1. ASSUME NEW b \in Byte PROVE b \in Accounted' <=> b \in Accounted \/ b \in fresh
    <3>1. b[1] \in Stream /\ b[2] \in 1..Size /\ b[2] \in Nat
      BY Parts
    <3>2. CASE b[1] # s
      BY <1>1, <1>5, <1>9, <3>1, <3>2 DEF Accounted
    <3>3. CASE b[1] = s
      <4>1. b \in Accounted' <=> \/ b[2] \in rcvd[s] \/ b[2] \in Frame(i)
                                 \/ fsz[s] # None /\ b[2] > rel[s] /\ b[2] <= fsz[s]
        BY <1>1, <1>5, <3>3 DEF Accounted
      <4>2. b \in Accounted <=> \/ b[2] \in rcvd[s]
                                \/ fsz[s] # None /\ b[2] > rel[s] /\ b[2] <= fsz[s]
        BY <3>3 DEF Accounted
      <4>3. b \in fresh <=> b[2] \in Frame(i) /\ b[2] <= rel[s]
        BY <1>9, <3>3
      <4>4. b[2] \in Frame(i) /\ b[2] > rel[s] => fsz[s] # None /\ b[2] <= fsz[s]
        <5>1. SUFFICES ASSUME b[2] \in Frame(i), b[2] > rel[s] PROVE fsz[s] # None /\ b[2] <= fsz[s]
          OBVIOUS
        <5>2. rel[s] # None
          BY <1>3, <3>1, <5>1
        <5>3. fsz[s] # None /\ fsz[s] = off[s]
          BY <1>2, <5>2 DEF Agrees
        <5> QED BY <1>3, <1>4, <5>1, <5>3
      <4>5. b[2] > rel[s] \/ b[2] <= rel[s]
        BY <1>3, <3>1
      <4> QED BY <4>1, <4>2, <4>3, <4>4, <4>5
    <3> QED BY <3>2, <3>3
  <2>2. Accounted' \subseteq Byte /\ Accounted \subseteq Byte
    BY DEF Accounted
  <2> QED BY <1>8, <2>1, <2>2
<1>14. PICK buf \in SUBSET Byte : /\ Buffered' = buf /\ buf \subseteq Buffered \union {<<s, i>>}
                                  /\ <<s, i>> \in buf => <<s, i>> \in fresh
  <2>1. Buffered' \in SUBSET Byte
    BY DEF Buffered
  <2>2. ASSUME NEW b \in Buffered' PROVE b \in Buffered \/ b = <<s, i>>
    <3>1. b \in Byte /\ b = <<b[1], b[2]>> /\ b[1] \in Stream /\ b[2] \in 1..Size /\ b[2] \in Nat
      BY <2>1, Parts
    <3>2. /\ b[2] \in rcvd'[b[1]] /\ b[2] > cons'[b[1]] /\ b[2] <= rel[b[1]] /\ ~stop[b[1]]
      BY <1>1, <2>2 DEF Buffered
    <3>3. CASE b[1] # s
      BY <1>5, <1>6, <3>1, <3>2, <3>3 DEF Buffered
    <3>4. CASE b[1] = s /\ i = 1
      <4>1. b[2] > Preamble /\ cons[s] = 0
        BY <1>1, <1>2, <1>6, <3>2, <3>4 DEF Parsed
      <4>2. b[2] \in rcvd[s]
        BY <1>3, <1>5, <3>1, <3>2, <3>4, <4>1 DEF Frame
      <4> QED BY <3>1, <3>2, <3>4, <4>1, <4>2 DEF Buffered
    <3>5. CASE b[1] = s /\ i # 1
      <4>1. b[2] \in rcvd[s] \/ b[2] = i
        BY <1>5, <3>2, <3>5 DEF Frame
      <4>2. cons'[s] = cons[s]
        BY <1>6, <3>5
      <4> QED BY <3>1, <3>2, <3>5, <4>1, <4>2 DEF Buffered
    <3> QED BY <3>3, <3>4, <3>5
  <2>3. <<s, i>> \in Buffered' => <<s, i>> \in fresh
    <3>1. <<s, i>> \in Byte /\ <<s, i>>[1] = s /\ <<s, i>>[2] = i
      BY Whole
    <3>2. <<s, i>> \in Buffered' => i <= rel[s]
      BY <1>1, <3>1 DEF Buffered
    <3> QED BY <1>4, <1>9, <3>1, <3>2
  <2> QED BY <2>1, <2>2, <2>3
<1>15. Cardinality(buf) <= Cardinality(Buffered) + 1
  <2>1. Buffered \in SUBSET Byte /\ IsFiniteSet(Buffered) /\ Cardinality(Buffered) \in Nat
    BY Count DEF Buffered
  <2>2. Buffered \union {<<s, i>>} \in SUBSET Byte
    BY <2>1, Whole
  <2>3. buf \in SUBSET (Buffered \union {<<s, i>>})
    BY <1>14
  <2>4. Cardinality(buf) <= Cardinality(Buffered \union {<<s, i>>})
    <3> DEFINE more == Buffered \union {<<s, i>>}
    <3>1. more \in SUBSET Byte /\ buf \in SUBSET more
      BY <2>2, <2>3
    <3> HIDE DEF more
    <3>2. Cardinality(buf) <= Cardinality(more)
      BY <3>1, Fewer
    <3> QED BY <3>2 DEF more
  <2>5. Cardinality(Buffered \union {<<s, i>>}) <= Cardinality(Buffered) + 1
    <3>1. Cardinality(Buffered \union {<<s, i>>}) =
            IF <<s, i>> \in Buffered THEN Cardinality(Buffered) ELSE Cardinality(Buffered) + 1
      BY <2>1, FS_AddElement
    <3> QED BY <2>1, <3>1
  <2>6. Cardinality(buf) \in Nat /\ Cardinality(Buffered \union {<<s, i>>}) \in Nat
    BY <2>2, Count
  <2> QED BY <2>1, <2>4, <2>5, <2>6
<1>16. none \in SUBSET Byte /\ buf \subseteq Buffered \union fresh
  BY <1>14
<1> HIDE DEF none
<1> QED BY <1>1, <1>5, <1>6, <1>7, <1>8, <1>10, <1>11, <1>12, <1>13, <1>14, <1>15, <1>16, ReceiverKeeps

\* A reset accounts for what it makes unnecessary.
LEMMA ResetReceived == ASSUME IInv, NEW s \in Stream, NEW r, RecvReset(s, r) PROVE IInv'
<1> DEFINE none == {}
           dead == {s} \X {j \in (r + 1)..off[s] : j \notin rcvd[s] /\ j <= rel[s]}
<1>1. /\ r \in rels[s] /\ r < rel[s]
      /\ fsz' = [fsz EXCEPT ![s] = off[s]] /\ rel' = [rel EXCEPT ![s] = r]
      /\ UNCHANGED <<svars, rcvd, cons, stop, lim, slim, bkd>>
      /\ Release(none, dead)
  BY DEF RecvReset
<1>2. TypeOK /\ Agrees /\ Parsed
  BY DEF IInv
<1>3. /\ off[s] \in Nat /\ off[s] <= Size /\ rel[s] \in Nat /\ fsz[s] \in Nat
      /\ Size \in Nat /\ None = Size + 1 /\ r \in 1..off[s] /\ r \in Nat
  BY <1>1, <1>2, Facts DEF Agrees
<1>4. /\ fsz' \in [Stream -> 0..None] /\ fsz'[s] = off[s]
      /\ \A t \in Stream : t # s => fsz'[t] = fsz[t]
  BY <1>1, <1>2, <1>3 DEF TypeOK
<1>5. /\ rel' \in [Stream -> 0..None] /\ rel'[s] = r
      /\ \A t \in Stream : t # s => rel'[t] = rel[t]
  BY <1>1, <1>2, <1>3 DEF TypeOK
<1>6. /\ rcvd' \in [Stream -> SUBSET (1..Size)] /\ cons' \in [Stream -> 0..Size]
      /\ stop' \in [Stream -> BOOLEAN]
  BY <1>1, <1>2 DEF TypeOK
<1>7. dead \in SUBSET Byte
  BY <1>3 DEF Byte
<1>8. \A b \in Byte : b \in dead <=> /\ b[1] = s /\ b[2] > r /\ b[2] <= off[s]
                                     /\ b[2] \notin rcvd[s] /\ b[2] <= rel[s]
  <2>1. ASSUME NEW b \in Byte
        PROVE  b \in dead <=> /\ b[1] = s /\ b[2] > r /\ b[2] <= off[s]
                              /\ b[2] \notin rcvd[s] /\ b[2] <= rel[s]
    BY <1>3, Parts
  <2> QED BY <2>1
<1> HIDE DEF dead
<1>9. Agrees'
  <2>1. sst[s] # "open" /\ r \in rels[s] /\ fsz'[s] # None
    BY <1>1, <1>2, <1>3, <1>4 DEF Agrees
  <2> QED BY <1>1, <1>2, <1>4, <1>5, <2>1 DEF Agrees, svars
<1>10. Parsed'
  BY <1>1, <1>2 DEF Parsed
<1>11. (none \union dead) \intersect Accounted = {}
  <2>1. ASSUME NEW b \in dead PROVE b \notin Accounted
    <3>1. b \in Byte /\ b[1] = s /\ b[2] \notin rcvd[s] /\ b[2] <= rel[s] /\ b[2] \in Nat
      BY <1>7, <1>8, <2>1, Parts
    <3>2. ~(b[2] > rel[s])
      BY <1>3, <3>1
    <3> QED BY <3>1, <3>2 DEF Accounted
  <2> QED BY <2>1
<1>12. Accounted' = Accounted \union (none \union dead)
  <2>1. ASSUME NEW b \in Byte PROVE b \in Accounted' <=> b \in Accounted \/ b \in dead
    <3>1. b[1] \in Stream /\ b[2] \in 1..Size /\ b[2] \in Nat
      BY Parts
    <3>2. CASE b[1] # s
      BY <1>1, <1>4, <1>5, <1>8, <3>1, <3>2 DEF Accounted
    <3>3. CASE b[1] = s
      <4>1. b \in Accounted' <=> b[2] \in rcvd[s] \/ (b[2] > r /\ b[2] <= off[s])
        BY <1>1, <1>3, <1>4, <1>5, <3>3 DEF Accounted
      <4>2. b \in Accounted <=> \/ b[2] \in rcvd[s]
                                \/ fsz[s] # None /\ b[2] > rel[s] /\ b[2] <= fsz[s]
        BY <3>3 DEF Accounted
      <4>3. b \in dead <=> b[2] > r /\ b[2] <= off[s] /\ b[2] \notin rcvd[s] /\ b[2] <= rel[s]
        BY <1>8, <3>3
      <4>4. fsz[s] # None => fsz[s] = off[s]
        BY <1>2 DEF Agrees
      <4>5. b[2] > rel[s] => fsz[s] # None /\ b[2] > r
        <5>1. SUFFICES ASSUME b[2] > rel[s] PROVE fsz[s] # None /\ b[2] > r
          OBVIOUS
        <5>2. rel[s] # None /\ b[2] > r
          BY <1>1, <1>3, <3>1, <5>1
        <5> QED BY <1>2, <5>2 DEF Agrees
      <4>6. b[2] > rel[s] \/ b[2] <= rel[s]
        BY <1>3, <3>1
      <4> QED BY <4>1, <4>2, <4>3, <4>4, <4>5, <4>6
    <3> QED BY <3>2, <3>3
  <2>2. Accounted' \subseteq Byte /\ Accounted \subseteq Byte
    BY DEF Accounted
  <2> QED BY <1>7, <2>1, <2>2
<1>13. PICK buf \in SUBSET Byte : Buffered' = buf /\ buf \subseteq Buffered
  <2>1. \A b \in Byte : b[2] <= rel'[b[1]] => b[2] <= rel[b[1]]
    <3>1. ASSUME NEW b \in Byte, b[2] <= rel'[b[1]] PROVE b[2] <= rel[b[1]]
      <4>1. b[1] \in Stream /\ b[2] \in Nat
        BY Parts
      <4>2. CASE b[1] = s
        BY <1>1, <1>3, <1>5, <3>1, <4>1, <4>2
      <4>3. CASE b[1] # s
        BY <1>5, <3>1, <4>1, <4>3
      <4> QED BY <4>2, <4>3
    <3> QED BY <3>1
  <2>2. Buffered' \subseteq Buffered /\ Buffered' \in SUBSET Byte
    BY <1>1, <2>1 DEF Buffered
  <2> QED BY <2>2
<1>14. Cardinality(buf) <= Cardinality(Buffered) + 1 /\ buf \subseteq Buffered \union none
  <2>1. Buffered \in SUBSET Byte
    BY DEF Buffered
  <2>2. /\ Cardinality(buf) <= Cardinality(Buffered)
        /\ Cardinality(buf) \in Nat /\ Cardinality(Buffered) \in Nat
    BY <1>13, <2>1, Fewer, Count
  <2>3. Cardinality(buf) <= Cardinality(Buffered) + 1
    BY <2>2
  <2> QED BY <1>13, <2>3
<1>15. none \in SUBSET Byte
  OBVIOUS
<1> HIDE DEF none
<1> QED BY <1>1, <1>4, <1>5, <1>6, <1>7, <1>9, <1>10, <1>11, <1>12, <1>13, <1>14, <1>15, ReceiverKeeps

-----------------------------------------------------------------------------
(* The theorems.                                                           *)

LEMMA NextKeeps == IInv /\ [Next]_vars => IInv'
<1> SUFFICES ASSUME IInv, [Next]_vars PROVE IInv'
  OBVIOUS
<1>1. ASSUME NEW s \in Stream, SenderStep(s) PROVE IInv'
  <2>1. CASE Send(s)
    BY <2>1, SendKeeps
  <2>2. CASE Finish(s)
    BY <2>2, FinishKeeps
  <2>3. CASE RecvStop(s)
    BY <2>3, ResetKeeps DEF RecvStop
  <2>4. CASE RecvMaxStreamData(s)
    BY <2>4, RecvMaxStreamDataKeeps
  <2>5. CASE \E r \in Preamble..Size : Reset(s, r)
    BY <2>5, ResetKeeps
  <2> QED BY <1>1, <2>1, <2>2, <2>3, <2>4, <2>5 DEF SenderStep
<1>2. ASSUME NEW s \in Stream, ReceiverStep(s) PROVE IInv'
  <2>1. CASE \E i \in 1..Size : Receive(s, i)
    BY <2>1, ReceiveKeeps
  <2>2. CASE RecvFin(s)
    BY <2>2, RecvFinKeeps
  <2>3. CASE Read(s)
    BY <2>3, ReadKeeps
  <2>4. CASE Stop(s)
    BY <2>4, StopKeeps
  <2>5. CASE \E r \in Preamble..Size : RecvReset(s, r)
    BY <2>5, ResetReceived
  <2>6. CASE SendMaxStreamData(s)
    BY <2>6, SendMaxStreamDataKeeps
  <2> QED BY <1>2, <2>1, <2>2, <2>3, <2>4, <2>5, <2>6 DEF ReceiverStep
<1>3. CASE DataBlocked
  BY <1>3, DataBlockedKeeps
<1>4. CASE RecvMaxData
  BY <1>4, RecvMaxDataKeeps
<1>5. CASE SendMaxData
  BY <1>5, SendMaxDataKeeps
<1>6. CASE RecvDataBlocked
  BY <1>6, RecvDataBlockedKeeps
<1>7. CASE UNCHANGED vars
  <2>1. TypeOK'
    BY <1>7 DEF IInv, TypeOK, vars, svars, rvars, bytes
  <2>2. Limited'
    BY <1>7, CreditStays, LimitsStay DEF IInv, vars, svars, rvars
  <2> QED BY <1>7, <2>1, <2>2, LimitKeeps DEF vars, svars, rvars
<1> QED BY <1>1, <1>2, <1>3, <1>4, <1>5, <1>6, <1>7 DEF Next, Over

LEMMA Inductive == Spec => []IInv
<1>1. Init => IInv
  BY InitHolds
<1>2. IInv /\ [Next]_vars => IInv'
  BY NextKeeps
<1> QED BY <1>1, <1>2, PTL DEF Spec

\* What the receiver has accounted for was sent, and what it has seen as well.
LEMMA Spending ==
  ASSUME IInv
  PROVE  /\ Accounted \in SUBSET Sent /\ Sent \in SUBSET Byte
         /\ {b \in Byte : b[2] \in Seen(b[1])} \in SUBSET Sent
         /\ \A s \in Stream : Seen(s) \subseteq 1..off[s]
<1>1. ASSUME NEW s \in Stream PROVE Seen(s) \subseteq 1..off[s]
  <2>1. off[s] \in Nat /\ rcvd[s] \subseteq 1..off[s] /\ (fsz[s] # None => fsz[s] = off[s])
    BY Facts DEF IInv, Agrees
  <2>2. ASSUME NEW j \in Seen(s) PROVE j \in 1..off[s]
    <3>1. j \in 1..Size
      BY DEF Seen
    <3>2. CASE \E i \in rcvd[s] : j <= i
      BY <2>1, <3>1, <3>2
    <3>3. CASE fsz[s] # None /\ j <= fsz[s]
      BY <2>1, <3>1, <3>3
    <3> QED BY <3>2, <3>3 DEF Seen
  <2> QED BY <2>2
<1>2. ASSUME NEW b \in Accounted PROVE b \in Sent
  <2>1. b \in Byte /\ b[1] \in Stream /\ b[2] \in Nat
    BY Parts DEF Accounted
  <2>2. /\ off[b[1]] \in Nat /\ rcvd[b[1]] \subseteq 1..off[b[1]]
        /\ fsz[b[1]] # None => fsz[b[1]] = off[b[1]]
    BY <2>1, Facts DEF IInv, Agrees
  <2> QED BY <2>1, <2>2 DEF Accounted, Sent
<1>3. ASSUME NEW b \in Byte, b[2] \in Seen(b[1]) PROVE b \in Sent
  <2>1. b[1] \in Stream /\ off[b[1]] \in Nat
    BY Parts, Facts DEF IInv
  <2>2. b[2] \in 1..off[b[1]]
    BY <1>1, <1>3, <2>1
  <2> QED BY <2>1, <2>2 DEF Sent
<1> QED BY <1>1, <1>2, <1>3 DEF Sent

\* Every state has the shape that TypeOK says.
THEOREM TypeCorrect == Spec => []TypeOK
  BY Inductive, PTL DEF IInv

\* Neither data nor a final size is ever beyond an advertised limit, whatever of it
\* has arrived and in whatever order: Send is charged against limits that are behind
\* those advertised, and the final size of a reset is what was sent.
THEOREM KeepsWithinLimits == Spec => []WithinLimits
<1>1. IInv => WithinLimits
  <2> SUFFICES ASSUME IInv PROVE WithinLimits
    OBVIOUS
  <2> DEFINE used == {b \in Byte : b[2] \in Seen(b[1])}
  <2>1. used \in SUBSET Sent /\ Sent \in SUBSET Byte
    BY Spending
  <2>2. /\ Cardinality(used) <= Cardinality(Sent)
        /\ Cardinality(used) \in Nat /\ Cardinality(Sent) \in Nat
    <3> HIDE DEF used
    <3> QED BY <2>1, Fewer, Count
  <2>3. Used = Cardinality(used) /\ Spent = Cardinality(Sent)
    BY DEF Used, Spent
  <2>4. md \in Nat /\ lim \in Nat /\ Spent <= md /\ md <= lim
    BY DEF IInv, TypeOK, Limited
  <2>5. Used <= lim
    <3> HIDE DEF used
    <3> QED BY <2>2, <2>3, <2>4
  <2>6. ASSUME NEW s \in Stream PROVE Highest(s) <= slim[s]
    <3>1. /\ off[s] \in Nat /\ msd[s] \in Nat /\ slim[s] \in Nat
          /\ off[s] <= msd[s] /\ msd[s] <= slim[s]
      BY Facts DEF IInv, Limited
    <3>2. IsFiniteSet(1..off[s]) /\ Cardinality(1..off[s]) = off[s]
      <4>1. 1 \in Int /\ off[s] \in Int
        BY <3>1
      <4>2. /\ IsFiniteSet(1..off[s])
            /\ Cardinality(1..off[s]) = IF 1 > off[s] THEN 0 ELSE off[s] - 1 + 1
        BY <4>1, FS_Interval
      <4> QED BY <3>1, <4>2
    <3>3. Seen(s) \in SUBSET (1..off[s])
      BY Spending
    <3>4. Cardinality(Seen(s)) <= off[s] /\ Cardinality(Seen(s)) \in Nat
      BY <3>2, <3>3, FS_Subset, FS_CardinalityType
    <3> QED BY <3>1, <3>4 DEF Highest
  <2> QED BY <2>5, <2>6 DEF WithinLimits
<1> QED BY <1>1, Inductive, PTL

\* Credit is released once for every byte that arrived or was given up by a reset,
\* however copies, resets and reads interleave.
THEOREM ReleasesOnce == Spec => []ReleasedOnce
  BY Inductive, PTL DEF IInv

\* Whatever the peer sends, the buffer is bounded: released but unread bytes by the
\* cap, and held ones by the session window, since they were sent within a limit that
\* is never further than one window above what was released.
THEOREM MemoryIsBounded == Spec => []MemoryBound
<1>1. IInv => MemoryBound
  <2> SUFFICES ASSUME IInv PROVE MemoryBound
    OBVIOUS
  <2>1. /\ held \in SUBSET Byte /\ Buffered \in SUBSET Byte /\ credit \in Nat
        /\ md \in Nat /\ lim \in Nat /\ SessionWindow \in Nat /\ Cap \in Nat
    BY WindowAssumption DEF IInv, TypeOK, Buffered
  <2>2. /\ Cardinality(held) \in Nat /\ Cardinality(Buffered) \in Nat
        /\ Cardinality(Buffered \ held) \in Nat
    BY <2>1, Count
  <2>3. Cardinality(held) <= SessionWindow
    <3>1. /\ Accounted \in SUBSET Sent /\ Sent \in SUBSET Byte
      BY Spending
    <3>2. Cardinality(Accounted) <= Spent /\ Spent \in Nat /\ Cardinality(Accounted) \in Nat
      BY <3>1, Fewer, Count DEF Spent
    <3>3. credit + Cardinality(held) = Cardinality(Accounted)
      BY DEF IInv, ReleasedOnce
    <3>4. Spent <= md /\ md <= lim /\ lim <= credit + SessionWindow
      BY DEF IInv, Limited, Grant
    <3> QED BY <2>1, <2>2, <3>2, <3>3, <3>4
  <2>4. Cardinality(Buffered \ held) <= Cap
    BY DEF IInv, Capped
  <2>5. Cardinality(Buffered) <= Cardinality(Buffered \ held) + Cardinality(held)
    <3>1. (Buffered \ held) \union held \in SUBSET Byte
      BY <2>1
    <3>2. /\ Cardinality(Buffered) <= Cardinality((Buffered \ held) \union held)
          /\ Cardinality((Buffered \ held) \union held) \in Nat
      BY <2>1, <3>1, Fewer, Count
    <3>3. Cardinality((Buffered \ held) \union held)
            <= Cardinality(Buffered \ held) + Cardinality(held)
      BY <2>1, Joined
    <3> QED BY <2>2, <3>2, <3>3
  <2> QED BY <2>1, <2>2, <2>3, <2>4, <2>5 DEF MemoryBound
<1> QED BY <1>1, Inductive, PTL
=============================================================================
