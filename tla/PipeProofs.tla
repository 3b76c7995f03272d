----------------------------- MODULE PipeProofs -----------------------------
(***************************************************************************)
(* Theorems about one pipe, for every value of the constants.               *)
(*                                                                         *)
(* Its bytes (RecordPipe and TpBlock): a parameter block decodes to what    *)
(* was encoded, the first-bytes check decides once, a reader fed piece by   *)
(* piece returns what one pass over all bytes returns, and records are      *)
(* returned as they were written.  The decoder's loops are recursive        *)
(* functions; what n rounds of a loop do is proved by induction on n, with   *)
(* the set of all n for which it is true in place of a predicate.  That     *)
(* such a function exists is proved for each of them.                       *)
(*                                                                         *)
(* Its ID (Attach): an ID is attached once, and no conforming end is taken  *)
(* for a faulty one.  That invariant says what A can still tell of an ID    *)
(* whose attachment it has forgotten.                                       *)
(***************************************************************************)
EXTENDS Attach, RecordPipe, TpBlock, SequenceTheorems, WellFoundedInduction, TLAPS

-----------------------------------------------------------------------------
(* Induction over numbers, with a set in place of a predicate.             *)

\* A set of numbers has a least one.
LEMMA Smallest ==
  ASSUME NEW S \in SUBSET Nat, S # {}
  PROVE  \E x \in S : \A y \in S : x <= y
<1> DEFINE R == {ss \in Nat \X Nat : ss[1] < ss[2]}
<1>1. IsWellFoundedOn(R, Nat)
  BY NatLessThanWellFounded DEF OpToRel
<1>2. \E x \in S : \A y \in S : ~(<<y, x>> \in R)
  <2> HIDE DEF R
  <2> QED
    BY <1>1, WFMin
<1>3. PICK x \in S : \A y \in S : ~(<<y, x>> \in R)
  BY <1>2
<1>4. ASSUME NEW y \in S PROVE x <= y
  <2>1. y < x => <<y, x>> \in R
    OBVIOUS
  <2>2. ~(y < x)
    BY <1>3, <2>1
  <2> QED
    BY <2>2
<1> QED
  BY <1>3, <1>4

\* A set with 0, and with the successor of each of its numbers, has every number.
LEMMA Induction ==
  ASSUME NEW S, 0 \in S, \A n \in Nat : n \in S => n + 1 \in S
  PROVE  \A n \in Nat : n \in S
<1>1. SUFFICES ASSUME Nat \ S # {} PROVE FALSE
  OBVIOUS
<1>2. PICK x \in Nat \ S : \A y \in Nat \ S : x <= y
  BY <1>1, Smallest
<1>3. x # 0
  OBVIOUS
<1>4. x - 1 \in Nat /\ x - 1 < x
  BY <1>3
<1>5. x - 1 \in S
  BY <1>2, <1>4
<1> QED
  BY <1>4, <1>5

\* The same up to a bound.
LEMMA InductionTo ==
  ASSUME NEW N \in Nat, NEW S, 0 \in S, \A n \in 0..(N - 1) : n \in S => n + 1 \in S
  PROVE  \A n \in 0..N : n \in S
<1> DEFINE T == {n \in Nat : n <= N => n \in S}
<1>1. 0 \in T
  OBVIOUS
<1>2. \A n \in Nat : n \in T => n + 1 \in T
  OBVIOUS
<1> HIDE DEF T
<1>3. \A n \in Nat : n \in T
  BY <1>1, <1>2, Induction
<1> QED
  BY <1>3 DEF T

-----------------------------------------------------------------------------
(* Varints.                                                                *)

\* The number of values of a byte, and of the rest of one beside a prefix.
LEMMA Bases == Base \in Nat /\ Base >= 4 /\ Base = 4 * Radix /\ Radix \in Nat /\ Radix >= 1
              /\ Base \in Nat \ {0}
  BY RadixAssumption DEF Base

\* Quotient and remainder make up the number.
LEMMA Divides ==
  ASSUME NEW b \in Nat \ {0}, NEW x \in Nat
  PROVE  (b * (x \div b)) + (x % b) = x
  OBVIOUS

\* A prefix and the digit behind it can be told apart.
LEMMA Joins ==
  ASSUME NEW r \in Nat \ {0}, NEW p \in 0..3, NEW d \in 0..(r - 1)
  PROVE  /\ (p * r) + d \in 0..((4 * r) - 1)
         /\ ((p * r) + d) \div r = p
         /\ ((p * r) + d) % r = d
  OBVIOUS

\* The recursive definition of capacity defines a function.
LEMMA CapacityIs ==
  capacity = [w \in 1..8 |-> IF w = 1 THEN Radix ELSE Base * capacity[w - 1]]
<1> DEFINE Ok(n, a) == a = [w \in 1..n |-> IF w = 1 THEN Radix ELSE Base * a[w - 1]]
           S == {n \in Nat : \E a : Ok(n, a)}
<1>1. Ok(0, <<>>)
  OBVIOUS
<1>2. ASSUME NEW n \in Nat, NEW a, Ok(n, a) PROVE \E b : Ok(n + 1, b)
  <2> DEFINE b == [w \in 1..(n + 1) |-> IF w \in 1..n THEN a[w]
                                        ELSE IF w = 1 THEN Radix ELSE Base * a[n]]
  <2>1. \A w \in 1..(n + 1) : b[w] = IF w = 1 THEN Radix ELSE Base * b[w - 1]
    BY <1>2
  <2>2. Ok(n + 1, b)
    BY <2>1
  <2> HIDE DEF Ok
  <2> QED
    BY <2>2
<1> HIDE DEF Ok
<1>3. 8 \in S
  <2>1. 0 \in S /\ \A n \in Nat : n \in S => n + 1 \in S
    BY <1>1, <1>2
  <2> HIDE DEF S
  <2> QED
    BY <2>1, Induction
<1>4. \E a : Ok(8, a)
  BY <1>3
<1> QED
  BY <1>4 DEF capacity, Ok

\* How many numbers a varint of w bytes holds.
LEMMA Capacities ==
  /\ \A w \in 1..8 : capacity[w] \in Nat /\ capacity[w] >= 1
  /\ capacity[1] = Radix
  /\ \A w \in 2..8 : capacity[w] = Base * capacity[w - 1]
<1> DEFINE S == {n \in Nat : n + 1 \in 1..8 => capacity[n + 1] \in Nat /\ capacity[n + 1] >= 1}
<1>1. capacity[1] = Radix /\ \A w \in 2..8 : capacity[w] = Base * capacity[w - 1]
  BY CapacityIs
<1>2. 0 \in S
  BY <1>1, Bases
<1>3. ASSUME NEW n \in Nat, n \in S PROVE n + 1 \in S
  <2>1. SUFFICES ASSUME n + 2 \in 1..8
                 PROVE  capacity[n + 2] \in Nat /\ capacity[n + 2] >= 1
    OBVIOUS
  <2>2. capacity[n + 2] = Base * capacity[n + 1]
    BY <1>1, <2>1
  <2>3. capacity[n + 1] \in Nat /\ capacity[n + 1] >= 1
    BY <1>3, <2>1
  <2>4. \A x, y \in Nat : x >= 1 /\ y >= 1 => x * y \in Nat /\ x * y >= 1
    OBVIOUS
  <2> QED
    BY <2>2, <2>3, <2>4, Bases
<1> HIDE DEF S
<1>4. \A n \in Nat : n \in S
  BY <1>2, <1>3, Induction
<1>5. ASSUME NEW w \in 1..8 PROVE capacity[w] \in Nat /\ capacity[w] >= 1
  <2>1. w - 1 \in S
    BY <1>4
  <2> QED
    BY <2>1 DEF S
<1> QED
  BY <1>1, <1>5

\* A wider varint holds more.
LEMMA CapacitiesGrow ==
  /\ Capacity(1) <= Capacity(2) /\ Capacity(2) <= Capacity(4) /\ Capacity(4) <= Capacity(8)
  /\ \A w \in Widths : Capacity(w) \in Nat /\ Capacity(w) >= 1
  /\ MAX_VARINT \in Nat
<1>1. ASSUME NEW w \in 2..8 PROVE capacity[w - 1] <= capacity[w]
  <2>1. \A x \in Nat : x <= Base * x
    BY Bases
  <2> QED
    BY <2>1, Capacities
<1>2. \A w \in 1..8 : capacity[w] \in Nat
  BY Capacities
<1>3. capacity[1] <= capacity[2] /\ capacity[2] <= capacity[3] /\ capacity[3] <= capacity[4]
  BY <1>1
<1>4. capacity[4] <= capacity[5] /\ capacity[5] <= capacity[6] /\ capacity[6] <= capacity[7]
      /\ capacity[7] <= capacity[8]
  BY <1>1
<1> QED
  BY <1>2, <1>3, <1>4, Capacities DEF Capacity, Widths, MAX_VARINT

\* The width of a number is the least that holds it.
LEMMA LengthIs ==
  ASSUME NEW v \in 0..MAX_VARINT
  PROVE  /\ varint_len(v) \in Widths /\ v < Capacity(varint_len(v))
         /\ \A u \in Widths : v < Capacity(u) => varint_len(v) <= u
<1> DEFINE Fits(w) == v < Capacity(w) /\ \A u \in Widths : v < Capacity(u) => w <= u
<1>1. v < Capacity(8)
  BY CapacitiesGrow DEF MAX_VARINT, Widths
<1>2. \E w \in Widths : Fits(w)
  <2>1. CASE v < Capacity(1)
    BY <2>1 DEF Widths
  <2>2. CASE ~(v < Capacity(1)) /\ v < Capacity(2)
    BY <2>2 DEF Widths
  <2>3. CASE ~(v < Capacity(1)) /\ ~(v < Capacity(2)) /\ v < Capacity(4)
    BY <2>3 DEF Widths
  <2>4. CASE ~(v < Capacity(1)) /\ ~(v < Capacity(2)) /\ ~(v < Capacity(4))
    BY <2>4, <1>1 DEF Widths
  <2> QED
    BY <2>1, <2>2, <2>3, <2>4
<1> QED
  BY <1>2 DEF varint_len

\* Each width has a prefix.
LEMMA PrefixIs ==
  \A w \in Widths : Prefix(w) \in 0..3 /\ Width[Prefix(w) + 1] = w
<1>1. Width[0 + 1] = 1 /\ Width[1 + 1] = 2 /\ Width[2 + 1] = 4 /\ Width[3 + 1] = 8
  BY DEF Width
<1>2. ASSUME NEW w \in Widths PROVE \E e \in 0..3 : Width[e + 1] = w
  BY <1>1 DEF Widths
<1> QED
  BY <1>2 DEF Prefix

\* Each first byte has a width.
LEMMA WidthsOf ==
  \A byte \in Byte : WidthOf(byte) \in Widths
<1>1. Width[0 + 1] = 1 /\ Width[1 + 1] = 2 /\ Width[2 + 1] = 4 /\ Width[3 + 1] = 8
  BY DEF Width
<1>2. \A byte \in Byte : byte \div Radix \in 0..3
  BY Bases DEF Byte
<1> QED
  BY <1>1, <1>2 DEF WidthOf, Widths

\* The digits of a number are a function of their places.
LEMMA ShiftedIs ==
  ASSUME NEW v
  PROVE  Shifted(v) = [k \in 0..7 |-> IF k = 0 THEN v ELSE Shifted(v)[k - 1] \div Base]
<1> DEFINE Ok(n, a) == a = [k \in 0..n |-> IF k = 0 THEN v ELSE a[k - 1] \div Base]
           S == {n \in Nat : \E a : Ok(n, a)}
<1>1. Ok(0, [k \in 0..0 |-> v])
  OBVIOUS
<1>2. ASSUME NEW n \in Nat, NEW a, Ok(n, a) PROVE \E b : Ok(n + 1, b)
  <2> DEFINE b == [k \in 0..(n + 1) |-> IF k \in 0..n THEN a[k] ELSE a[n] \div Base]
  <2>1. \A k \in 0..(n + 1) : b[k] = IF k = 0 THEN v ELSE b[k - 1] \div Base
    BY <1>2
  <2>2. Ok(n + 1, b)
    BY <2>1
  <2> HIDE DEF Ok
  <2> QED
    BY <2>2
<1> HIDE DEF Ok
<1>3. 7 \in S
  <2>1. 0 \in S /\ \A n \in Nat : n \in S => n + 1 \in S
    BY <1>1, <1>2
  <2> HIDE DEF S
  <2> QED
    BY <2>1, Induction
<1>4. \E a : Ok(7, a)
  BY <1>3
<1> QED
  BY <1>4 DEF Shifted, Ok

\* What is left of a number that w bytes hold fits in what is left of the bytes.
LEMMA ShiftedFits ==
  ASSUME NEW w \in Widths, NEW v \in Nat, v < Capacity(w)
  PROVE  \A k \in 0..(w - 1) : Shifted(v)[k] \in Nat /\ Shifted(v)[k] < capacity[w - k]
<1> DEFINE S == {k \in Nat : Shifted(v)[k] \in Nat /\ Shifted(v)[k] < capacity[w - k]}
<1>0. w \in 1..8 /\ w - 1 \in 0..7
  BY DEF Widths
<1>1. 0 \in S
  BY <1>0, ShiftedIs DEF Capacity
<1>2. ASSUME NEW k \in 0..(w - 2), k \in S PROVE k + 1 \in S
  <2>1. Shifted(v)[k + 1] = Shifted(v)[k] \div Base
    BY <1>0, ShiftedIs
  <2>2. capacity[w - k] = Base * capacity[w - (k + 1)] /\ capacity[w - (k + 1)] \in Nat
    BY <1>0, Capacities
  <2>3. \A x, c \in Nat : x < Base * c => x \div Base < c /\ x \div Base \in Nat
    BY Bases
  <2> QED
    BY <1>2, <2>1, <2>2, <2>3
<1> HIDE DEF S
<1>3. w - 1 \in Nat
  BY <1>0
<1>4. \A k \in 0..(w - 1) : k \in S
  BY <1>0, <1>1, <1>2, <1>3, InductionTo
<1> QED
  BY <1>4 DEF S

\* The number that bytes stand for is a function of them.
LEMMA NumberIs ==
  ASSUME NEW bytes, Len(bytes) \in Nat \ {0}
  PROVE  \E n : /\ n = [i \in 1..Len(bytes) |->
                         IF i = 1 THEN bytes[1] % Radix ELSE (Base * n[i - 1]) + bytes[i]]
               /\ Number(bytes) = n[Len(bytes)]
<1> DEFINE Ok(m, n) == n = [i \in 1..m |->
                         IF i = 1 THEN bytes[1] % Radix ELSE (Base * n[i - 1]) + bytes[i]]
           S == {m \in Nat : \E n : Ok(m, n)}
<1>1. Ok(0, <<>>)
  OBVIOUS
<1>2. ASSUME NEW m \in Nat, NEW a, Ok(m, a) PROVE \E b : Ok(m + 1, b)
  <2> DEFINE b == [i \in 1..(m + 1) |-> IF i \in 1..m THEN a[i]
                     ELSE IF i = 1 THEN bytes[1] % Radix ELSE (Base * a[m]) + bytes[i]]
  <2>1. \A i \in 1..(m + 1) :
           b[i] = IF i = 1 THEN bytes[1] % Radix ELSE (Base * b[i - 1]) + bytes[i]
    BY <1>2
  <2>2. Ok(m + 1, b)
    BY <2>1
  <2> HIDE DEF Ok
  <2> QED
    BY <2>2
<1> HIDE DEF Ok
<1>3. Len(bytes) \in S
  <2>1. 0 \in S /\ \A n \in Nat : n \in S => n + 1 \in S
    BY <1>1, <1>2
  <2> HIDE DEF S
  <2> QED
    BY <2>1, Induction
<1> DEFINE n == CHOOSE n : Ok(Len(bytes), n)
<1>4. Ok(Len(bytes), n)
  BY <1>3
<1>5. Number(bytes) = n[Len(bytes)]
  BY DEF Number, Ok
<1> HIDE DEF n
<1> QED
  BY <1>4, <1>5 DEF Ok

\* It is a number.
LEMMA NumberType ==
  ASSUME NEW bytes \in Seq(Byte), Len(bytes) # 0
  PROVE  Number(bytes) \in Nat
<1>0. Len(bytes) \in Nat \ {0} /\ \A i \in 1..Len(bytes) : bytes[i] \in Nat
  BY Bases DEF Byte
<1>1. PICK n : /\ n = [i \in 1..Len(bytes) |->
                         IF i = 1 THEN bytes[1] % Radix ELSE (Base * n[i - 1]) + bytes[i]]
               /\ Number(bytes) = n[Len(bytes)]
  BY <1>0, NumberIs
<1> DEFINE S == {i \in Nat : n[i + 1] \in Nat}
<1>2. 0 \in S
  <2>1. n[1] = bytes[1] % Radix
    BY <1>0, <1>1
  <2> QED
    BY <2>1, <1>0, Bases
<1>3. ASSUME NEW i \in 0..((Len(bytes) - 1) - 1), i \in S PROVE i + 1 \in S
  <2>1. n[(i + 1) + 1] = (Base * n[i + 1]) + bytes[(i + 1) + 1]
    BY <1>0, <1>1
  <2>2. \A x, y \in Nat : (Base * x) + y \in Nat
    BY Bases
  <2>3. bytes[(i + 1) + 1] \in Nat /\ n[i + 1] \in Nat
    BY <1>0, <1>3
  <2>4. n[(i + 1) + 1] \in Nat
    BY <2>1, <2>2, <2>3
  <2>5. i + 1 \in Nat
    BY <1>0, <1>3
  <2> QED
    BY <2>4, <2>5
<1>4. Len(bytes) - 1 \in Nat
  BY <1>0
<1> HIDE DEF S
<1>5. \A i \in 0..(Len(bytes) - 1) : i \in S
  BY <1>2, <1>3, <1>4, InductionTo
<1>6. Len(bytes) - 1 \in S
  BY <1>4, <1>5
<1> QED
  BY <1>6, <1>1, <1>0 DEF S

-----------------------------------------------------------------------------
(* What is written at a place of a buffer, and one buffer that continues another. *)

At(b, at, s) == at + Len(s) <= Len(b) /\ \A i \in 1..Len(s) : b[at + i] = s[i]
Continues(b, a) == Len(a) <= Len(b) /\ \A i \in 1..Len(a) : b[i] = a[i]

\* What is in a sequence of bytes.
LEMMA Bytes ==
  \A s : s \in Seq(Byte) =>
    Len(s) \in Nat /\ \A i \in 1..Len(s) : s[i] \in Byte /\ s[i] \in Nat
  BY Bases DEF Byte

\* The bytes of a varint are what stands there.
LEMMA AtIs ==
  ASSUME NEW b \in Seq(Byte), NEW at \in Nat, NEW s \in Seq(Byte), At(b, at, s)
  PROVE  SubSeq(b, at + 1, at + Len(s)) = s
<1>1. Len(s) \in Nat /\ Len(b) \in Nat
  OBVIOUS
<1>2. SubSeq(b, at + 1, at + Len(s)) = [i \in 1..Len(s) |-> b[at + i]]
  BY <1>1 DEF At
<1> QED
  BY <1>2 DEF At

\* The digits that encode_varint writes are digits, and stand for its number.
LEMMA Encodes ==
  ASSUME NEW w \in Widths, NEW v \in Nat, v < Capacity(w)
  PROVE  /\ encode_varint(v, w) \in Seq(Byte) /\ Len(encode_varint(v, w)) = w
         /\ WidthOf(encode_varint(v, w)[1]) = w
         /\ Number(encode_varint(v, w)) = v
<1> DEFINE e == encode_varint(v, w)
           s == Shifted(v)
<1>0. w \in 1..8 /\ w - 1 \in 0..7
  BY DEF Widths
<1>1. e = [i \in 1..w |-> (IF i = 1 THEN Prefix(w) * Radix ELSE 0) + (s[w - i] % Base)]
  BY DEF encode_varint
<1>2. \A k \in 0..(w - 1) : s[k] \in Nat
  BY ShiftedFits
<1>3. s[w - 1] < Radix /\ s[w - 1] \in Nat
  <2>1. w - 1 \in 0..(w - 1) /\ w - (w - 1) = 1
    BY <1>0
  <2> QED
    BY <2>1, ShiftedFits, Capacities
<1>4. e[1] = (Prefix(w) * Radix) + s[w - 1]
  BY <1>0, <1>1, <1>3, Bases
<1>5. Prefix(w) \in 0..3
  BY PrefixIs
<1>6. e[1] \in Byte /\ e[1] \div Radix = Prefix(w) /\ e[1] % Radix = s[w - 1]
  <2>1. s[w - 1] \in 0..(Radix - 1) /\ Radix \in Nat \ {0}
    BY <1>3, Bases
  <2> DEFINE d == s[w - 1]
             p == Prefix(w)
  <2>2. d \in 0..(Radix - 1) /\ p \in 0..3
    BY <2>1, <1>5
  <2> HIDE DEF d, p
  <2>3. (p * Radix) + d \in 0..((4 * Radix) - 1) /\ ((p * Radix) + d) \div Radix = p
        /\ ((p * Radix) + d) % Radix = d
    BY <2>1, <2>2, Joins
  <2> QED
    BY <2>3, <1>4, Bases DEF Byte, d, p
<1>7. \A i \in 2..w : e[i] = s[w - i] % Base /\ e[i] \in Byte
  <2>1. \A x \in Nat : x % Base \in 0..(Base - 1) /\ 0 + (x % Base) = x % Base
    BY Bases
  <2>2. ASSUME NEW i \in 2..w PROVE e[i] = 0 + (s[w - i] % Base) /\ s[w - i] \in Nat
    <3>1. w - i \in 0..(w - 1)
      BY <1>0
    <3>2. i \in 1..w /\ i # 1
      BY <1>0
    <3> QED
      BY <3>1, <3>2, <1>1, <1>2
  <2> QED
    BY <2>1, <2>2 DEF Byte
<1>8. e \in Seq(Byte) /\ Len(e) = w
  <2>1. \A i \in 1..w : e[i] \in Byte
    BY <1>0, <1>6, <1>7
  <2> QED
    BY <2>1, <1>0, <1>1
<1>9. WidthOf(e[1]) = w
  BY <1>6, PrefixIs DEF WidthOf
<1>10. Number(e) = v
  <2> HIDE DEF e, s
  <2>1. Len(e) \in Nat \ {0}
    BY <1>0, <1>8
  <2>2. PICK n : /\ n = [i \in 1..Len(e) |->
                         IF i = 1 THEN e[1] % Radix ELSE (Base * n[i - 1]) + e[i]]
                 /\ Number(e) = n[Len(e)]
    BY <2>1, NumberIs
  <2> DEFINE S == {i \in Nat : n[i + 1] = s[w - (i + 1)]}
  <2>3. 0 \in S
    BY <2>1, <2>2, <1>6
  <2>4. ASSUME NEW i \in 0..((w - 1) - 1), i \in S PROVE i + 1 \in S
    <3>1. n[(i + 1) + 1] = (Base * s[w - (i + 1)]) + (s[w - ((i + 1) + 1)] % Base)
      BY <2>2, <2>4, <1>7, <1>8, <1>0
    <3>2. s[w - (i + 1)] = s[w - ((i + 1) + 1)] \div Base /\ s[w - ((i + 1) + 1)] \in Nat
      <4>1. w - (i + 1) \in 1..7 /\ (w - (i + 1)) - 1 = w - ((i + 1) + 1)
        BY <1>0
      <4>2. w - ((i + 1) + 1) \in 0..(w - 1)
        BY <1>0
      <4> QED
        BY <4>1, <4>2, <1>2, ShiftedIs DEF s
    <3>3. \A x \in Nat : (Base * (x \div Base)) + (x % Base) = x
      BY Divides, Bases
    <3> QED
      BY <3>1, <3>2, <3>3
  <2> HIDE DEF S
  <2>5. w - 1 \in S
    <3>1. w - 1 \in Nat
      BY <1>0
    <3> QED
      BY <2>3, <2>4, <3>1, InductionTo
  <2>6. s[0] = v
    BY ShiftedIs DEF s
  <2>7. n[w] = s[0]
    BY <2>5, <1>0 DEF S
  <2> QED
    BY <2>2, <2>6, <2>7, <1>8
<1> QED
  BY <1>8, <1>9, <1>10

\* The bytes of a number, in the width it needs.
LEMMA EncodedIs ==
  ASSUME NEW v \in 0..MAX_VARINT
  PROVE  /\ V(v) \in Seq(Byte) /\ Len(V(v)) = varint_len(v) /\ Len(V(v)) \in 1..8
<1>1. v \in Nat
  BY CapacitiesGrow
<1>2. varint_len(v) \in Widths /\ v < Capacity(varint_len(v))
  BY LengthIs
<1>3. V(v) \in Seq(Byte) /\ Len(V(v)) = varint_len(v)
  BY <1>1, <1>2, Encodes DEF V
<1> QED
  BY <1>2, <1>3 DEF Widths

\* What a decoded varint is, for any bytes.
LEMMA DecodedIs ==
  ASSUME NEW b \in Seq(Byte), NEW at \in Nat
  PROVE  /\ decode_varint(b, at).ok \in BOOLEAN
         /\ decode_varint(b, at).ok =>
              /\ decode_varint(b, at).width \in Widths
              /\ decode_varint(b, at).pos = at + decode_varint(b, at).width
              /\ decode_varint(b, at).pos \in (at + 1)..Len(b)
              /\ decode_varint(b, at).val \in Nat
         /\ ~decode_varint(b, at).ok => decode_varint(b, at).pos = at /\ decode_varint(b, at).val = 0
<1> DEFINE w == WidthOf(b[at + 1])
<1>0. Len(b) \in Nat
  OBVIOUS
<1>1. CASE at >= Len(b)
  BY <1>1 DEF decode_varint
<1>2. CASE at < Len(b)
  <2>1. w \in Widths /\ w \in 1..8
    <3>1. b[at + 1] \in Byte
      BY <1>0, <1>2, Bytes
    <3> QED
      BY <3>1, WidthsOf DEF Widths
  <2>2. CASE at + w > Len(b)
    BY <1>2, <2>2 DEF decode_varint
  <2>3. CASE at + w <= Len(b)
    <3>1. decode_varint(b, at) = [ok |-> TRUE, pos |-> at + w, width |-> w,
                                  val |-> Number(SubSeq(b, at + 1, at + w))]
      BY <1>0, <1>2, <2>1, <2>3 DEF decode_varint
    <3>2. SubSeq(b, at + 1, at + w) \in Seq(Byte) /\ Len(SubSeq(b, at + 1, at + w)) # 0
      <4> HIDE DEF w
      <4>1. \A i \in (at + 1)..(at + w) : b[i] \in Byte
        BY <1>0, <1>2, <2>1, <2>3, Bytes
      <4> QED
        BY <4>1, <1>0, <2>1, <2>3, SubSeqProperties
    <3>3. Number(SubSeq(b, at + 1, at + w)) \in Nat
      BY <3>2, NumberType
    <3> HIDE DEF w
    <3> QED
      BY <1>0, <2>1, <2>3, <3>1, <3>3
  <2> QED
    BY <2>1, <2>2, <2>3, <1>0
<1> QED
  BY <1>0, <1>1, <1>2

\* A varint is read as it was written, whatever its width.
LEMMA ReadsVarint ==
  ASSUME NEW w \in Widths, NEW v \in Nat, v < Capacity(w),
         NEW b \in Seq(Byte), NEW at \in Nat, At(b, at, encode_varint(v, w))
  PROVE  decode_varint(b, at) = [ok |-> TRUE, pos |-> at + w, width |-> w, val |-> v]
<1> DEFINE e == encode_varint(v, w)
<1>1. e \in Seq(Byte) /\ Len(e) = w /\ WidthOf(e[1]) = w /\ Number(e) = v
  BY Encodes
<1>2. w \in 1..8 /\ Len(b) \in Nat
  BY DEF Widths
<1> HIDE DEF e
<1>3. b[at + 1] = e[1] /\ at + w <= Len(b)
  BY <1>1, <1>2 DEF At, e
<1>4. SubSeq(b, at + 1, at + w) = e
  BY <1>1, AtIs DEF e
<1>5. ~(at >= Len(b)) /\ WidthOf(b[at + 1]) = w /\ ~(at + w > Len(b))
  BY <1>1, <1>2, <1>3
<1>6. decode_varint(b, at) = [ok |-> TRUE, pos |-> at + w, width |-> w,
                              val |-> Number(SubSeq(b, at + 1, at + w))]
  BY <1>5 DEF decode_varint
<1> QED
  BY <1>1, <1>4, <1>6

\* The same for the width it needs.
LEMMA ReadsV ==
  ASSUME NEW v \in 0..MAX_VARINT, NEW b \in Seq(Byte), NEW at \in Nat, At(b, at, V(v))
  PROVE  decode_varint(b, at) = [ok |-> TRUE, pos |-> at + Len(V(v)), width |-> Len(V(v)), val |-> v]
<1>1. v \in Nat /\ varint_len(v) \in Widths /\ v < Capacity(varint_len(v))
  BY LengthIs, CapacitiesGrow
<1>2. Len(V(v)) = varint_len(v)
  BY EncodedIs
<1> QED
  BY <1>1, <1>2, ReadsVarint DEF V

\* More bytes change nothing about a varint that is whole, and only make one whole that
\* was cut off.
LEMMA ContinuesVarint ==
  ASSUME NEW a \in Seq(Byte), NEW b \in Seq(Byte), Continues(b, a), NEW at \in Nat
  PROVE  /\ decode_varint(a, at).ok <=> decode_varint(b, at).ok /\ decode_varint(b, at).pos <= Len(a)
         /\ decode_varint(a, at).ok => decode_varint(a, at) = decode_varint(b, at)
<1>0. Len(a) \in Nat /\ Len(b) \in Nat /\ Len(a) <= Len(b)
  BY DEF Continues
<1>1. CASE at >= Len(a)
  <2>1. ~decode_varint(a, at).ok
    BY <1>1 DEF decode_varint
  <2>2. decode_varint(b, at).ok => decode_varint(b, at).pos > Len(a)
    BY <1>0, <1>1, DecodedIs
  <2> QED
    BY <2>1, <2>2, <1>0, DecodedIs
<1>2. CASE at < Len(a)
  <2> DEFINE w == WidthOf(b[at + 1])
  <2>1. a[at + 1] = b[at + 1]
    BY <1>0, <1>2 DEF Continues
  <2>2. w \in 1..8
    <3>1. b[at + 1] \in Byte
      BY <1>0, <1>2, Bytes
    <3> QED
      BY <3>1, WidthsOf DEF Widths
  <2>3. CASE at + w > Len(a)
    <3>1. ~decode_varint(a, at).ok
      BY <1>0, <1>2, <2>1, <2>3 DEF decode_varint
    <3>2. decode_varint(b, at).ok => decode_varint(b, at).pos = at + w
      BY <1>0, <1>2 DEF decode_varint
    <3> HIDE DEF w
    <3> QED
      BY <3>1, <3>2, <1>0, <2>2, <2>3
  <2>4. CASE at + w <= Len(a)
    <3>1. SubSeq(a, at + 1, at + w) = SubSeq(b, at + 1, at + w)
      <4> HIDE DEF w
      <4>1. SubSeq(a, at + 1, at + w) = [i \in 1..w |-> a[at + i]]
        BY <1>0, <2>2, <2>4
      <4>2. SubSeq(b, at + 1, at + w) = [i \in 1..w |-> b[at + i]]
        BY <1>0, <2>2, <2>4
      <4> QED
        BY <4>1, <4>2, <1>0, <2>2, <2>4 DEF Continues
    <3>2. decode_varint(a, at) = decode_varint(b, at) /\ decode_varint(a, at).ok
          /\ decode_varint(b, at).pos = at + w
      <4> HIDE DEF w
      <4>1. ~(at >= Len(a)) /\ ~(at + w > Len(a)) /\ ~(at >= Len(b)) /\ ~(at + w > Len(b))
        BY <1>0, <1>2, <2>2, <2>4
      <4>2. decode_varint(a, at) = [ok |-> TRUE, pos |-> at + w, width |-> w,
                                    val |-> Number(SubSeq(a, at + 1, at + w))]
        BY <4>1, <2>1 DEF decode_varint, w
      <4>3. decode_varint(b, at) = [ok |-> TRUE, pos |-> at + w, width |-> w,
                                    val |-> Number(SubSeq(b, at + 1, at + w))]
        BY <4>1 DEF decode_varint, w
      <4>4. Number(SubSeq(a, at + 1, at + w)) = Number(SubSeq(b, at + 1, at + w))
        BY <3>1
      <4>5. decode_varint(a, at) = decode_varint(b, at)
        BY <4>2, <4>3, <4>4
      <4>6. decode_varint(a, at).ok
        BY <4>2
      <4>7. decode_varint(b, at).pos = at + w
        BY <4>3
      <4> QED
        BY <4>5, <4>6, <4>7
    <3> HIDE DEF w
    <3> QED
      BY <3>2, <2>4
  <2> QED
    BY <2>2, <2>3, <2>4, <1>0
<1> QED
  BY <1>0, <1>1, <1>2

\* One buffer that continues another continues it from any place on.
LEMMA ContinuesFrom ==
  ASSUME NEW a \in Seq(Byte), NEW b \in Seq(Byte), Continues(b, a), NEW at \in 0..Len(a)
  PROVE  /\ SubSeq(a, at + 1, Len(a)) \in Seq(Byte) /\ SubSeq(b, at + 1, Len(b)) \in Seq(Byte)
         /\ Len(SubSeq(a, at + 1, Len(a))) = Len(a) - at
         /\ Continues(SubSeq(b, at + 1, Len(b)), SubSeq(a, at + 1, Len(a)))
<1>0. Len(a) \in Nat /\ Len(b) \in Nat /\ Len(a) <= Len(b)
  BY DEF Continues
<1> DEFINE s == SubSeq(a, at + 1, Len(a))
           t == SubSeq(b, at + 1, Len(b))
<1>1. s \in Seq(Byte) /\ Len(s) = Len(a) - at /\ \A i \in 1..(Len(a) - at) : s[i] = a[at + i]
  BY <1>0
<1>2. t \in Seq(Byte) /\ Len(t) = Len(b) - at /\ \A i \in 1..(Len(b) - at) : t[i] = b[at + i]
  BY <1>0
<1> HIDE DEF s, t
<1>3. Continues(t, s)
  <2>1. ASSUME NEW i \in 1..Len(s) PROVE t[i] = s[i]
    BY <1>0, <1>1, <1>2 DEF Continues
  <2> QED
    BY <2>1, <1>0, <1>1, <1>2 DEF Continues
<1> QED
  BY <1>1, <1>2, <1>3 DEF s, t

\* The library's word for it.
LEMMA PrefixContinues ==
  ASSUME NEW S, NEW a \in Seq(S), NEW b \in Seq(S)
  PROVE  IsPrefix(a, b) <=> Continues(b, a)
<1>0. Len(a) \in Nat /\ Len(b) \in Nat
  OBVIOUS
<1>1. CASE Len(a) <= Len(b)
  <2>1. SubSeq(a, 1, Len(a)) = [i \in 1..Len(a) |-> a[i]]
    BY <1>0
  <2>2. SubSeq(b, 1, Len(a)) = [i \in 1..Len(a) |-> b[i]]
    BY <1>0, <1>1
  <2>3. ASSUME \A i \in 1..Len(a) : b[i] = a[i]
        PROVE  SubSeq(a, 1, Len(a)) = SubSeq(b, 1, Len(a))
    BY <2>1, <2>2, <2>3
  <2>4. ASSUME SubSeq(a, 1, Len(a)) = SubSeq(b, 1, Len(a))
        PROVE  \A i \in 1..Len(a) : b[i] = a[i]
    <3>1. ASSUME NEW i \in 1..Len(a) PROVE b[i] = a[i]
      BY <2>1, <2>2, <2>4
    <3> QED
      BY <3>1
  <2> QED
    BY <2>3, <2>4, <1>1 DEF IsPrefix, Continues
<1> QED
  BY <1>0, <1>1 DEF IsPrefix, Continues

-----------------------------------------------------------------------------
(* The first bytes. *)

\* A row of the registry has the name under which it is found.
LEMMA RowIs ==
  ASSUME NEW n \in {row.name : row \in FrameTypes}
  PROVE  frame_by_name[n] \in FrameTypes /\ frame_by_name[n].name = n
  BY DEF frame_by_name

\* The types a pipe may start with are different numbers, each written as itself.
LEMMA Codes ==
  ASSUME NEW n \in {"QX_TRANSPORT_PARAMETERS", "PIPE_JOIN", "PIPE_LANE"}
  PROVE  /\ frame_by_name[n].first \in 0..MAX_VARINT
         /\ \A m \in {"QX_TRANSPORT_PARAMETERS", "PIPE_JOIN", "PIPE_LANE"} :
              frame_by_name[n].first = frame_by_name[m].first => n = m
<1>1. \A m \in {"QX_TRANSPORT_PARAMETERS", "PIPE_JOIN", "PIPE_LANE"} :
        frame_by_name[m] \in FrameTypes /\ frame_by_name[m].name = m
  BY RowIs, FrameTypesAssumption
<1>2. frame_by_name[n].first \in 0..MAX_VARINT
  BY <1>1, FrameTypesAssumption
<1>3. ASSUME NEW m \in {"QX_TRANSPORT_PARAMETERS", "PIPE_JOIN", "PIPE_LANE"},
             frame_by_name[n].first = frame_by_name[m].first
      PROVE  n = m
  <2> DEFINE r == frame_by_name[n]
             q == frame_by_name[m]
  <2>1. r \in FrameTypes /\ q \in FrameTypes /\ r.name = n /\ q.name = m /\ r.first = q.first
    BY <1>1, <1>3
  <2> HIDE DEF r, q
  <2>2. MAX_VARINT \in Nat
    BY CapacitiesGrow
  <2>3. r.first \in r.first .. r.last /\ q.first \in q.first .. q.last
    BY <2>1, <2>2, FrameTypesAssumption
  <2>4. r.first .. r.last \cap q.first .. q.last # {}
    BY <2>1, <2>3
  <2>5. r = q
    BY <2>1, <2>4, FrameTypesAssumption
  <2> QED
    BY <2>1, <2>5
<1> QED
  BY <1>2, <1>3

\* No marker starts another.
LEMMA MarkersDiffer ==
  ASSUME NEW n \in {"QX_TRANSPORT_PARAMETERS", "PIPE_JOIN", "PIPE_LANE"},
         NEW m \in {"QX_TRANSPORT_PARAMETERS", "PIPE_JOIN", "PIPE_LANE"},
         NEW s \in Seq(Byte),
         Continues(s, V(frame_by_name[n].first)), Continues(s, V(frame_by_name[m].first))
  PROVE  n = m
<1>1. frame_by_name[n].first \in 0..MAX_VARINT /\ frame_by_name[m].first \in 0..MAX_VARINT
  BY Codes
<1> DEFINE v == frame_by_name[n].first
           u == frame_by_name[m].first
<1> HIDE DEF v, u
<1>2. v \in 0..MAX_VARINT /\ u \in 0..MAX_VARINT
  BY <1>1 DEF v, u
<1>3. V(v) \in Seq(Byte) /\ V(u) \in Seq(Byte) /\ Len(V(v)) \in Nat /\ Len(V(u)) \in Nat
  BY <1>2, EncodedIs
<1>4. At(s, 0, V(v)) /\ At(s, 0, V(u))
  BY <1>3 DEF At, Continues, v, u
<1>5. decode_varint(s, 0).val = v /\ decode_varint(s, 0).val = u
  BY <1>2, <1>4, ReadsV
<1> QED
  BY <1>5, Codes DEF v, u

\* What is decided of some bytes is decided of more of them.
LEMMA ClassifyOnce ==
  ASSUME NEW a \in Seq(Byte), NEW b \in Seq(Byte), Continues(b, a), NEW j, NEW l, NEW max,
         classify_first_bytes(a, j, l, max) # "need-more"
  PROVE  classify_first_bytes(b, j, l, max) = classify_first_bytes(a, j, l, max)
<1> DEFINE size == decode_varint(a, 0)
           s == SubSeq(a, size.pos + 1, Len(a))
           t == SubSeq(b, size.pos + 1, Len(b))
           C == Candidates(size.val, j, l, max)
           Alive(r) == {c \in C : IsPrefix(r, c.marker) \/ IsPrefix(c.marker, r)}
           In(r) == {c \in C : Continues(r, c.marker)}
<1>1. classify_first_bytes(a, j, l, max) = Decide(size, s, Alive(s))
  BY DEF classify_first_bytes
<1>2. size.ok
  BY <1>1 DEF Decide
<1>3. decode_varint(b, 0) = size /\ size.pos \in 0..Len(a)
  BY <1>2, ContinuesVarint, DecodedIs
<1>4. classify_first_bytes(b, j, l, max) = Decide(size, t, Alive(t))
  BY <1>3 DEF classify_first_bytes
<1>5. s \in Seq(Byte) /\ t \in Seq(Byte) /\ Continues(t, s)
  BY <1>3, ContinuesFrom
<1>6. ASSUME NEW c \in C
      PROVE  /\ c.marker \in Seq(Byte) /\ Len(c.marker) \in Nat
             /\ \E n \in {"QX_TRANSPORT_PARAMETERS", "PIPE_JOIN", "PIPE_LANE"} :
                  c.marker = V(frame_by_name[n].first)
             /\ \A d \in C : c.marker = d.marker => c = d
  <2> HIDE DEF size
  <2>1. \A n \in {"QX_TRANSPORT_PARAMETERS", "PIPE_JOIN", "PIPE_LANE"} :
          V(frame_by_name[n].first) \in Seq(Byte) /\ Len(V(frame_by_name[n].first)) \in Nat
    BY Codes, EncodedIs
  <2>2. \E n \in {"QX_TRANSPORT_PARAMETERS", "PIPE_JOIN", "PIPE_LANE"} :
                  c.marker = V(frame_by_name[n].first)
    BY DEF Candidates, QX_TP_PREFIX, PIPE_JOIN_PREFIX, PIPE_LANE_PREFIX
  <2>3. QX_TP_PREFIX # PIPE_JOIN_PREFIX /\ QX_TP_PREFIX # PIPE_LANE_PREFIX
        /\ PIPE_JOIN_PREFIX # PIPE_LANE_PREFIX
    <3>1. \A n, m \in {"QX_TRANSPORT_PARAMETERS", "PIPE_JOIN", "PIPE_LANE"} :
            V(frame_by_name[n].first) = V(frame_by_name[m].first) => n = m
      <4>1. \A r \in Seq(Byte) : Continues(r, r)
        BY DEF Continues
      <4> QED
        BY <2>1, <4>1, MarkersDiffer
    <3> QED
      BY <3>1 DEF QX_TP_PREFIX, PIPE_JOIN_PREFIX, PIPE_LANE_PREFIX
  <2>4. \A d \in C : c.marker = d.marker => c = d
    <3> DEFINE r1 == [kind |-> "session", marker |-> QX_TP_PREFIX, min |-> MIN_TP_RECORD, ok |-> TRUE]
               r2 == [kind |-> "join", marker |-> PIPE_JOIN_PREFIX, min |-> MIN_JOIN_RECORD, ok |-> j]
               r3 == [kind |-> "lane", marker |-> PIPE_LANE_PREFIX, min |-> MIN_LANE_RECORD, ok |-> l]
    <3>1. C \subseteq {r1, r2, r3}
      BY DEF Candidates
    <3>2. r1.marker # r2.marker /\ r1.marker # r3.marker /\ r2.marker # r3.marker
      BY <2>3
    <3> HIDE DEF r1, r2, r3, C
    <3> QED
      BY <3>1, <3>2
  <2> QED
    BY <2>1, <2>2, <2>4
<1> HIDE DEF size, s, t, C
<1>7. ASSUME NEW r \in Seq(Byte)
      PROVE  /\ Alive(r) = {c \in C : Continues(c.marker, r) \/ Continues(r, c.marker)}
             /\ {c \in Alive(r) : Len(r) >= Len(c.marker)} = In(r)
             /\ \A c, d \in In(r) : c = d
  <2>1. \A c \in C : (IsPrefix(r, c.marker) <=> Continues(c.marker, r))
                     /\ (IsPrefix(c.marker, r) <=> Continues(r, c.marker))
    BY <1>6, PrefixContinues
  <2>2. Alive(r) = {c \in C : Continues(c.marker, r) \/ Continues(r, c.marker)}
    BY <2>1
  <2>3. ASSUME NEW c \in C PROVE (/\ Continues(c.marker, r) \/ Continues(r, c.marker)
                                  /\ Len(r) >= Len(c.marker)) <=> Continues(r, c.marker)
    <3>1. Len(r) \in Nat /\ Len(c.marker) \in Nat
      BY <1>6
    <3>2. Continues(c.marker, r) /\ Len(r) >= Len(c.marker) => Continues(r, c.marker)
      BY <3>1 DEF Continues
    <3>3. Continues(r, c.marker) => Len(r) >= Len(c.marker)
      BY <3>1 DEF Continues
    <3> QED
      BY <3>2, <3>3
  <2>4. {c \in Alive(r) : Len(r) >= Len(c.marker)} = In(r)
    BY <2>2, <2>3
  <2>5. ASSUME NEW c \in In(r), NEW d \in In(r) PROVE c = d
    <3> DEFINE Names == {"QX_TRANSPORT_PARAMETERS", "PIPE_JOIN", "PIPE_LANE"}
    <3>1. /\ c \in C /\ d \in C
          /\ Continues(r, c.marker) /\ Continues(r, d.marker)
      OBVIOUS
    <3>2. PICK n \in Names, m \in Names : /\ c.marker = V(frame_by_name[n].first)
                                          /\ d.marker = V(frame_by_name[m].first)
      BY <1>6, <3>1
    <3>3. Continues(r, V(frame_by_name[n].first)) /\ Continues(r, V(frame_by_name[m].first))
      BY <3>1, <3>2, Zenon
    <3>4. n = m
      BY <3>3, MarkersDiffer
    <3>5. c.marker = d.marker
      BY <3>2, <3>4, Zenon
    <3> QED
      BY <1>6, <3>1, <3>5, Zenon
  <2> QED
    BY <2>2, <2>4, <2>5
<1>8. Decide(size, s, Alive(s)) = IF Alive(s) = {} THEN "reject"
        ELSE IF In(s) = {} THEN "need-more" ELSE (CHOOSE c \in In(s) : TRUE).kind
  <2>1. {c \in Alive(s) : Len(s) >= Len(c.marker)} = In(s)
    BY <1>5, <1>7
  <2>2. Decide(size, s, Alive(s)) = IF Alive(s) = {} THEN "reject"
          ELSE IF {c \in Alive(s) : Len(s) >= Len(c.marker)} = {} THEN "need-more"
          ELSE (CHOOSE c \in {c \in Alive(s) : Len(s) >= Len(c.marker)} : TRUE).kind
    <3> HIDE DEF Alive
    <3> QED
      BY <1>2, Zenon DEF Decide
  <2> HIDE DEF Alive, In
  <2> QED
    BY <2>1, <2>2, Zenon
<1>9. Decide(size, t, Alive(t)) = IF Alive(t) = {} THEN "reject"
        ELSE IF In(t) = {} THEN "need-more" ELSE (CHOOSE c \in In(t) : TRUE).kind
  <2>1. {c \in Alive(t) : Len(t) >= Len(c.marker)} = In(t)
    BY <1>5, <1>7
  <2>2. Decide(size, t, Alive(t)) = IF Alive(t) = {} THEN "reject"
          ELSE IF {c \in Alive(t) : Len(t) >= Len(c.marker)} = {} THEN "need-more"
          ELSE (CHOOSE c \in {c \in Alive(t) : Len(t) >= Len(c.marker)} : TRUE).kind
    <3> HIDE DEF Alive
    <3> QED
      BY <1>2, Zenon DEF Decide
  <2> HIDE DEF Alive, In
  <2> QED
    BY <2>1, <2>2, Zenon
<1>10. Alive(t) \subseteq Alive(s)
  <2>1. ASSUME NEW c \in C, Continues(c.marker, t) \/ Continues(t, c.marker)
        PROVE  Continues(c.marker, s) \/ Continues(s, c.marker)
    <3>1. Len(s) \in Nat /\ Len(t) \in Nat /\ Len(c.marker) \in Nat
      BY <1>5, <1>6
    <3>2. Continues(c.marker, t) => Continues(c.marker, s)
      BY <3>1, <1>5 DEF Continues
    <3>3. Continues(t, c.marker) /\ Len(c.marker) <= Len(s) => Continues(s, c.marker)
      BY <3>1, <1>5 DEF Continues
    <3>4. Continues(t, c.marker) /\ Len(s) <= Len(c.marker) => Continues(c.marker, s)
      BY <3>1, <1>5 DEF Continues
    <3> QED
      BY <3>1, <3>2, <3>3, <3>4, <2>1
  <2> QED
    BY <2>1, <1>5, <1>7
<1>11. In(s) \subseteq In(t)
  <2>1. ASSUME NEW c \in C, Continues(s, c.marker) PROVE Continues(t, c.marker)
    <3>1. Len(s) \in Nat /\ Len(t) \in Nat /\ Len(c.marker) \in Nat
      BY <1>5, <1>6
    <3>2. Len(c.marker) <= Len(t) /\ Len(c.marker) <= Len(s)
      BY <3>1, <2>1, <1>5 DEF Continues
    <3>3. ASSUME NEW i \in 1..Len(c.marker) PROVE t[i] = c.marker[i]
      BY <3>1, <3>2, <2>1, <1>5 DEF Continues
    <3> QED
      BY <3>2, <3>3 DEF Continues
  <2> QED
    BY <2>1
<1>12. In(t) \subseteq Alive(t)
  BY <1>5, <1>7
<1>13. \A c, d \in In(t) : c = d
  BY <1>5, <1>7
<1> HIDE DEF In, Alive
<1>14. CASE Alive(s) = {}
  BY <1>14, <1>1, <1>4, <1>8, <1>9, <1>10
<1>15. CASE Alive(s) # {}
  <2>1. In(s) # {}
    BY <1>15, <1>1, <1>8
  <2>2. In(s) = In(t) /\ Alive(t) # {}
    BY <2>1, <1>11, <1>12, <1>13
  <2> QED
    BY <2>1, <2>2, <1>15, <1>1, <1>4, <1>8, <1>9
<1> QED
  BY <1>14, <1>15

-----------------------------------------------------------------------------
(* Sequences put together. *)

\* FlattenSeq as a function of the number of parts.
LEMMA FlattenIs ==
  ASSUME NEW ss, Len(ss) \in Nat \ {0}
  PROVE  \E n : /\ n = [i \in 1..Len(ss) |-> IF i = 1 THEN ss[i] ELSE n[i - 1] \o ss[i]]
               /\ FlattenSeq(ss) = n[Len(ss)]
<1> DEFINE Ok(m, n) == n = [i \in 1..m |-> IF i = 1 THEN ss[i] ELSE n[i - 1] \o ss[i]]
           S == {m \in Nat : \E n : Ok(m, n)}
<1>1. Ok(0, <<>>)
  OBVIOUS
<1>2. ASSUME NEW m \in Nat, NEW a, Ok(m, a) PROVE \E b : Ok(m + 1, b)
  <2> DEFINE b == [i \in 1..(m + 1) |-> IF i \in 1..m THEN a[i]
                     ELSE IF i = 1 THEN ss[i] ELSE a[m] \o ss[i]]
  <2>1. ASSUME NEW i \in 1..(m + 1)
        PROVE  b[i] = IF i = 1 THEN ss[i] ELSE b[i - 1] \o ss[i]
    <3>1. CASE i \in 1..m
      <4>1. b[i] = a[i] /\ (i # 1 => i - 1 \in 1..m)
        BY <3>1
      <4>2. i # 1 => b[i - 1] = a[i - 1]
        BY <4>1
      <4>3. a[i] = IF i = 1 THEN ss[i] ELSE a[i - 1] \o ss[i]
        BY <3>1, <1>2
      <4> QED
        BY <4>1, <4>2, <4>3
    <3>2. CASE i \notin 1..m
      <4>1. i = m + 1 /\ i - 1 = m /\ (i # 1 => m \in 1..(m + 1) /\ m \in 1..m)
        BY <3>2
      <4>2. b[i] = IF i = 1 THEN ss[i] ELSE a[m] \o ss[i]
        BY <3>2
      <4>3. i # 1 => b[m] = a[m]
        BY <4>1
      <4> QED
        BY <4>1, <4>2, <4>3
    <3> QED
      BY <3>1, <3>2
  <2>2. Ok(m + 1, b)
    BY <2>1
  <2> HIDE DEF Ok
  <2> QED
    BY <2>2
<1> HIDE DEF Ok
<1>3. Len(ss) \in S
  <2>1. 0 \in S /\ \A n \in Nat : n \in S => n + 1 \in S
    BY <1>1, <1>2
  <2> HIDE DEF S
  <2> QED
    BY <2>1, Induction
<1> DEFINE n == CHOOSE n : Ok(Len(ss), n)
<1>4. Ok(Len(ss), n)
  BY <1>3
<1>5. FlattenSeq(ss) = n[Len(ss)]
  BY DEF FlattenSeq, Ok
<1> HIDE DEF n
<1> QED
  BY <1>4, <1>5 DEF Ok

\* What the first parts amount to.
LEMMA FlattenFirst ==
  ASSUME NEW S, NEW ss \in Seq(Seq(S)), NEW i \in 0..(Len(ss) - 1)
  PROVE  /\ FlattenSeq(SubSeq(ss, 1, 0)) = <<>>
         /\ FlattenSeq(SubSeq(ss, 1, i)) \in Seq(S)
         /\ FlattenSeq(SubSeq(ss, 1, i + 1)) = FlattenSeq(SubSeq(ss, 1, i)) \o ss[i + 1]
<1>0. Len(ss) \in Nat \ {0} /\ i \in Nat
  OBVIOUS
<1>1. PICK n : /\ n = [k \in 1..Len(ss) |-> IF k = 1 THEN ss[k] ELSE n[k - 1] \o ss[k]]
               /\ FlattenSeq(ss) = n[Len(ss)]
  BY <1>0, FlattenIs
<1>2. ASSUME NEW m \in 1..Len(ss) PROVE FlattenSeq(SubSeq(ss, 1, m)) = n[m]
  <2> DEFINE t == SubSeq(ss, 1, m)
  <2>1. Len(t) = m /\ (\A k \in 1..m : t[k] = ss[k]) /\ Len(t) \in Nat \ {0}
    BY <1>0
  <2> HIDE DEF t
  <2>2. PICK q : /\ q = [k \in 1..Len(t) |-> IF k = 1 THEN t[k] ELSE q[k - 1] \o t[k]]
                 /\ FlattenSeq(t) = q[Len(t)]
    BY <2>1, FlattenIs
  <2> DEFINE T == {k \in Nat : q[k + 1] = n[k + 1]}
  <2>3. 0 \in T
    BY <1>0, <1>1, <2>1, <2>2
  <2>4. ASSUME NEW k \in 0..((m - 1) - 1), k \in T PROVE k + 1 \in T
    <3>1. (k + 1) + 1 \in 1..Len(t) /\ (k + 1) + 1 \in 1..Len(ss) /\ (k + 1) + 1 # 1
          /\ ((k + 1) + 1) - 1 = k + 1 /\ k + 1 \in Nat
      BY <1>0, <2>1
    <3>2. q[(k + 1) + 1] = q[k + 1] \o t[(k + 1) + 1]
      BY <3>1, <2>2
    <3>3. n[(k + 1) + 1] = n[k + 1] \o ss[(k + 1) + 1]
      BY <3>1, <1>1
    <3> QED
      BY <3>1, <3>2, <3>3, <2>1, <2>4
  <2>5. m - 1 \in Nat
    OBVIOUS
  <2> HIDE DEF T
  <2>7. \A k \in 0..(m - 1) : k \in T
    BY <2>3, <2>4, <2>5, InductionTo
  <2>6. m - 1 \in T
    BY <2>5, <2>7
  <2> QED
    BY <2>1, <2>2, <2>6 DEF T, t
<1>3. ASSUME NEW m \in 1..Len(ss) PROVE n[m] \in Seq(S)
  <2> DEFINE T == {k \in Nat : n[k + 1] \in Seq(S)}
  <2>1. 0 \in T
    BY <1>0, <1>1
  <2>2. ASSUME NEW k \in 0..((Len(ss) - 1) - 1), k \in T PROVE k + 1 \in T
    <3>1. (k + 1) + 1 \in 1..Len(ss) /\ (k + 1) + 1 # 1
          /\ ((k + 1) + 1) - 1 = k + 1 /\ k + 1 \in Nat
      BY <1>0
    <3>2. n[(k + 1) + 1] = n[k + 1] \o ss[(k + 1) + 1]
      BY <3>1, <1>1
    <3>3. ss[(k + 1) + 1] \in Seq(S) /\ n[k + 1] \in Seq(S)
      BY <3>1, <2>2
    <3>4. n[(k + 1) + 1] \in Seq(S)
      BY <3>2, <3>3
    <3> QED
      BY <3>1, <3>4
  <2>3. Len(ss) - 1 \in Nat
    BY <1>0
  <2> HIDE DEF T
  <2>4. \A k \in 0..(Len(ss) - 1) : k \in T
    BY <2>1, <2>2, <2>3, InductionTo
  <2>5. m - 1 \in T
    BY <2>4
  <2> QED
    BY <2>5 DEF T
<1>4. FlattenSeq(SubSeq(ss, 1, 0)) = <<>>
  <2>1. SubSeq(ss, 1, 0) = <<>>
    OBVIOUS
  <2> QED
    BY <2>1 DEF FlattenSeq
<1>5. CASE i = 0
  <2>1. FlattenSeq(SubSeq(ss, 1, 1)) = ss[1] /\ ss[1] \in Seq(S)
    BY <1>0, <1>1, <1>2
  <2>2. <<>> \o ss[1] = ss[1] /\ <<>> \in Seq(S)
    BY <2>1, ConcatEmptySeq, EmptySeq
  <2>3. /\ FlattenSeq(SubSeq(ss, 1, 0)) \in Seq(S)
        /\ FlattenSeq(SubSeq(ss, 1, 1)) = FlattenSeq(SubSeq(ss, 1, 0)) \o ss[1]
    BY <2>1, <2>2, <1>4
  <2>4. i + 1 = 1
    BY <1>5
  <2> QED
    BY <2>3, <2>4, <1>4, <1>5, Zenon
<1>6. CASE i # 0
  <2>1. i \in 1..Len(ss) /\ i + 1 \in 1..Len(ss) /\ i + 1 # 1 /\ (i + 1) - 1 = i
    BY <1>0, <1>6
  <2>2. n[i + 1] = n[i] \o ss[i + 1]
    BY <2>1, <1>1
  <2> QED
    BY <2>1, <2>2, <1>2, <1>3, <1>4
<1> QED
  BY <1>5, <1>6

\* The parts stand in the whole one behind the other.
LEMMA Flattened ==
  ASSUME NEW S, NEW ss \in Seq(Seq(S))
  PROVE  /\ FlattenSeq(ss) \in Seq(S)
         /\ FlattenSeq(SubSeq(ss, 1, 0)) = <<>>
         /\ FlattenSeq(SubSeq(ss, 1, Len(ss))) = FlattenSeq(ss)
         /\ \A i \in 0..Len(ss) :
              /\ FlattenSeq(SubSeq(ss, 1, i)) \in Seq(S)
              /\ Continues(FlattenSeq(ss), FlattenSeq(SubSeq(ss, 1, i)))
         /\ \A i \in 0..(Len(ss) - 1) :
              /\ FlattenSeq(SubSeq(ss, 1, i + 1)) = FlattenSeq(SubSeq(ss, 1, i)) \o ss[i + 1]
              /\ At(FlattenSeq(ss), Len(FlattenSeq(SubSeq(ss, 1, i))), ss[i + 1])
<1> DEFINE D(i) == FlattenSeq(SubSeq(ss, 1, i))
<1>0. Len(ss) \in Nat
  OBVIOUS
<1>1. SubSeq(ss, 1, Len(ss)) = ss
  OBVIOUS
<1>2. D(0) = <<>>
  <2>1. SubSeq(ss, 1, 0) = <<>>
    OBVIOUS
  <2> QED
    BY <2>1 DEF FlattenSeq
<1>3. \A i \in 0..(Len(ss) - 1) : D(i) \in Seq(S) /\ D(i + 1) = D(i) \o ss[i + 1]
  BY FlattenFirst
<1> HIDE DEF D
<1>4. ASSUME NEW i \in 0..Len(ss) PROVE D(i) \in Seq(S)
  <2>1. CASE i = 0
    BY <2>1, <1>2, EmptySeq
  <2>2. CASE i # 0
    <3>1. i - 1 \in 0..(Len(ss) - 1) /\ (i - 1) + 1 = i /\ ss[i] \in Seq(S)
      BY <1>0, <2>2
    <3>2. D(i) = D(i - 1) \o ss[i] /\ D(i - 1) \in Seq(S)
      BY <3>1, <1>3
    <3> QED
      BY <3>1, <3>2
  <2> QED
    BY <2>1, <2>2
<1>5. \A a, b \in Seq(S) : Continues(a \o b, a) /\ At(a \o b, Len(a), b)
  BY DEF Continues, At
<1>6. \A a, b, c \in Seq(S) : Continues(c, b) /\ Continues(b, a) => Continues(c, a)
  BY DEF Continues
<1>7. ASSUME NEW i \in 0..Len(ss) PROVE Continues(D(Len(ss)), D(i))
  <2> DEFINE T == {d \in Nat : Continues(D(i + d), D(i))}
  <2>1. 0 \in T
    BY <1>4 DEF Continues
  <2>2. ASSUME NEW d \in 0..((Len(ss) - i) - 1), d \in T PROVE d + 1 \in T
    <3>1. i + d \in 0..(Len(ss) - 1) /\ i + (d + 1) = (i + d) + 1 /\ d + 1 \in Nat
          /\ (i + d) + 1 \in 0..Len(ss) /\ i + d \in 0..Len(ss) /\ ss[(i + d) + 1] \in Seq(S)
      BY <1>0
    <3>2. D((i + d) + 1) = D(i + d) \o ss[(i + d) + 1]
      BY <3>1, <1>3
    <3>3. Continues(D((i + d) + 1), D(i + d))
      BY <3>1, <3>2, <1>4, <1>5
    <3>4. Continues(D((i + d) + 1), D(i))
      BY <3>1, <3>3, <2>2, <1>4, <1>6
    <3> QED
      BY <3>1, <3>4
  <2> HIDE DEF T
  <2>3. Len(ss) - i \in Nat
    BY <1>0
  <2>6. \A d \in 0..(Len(ss) - i) : d \in T
    BY <2>1, <2>2, <2>3, InductionTo
  <2>4. Len(ss) - i \in T
    BY <2>3, <2>6
  <2>5. i + (Len(ss) - i) = Len(ss)
    BY <1>0
  <2> QED
    BY <2>4, <2>5 DEF T
<1>8. ASSUME NEW i \in 0..(Len(ss) - 1) PROVE At(D(Len(ss)), Len(D(i)), ss[i + 1])
  <2>1. D(i + 1) = D(i) \o ss[i + 1] /\ D(i) \in Seq(S) /\ ss[i + 1] \in Seq(S)
        /\ i + 1 \in 0..Len(ss)
    BY <1>0, <1>3
  <2>2. At(D(i + 1), Len(D(i)), ss[i + 1]) /\ Continues(D(Len(ss)), D(i + 1))
    BY <2>1, <1>5, <1>7
  <2>3. D(Len(ss)) \in Seq(S) /\ D(i + 1) \in Seq(S)
    BY <2>1, <1>0, <1>4
  <2>4. \A a, b, c \in Seq(S), k \in Nat : At(a, k, c) /\ Continues(b, a) => At(b, k, c)
    BY DEF At, Continues
  <2> QED
    BY <2>1, <2>2, <2>3, <2>4
<1>9. D(Len(ss)) = FlattenSeq(ss)
  BY <1>1 DEF D
<1>10. FlattenSeq(ss) \in Seq(S)
  BY <1>0, <1>4, <1>9
<1> QED
  BY <1>2, <1>3, <1>4, <1>7, <1>8, <1>9, <1>10 DEF D

-----------------------------------------------------------------------------
(* Places. *)

\* One part behind another.
LEMMA AtParts ==
  ASSUME NEW b \in Seq(Byte), NEW at \in Nat, NEW s \in Seq(Byte), NEW t \in Seq(Byte)
  PROVE  At(b, at, s \o t) <=> At(b, at, s) /\ At(b, at + Len(s), t)
<1>0. /\ Len(b) \in Nat /\ Len(s) \in Nat /\ Len(t) \in Nat /\ Len(s \o t) = Len(s) + Len(t)
      /\ \A i \in 1..Len(s) : (s \o t)[i] = s[i]
      /\ \A i \in 1..Len(t) : (s \o t)[Len(s) + i] = t[i]
  OBVIOUS
<1>1. ASSUME At(b, at, s \o t) PROVE At(b, at, s)
  BY <1>0, <1>1 DEF At
<1>2. ASSUME At(b, at, s \o t) PROVE At(b, at + Len(s), t)
  <2>1. ASSUME NEW i \in 1..Len(t) PROVE b[(at + Len(s)) + i] = t[i]
    <3>1. Len(s) + i \in 1..(Len(s) + Len(t)) /\ at + (Len(s) + i) = (at + Len(s)) + i
      BY <1>0
    <3> QED
      BY <3>1, <1>0, <1>2 DEF At
  <2> QED
    BY <2>1, <1>0, <1>2 DEF At
<1>3. ASSUME At(b, at, s), At(b, at + Len(s), t) PROVE At(b, at, s \o t)
  <2>1. ASSUME NEW i \in 1..(Len(s) + Len(t)) PROVE b[at + i] = (s \o t)[i]
    <3>1. CASE i <= Len(s)
      BY <3>1, <1>0, <1>3 DEF At
    <3>2. CASE i > Len(s)
      <4>1. i - Len(s) \in 1..Len(t) /\ (at + Len(s)) + (i - Len(s)) = at + i
            /\ Len(s) + (i - Len(s)) = i
        BY <3>2, <1>0
      <4>2. b[(at + Len(s)) + (i - Len(s))] = t[i - Len(s)]
        BY <4>1, <1>3 DEF At
      <4>3. (s \o t)[Len(s) + (i - Len(s))] = t[i - Len(s)]
        BY <4>1, <1>0
      <4> QED
        BY <4>1, <4>2, <4>3
    <3> QED
      BY <3>1, <3>2, <1>0
  <2>2. at + (Len(s) + Len(t)) <= Len(b)
    BY <1>0, <1>3 DEF At
  <2> QED
    BY <2>1, <2>2, <1>0 DEF At
<1> QED
  BY <1>1, <1>2, <1>3

\* What stands in the part of a buffer that is there.
LEMMA AtCut ==
  ASSUME NEW b \in Seq(Byte), NEW n \in 0..Len(b), NEW at \in Nat, NEW s \in Seq(Byte),
         At(b, at, s), at + Len(s) <= n
  PROVE  At(SubSeq(b, 1, n), at, s)
<1>1. Len(SubSeq(b, 1, n)) = n /\ \A i \in 1..n : SubSeq(b, 1, n)[i] = b[i]
  OBVIOUS
<1>2. Len(s) \in Nat
  OBVIOUS
<1> QED
  BY <1>1, <1>2 DEF At

-----------------------------------------------------------------------------
(* One parameter. *)

\* The bytes of a parameter.
LEMMA TpBytes ==
  ASSUME NEW p, TpFits(p)
  PROVE  /\ encode_tp_value(Format(p.id), p.value) \in Seq(Byte)
         /\ Len(encode_tp_value(Format(p.id), p.value)) \in 0..MAX_VARINT
         /\ EncodeTp(p) \in Seq(Byte) /\ Len(EncodeTp(p)) \in Nat /\ Len(EncodeTp(p)) >= 2
<1> DEFINE fmt == Format(p.id)
           val == encode_tp_value(fmt, p.value)
<1>1. val \in Seq(Byte)
  <2>1. CASE fmt = "varint"
    <3>1. val = V(p.value) /\ p.value \in 0..MAX_VARINT
      BY <2>1 DEF TpFits, encode_tp_value
    <3> QED
      BY <3>1, EncodedIs
  <2>2. CASE fmt \in {"role", "lanes"}
    <3>1. fmt # "varint"
      BY <2>2
    <3>2. val = V(Head(p.value)) \o Tail(p.value)
          /\ Head(p.value) \in 0..MAX_VARINT /\ Tail(p.value) \in Seq(Byte)
      BY <2>2, <3>1 DEF TpFits, encode_tp_value
    <3>3. V(Head(p.value)) \in Seq(Byte)
      BY <3>2, EncodedIs
    <3> QED
      BY <3>2, <3>3
  <2>3. CASE fmt \notin {"varint", "role", "lanes"}
    BY <2>3 DEF TpFits, encode_tp_value
  <2> QED
    BY <2>1, <2>2, <2>3
<1>2. Len(val) <= MAX_VARINT /\ p.id \in 0..MAX_VARINT
  BY DEF TpFits
<1>3. EncodeTp(p) = V(p.id) \o V(Len(val)) \o val
  BY DEF EncodeTp
<1> HIDE DEF val, fmt
<1>4. Len(val) \in 0..MAX_VARINT
  BY <1>1, <1>2
<1>5. /\ V(p.id) \in Seq(Byte) /\ Len(V(p.id)) \in 1..8
      /\ V(Len(val)) \in Seq(Byte) /\ Len(V(Len(val))) \in 1..8
  BY <1>2, <1>4, EncodedIs
<1>6. EncodeTp(p) \in Seq(Byte) /\ Len(EncodeTp(p)) = Len(V(p.id)) + Len(V(Len(val))) + Len(val)
  BY <1>1, <1>3, <1>5
<1>7. Len(EncodeTp(p)) \in Nat /\ Len(EncodeTp(p)) >= 2
  BY <1>1, <1>5, <1>6
<1> QED
  BY <1>1, <1>4, <1>6, <1>7 DEF val, fmt

\* A value that is accepted is the one that was encoded.
LEMMA ValueBack ==
  ASSUME NEW p, TpFits(p),
         decode_tp_value(Format(p.id), encode_tp_value(Format(p.id), p.value)).ok
  PROVE  decode_tp_value(Format(p.id), encode_tp_value(Format(p.id), p.value)).value = p.value
<1> DEFINE fmt == Format(p.id)
           raw == encode_tp_value(fmt, p.value)
           d == decode_varint(raw, 0)
           rest == SubSeq(raw, d.pos + 1, Len(raw))
<1>1. raw \in Seq(Byte)
  BY TpBytes
<1>2. decode_tp_value(fmt, raw) = ValueFrom(fmt, raw, d)
  BY DEF decode_tp_value
<1>3. ValueFrom(fmt, raw, d).ok
  BY <1>2
<1>4. CASE fmt = "varint"
  <2>1. raw = V(p.value) /\ p.value \in 0..MAX_VARINT
    BY <1>4 DEF TpFits, encode_tp_value
  <2>2. d.val = p.value /\ d.ok
    <3>1. At(raw, 0, V(p.value))
      BY <2>1, <1>1 DEF At
    <3> QED
      BY <3>1, <2>1, <1>1, ReadsV
  <2> HIDE DEF d
  <2>3. ValueFrom(fmt, raw, d) = Accept(rest = <<>>, d.val)
    BY <1>4, <2>2 DEF ValueFrom
  <2> QED
    BY <1>2, <2>2, <2>3 DEF Accept
<1>5. CASE fmt \in {"role", "lanes"}
  <2>0. fmt # "varint" /\ fmt # "empty" /\ fmt # "multipath"
    BY <1>5
  <2> DEFINE h == Head(p.value)
             t == Tail(p.value)
  <2>1. raw = V(h) \o t /\ h \in 0..MAX_VARINT /\ t \in Seq(Byte)
        /\ p.value \in Seq(Nat) /\ p.value # <<>>
    BY <1>5, <2>0 DEF TpFits, encode_tp_value
  <2>2. <<h>> \o t = p.value
    BY <2>1
  <2> HIDE DEF h, t
  <2>3. V(h) \in Seq(Byte) /\ Len(V(h)) \in 1..8
    BY <2>1, EncodedIs
  <2>4. At(raw, 0, V(h))
    BY <2>1, <2>3 DEF At
  <2>5. d.val = h /\ d.ok /\ d.pos = Len(V(h))
    <3>1. d = [ok |-> TRUE, pos |-> 0 + Len(V(h)), width |-> Len(V(h)), val |-> h]
      BY <2>1, <2>4, <1>1, ReadsV
    <3> HIDE DEF d
    <3> QED
      BY <3>1, <2>3
  <2>6. SubSeq(raw, Len(V(h)) + 1, Len(raw)) = t
    BY <2>1, <2>3
  <2>7. rest = t
    BY <2>5, <2>6
  <2> HIDE DEF d, rest
  <2>8. ValueFrom(fmt, raw, d).value = <<d.val>> \o rest
    <3>1. CASE fmt = "role"
      BY <3>1, <2>0, <2>5 DEF ValueFrom, Accept, rest
    <3>2. CASE fmt = "lanes"
      BY <3>2, <2>0, <2>5 DEF ValueFrom, Accept, rest
    <3> QED
      BY <3>1, <3>2, <1>5
  <2> QED
    BY <1>2, <2>2, <2>5, <2>7, <2>8
<1>6. CASE fmt \notin {"varint", "role", "lanes"}
  <2>1. raw = p.value
    BY <1>6 DEF encode_tp_value
  <2> HIDE DEF d
  <2>2. CASE fmt = "empty"
    <3>1. ValueFrom(fmt, raw, d) = Accept(raw = <<>>, <<>>)
      BY <2>2 DEF ValueFrom
    <3>3. ValueFrom(fmt, raw, d).ok = (raw = <<>>)
      BY <3>1 DEF Accept
    <3>2. raw = <<>>
      BY <1>3, <3>3
    <3> QED
      BY <1>2, <2>1, <3>1, <3>2 DEF Accept
  <2>3. CASE fmt = "multipath"
    <3>1. ValueFrom(fmt, raw, d).value = raw
      BY <2>3 DEF ValueFrom, Accept
    <3> QED
      BY <1>2, <2>1, <3>1
  <2>4. CASE fmt \notin {"empty", "multipath"}
    <3>1. ValueFrom(fmt, raw, d) = Accept(TRUE, raw)
      BY <1>6, <2>4 DEF ValueFrom
    <3> QED
      BY <1>2, <2>1, <3>1 DEF Accept
  <2> QED
    BY <2>2, <2>3, <2>4
<1> QED
  BY <1>4, <1>5, <1>6

\* A parameter is read as it was written.
LEMMA ReadsTp ==
  ASSUME NEW p, TpFits(p), NEW b \in Seq(Byte), NEW at \in Nat, At(b, at, EncodeTp(p))
  PROVE  TpFrom(b, at) =
           [whole |-> TRUE, id |-> p.id, pos |-> at + Len(EncodeTp(p)),
            val |-> decode_tp_value(Format(p.id), encode_tp_value(Format(p.id), p.value))]
<1> DEFINE val == encode_tp_value(Format(p.id), p.value)
           x == V(p.id)
           y == V(Len(val))
           num == decode_varint(b, at)
           ln == decode_varint(b, num.pos)
<1>0. Len(b) \in Nat
  OBVIOUS
<1>1. EncodeTp(p) = x \o y \o val /\ p.id \in 0..MAX_VARINT
  BY DEF EncodeTp, TpFits
<1>2. val \in Seq(Byte) /\ Len(val) \in 0..MAX_VARINT /\ Len(val) \in Nat
  BY TpBytes
<1> HIDE DEF val
<1>3. x \in Seq(Byte) /\ Len(x) \in Nat /\ y \in Seq(Byte) /\ Len(y) \in Nat
  BY <1>1, <1>2, EncodedIs
<1> HIDE DEF x, y
<1>4. x \o y \in Seq(Byte) /\ Len(x \o y) = Len(x) + Len(y)
      /\ Len(EncodeTp(p)) = (Len(x) + Len(y)) + Len(val)
  BY <1>1, <1>2, <1>3
<1>5. At(b, at, x \o y) /\ At(b, at + (Len(x) + Len(y)), val)
  <2> DEFINE s == x \o y
  <2>1. s \in Seq(Byte) /\ Len(s) = Len(x) + Len(y) /\ At(b, at, s \o val)
    BY <1>1, <1>4
  <2> HIDE DEF s
  <2>2. At(b, at, s) /\ At(b, at + Len(s), val)
    BY <2>1, <1>2, AtParts
  <2> QED
    BY <2>1, <2>2 DEF s
<1>6. At(b, at, x) /\ At(b, at + Len(x), y)
  BY <1>3, <1>5, AtParts
<1>7. num.ok = TRUE /\ num.pos = at + Len(x) /\ num.val = p.id
  <2>1. num = [ok |-> TRUE, pos |-> at + Len(x), width |-> Len(x), val |-> p.id]
    BY <1>1, <1>6, ReadsV DEF x
  <2> QED
    BY <2>1
<1>8. ln.ok = TRUE /\ ln.pos = at + (Len(x) + Len(y)) /\ ln.val = Len(val)
  <2> DEFINE c == at + Len(x)
  <2>1. c \in Nat /\ c + Len(y) = at + (Len(x) + Len(y)) /\ At(b, c, y)
    BY <1>3, <1>6
  <2> HIDE DEF c
  <2>2. decode_varint(b, c) = [ok |-> TRUE, pos |-> c + Len(y), width |-> Len(y), val |-> Len(val)]
    BY <1>2, <2>1, ReadsV DEF y
  <2>3. ln = decode_varint(b, c)
    BY <1>7 DEF c
  <2> QED
    BY <2>1, <2>2, <2>3
<1>9. TpFrom(b, at) = TpRest(b, num, ln)
  BY DEF TpFrom, TpAfter
<1> HIDE DEF num, ln
<1> DEFINE at2 == at + (Len(x) + Len(y))
           end == ln.pos + ln.val
<1>10. at2 \in Nat /\ end = at2 + Len(val) /\ end = at + Len(EncodeTp(p)) /\ end <= Len(b)
  <2>1. at2 \in Nat /\ end = at2 + Len(val) /\ end = at + Len(EncodeTp(p))
    BY <1>2, <1>3, <1>4, <1>8
  <2>2. at2 + Len(val) <= Len(b)
    BY <1>5 DEF At
  <2> QED
    BY <2>1, <2>2
<1>11. SubSeq(b, ln.pos + 1, end) = val
  <2>1. SubSeq(b, at2 + 1, at2 + Len(val)) = val
    BY <1>2, <1>5, <1>10, AtIs
  <2> QED
    BY <2>1, <1>8, <1>10
<1> HIDE DEF end
<1>12. (num.ok /\ ln.ok /\ end <= Len(b)) = TRUE
  BY <1>7, <1>8, <1>10
<1>13. TpRest(b, num, ln) =
         [whole |-> TRUE, id |-> num.val, pos |-> end,
          val |-> decode_tp_value(Format(num.val), SubSeq(b, ln.pos + 1, end))]
  BY <1>12 DEF TpRest, end
<1> QED
  BY <1>7, <1>9, <1>10, <1>11, <1>13 DEF val

\* A parameter that is cut off is not whole.
LEMMA CutsTp ==
  ASSUME NEW p, TpFits(p), NEW b \in Seq(Byte), NEW c \in Seq(Byte), NEW at \in Nat,
         At(c, at, EncodeTp(p)), Continues(c, b), Len(b) < at + Len(EncodeTp(p))
  PROVE  TpFrom(b, at).whole = FALSE
<1> DEFINE num == decode_varint(b, at)
           ln == decode_varint(b, num.pos)
           n2 == decode_varint(c, at)
           l2 == decode_varint(c, n2.pos)
<1>0. Len(b) \in Nat /\ Len(c) \in Nat /\ Len(EncodeTp(p)) \in Nat
  BY TpBytes
<1>1. TpFrom(b, at).whole = (num.ok /\ ln.ok /\ ln.pos + ln.val <= Len(b))
  BY DEF TpFrom, TpAfter, TpRest
<1>2. TpFrom(c, at).pos = at + Len(EncodeTp(p)) /\ TpFrom(c, at).pos = l2.pos + l2.val
  <2>1. TpFrom(c, at).pos = at + Len(EncodeTp(p))
    BY ReadsTp
  <2>2. TpFrom(c, at).pos = l2.pos + l2.val
    BY DEF TpFrom, TpAfter, TpRest
  <2> QED
    BY <2>1, <2>2
<1>3. num.ok => num = n2 /\ num.pos \in Nat
  BY ContinuesVarint, DecodedIs
<1>4. num.ok /\ ln.ok => ln = l2
  <2> SUFFICES ASSUME num.ok, ln.ok PROVE ln = l2
    OBVIOUS
  <2>1. num = n2 /\ num.pos \in Nat
    BY <1>3
  <2>2. ln = decode_varint(c, num.pos)
    BY <2>1, ContinuesVarint
  <2> QED
    BY <2>1, <2>2
<1> HIDE DEF num, ln, n2, l2
<1>5. ~(num.ok /\ ln.ok /\ ln.pos + ln.val <= Len(b))
  BY <1>0, <1>2, <1>3, <1>4
<1> QED
  BY <1>1, <1>5

-----------------------------------------------------------------------------
(* A block of parameters. *)

\* Where the first i parameters of a block end.
TpEnd(ps, i) == Len(encode_tps(SubSeq(ps, 1, i)))

\* The bytes of a block are those of its parameters, one behind another.
LEMMA BlockParts ==
  ASSUME NEW Fit, \A p \in Fit : TpFits(p), NEW ps \in Seq(Fit)
  PROVE  /\ encode_tps(ps) \in Seq(Byte)
         /\ TpEnd(ps, 0) = 0 /\ TpEnd(ps, Len(ps)) = Len(encode_tps(ps))
         /\ \A i \in 0..Len(ps) : TpEnd(ps, i) \in 0..Len(encode_tps(ps)) /\ i <= TpEnd(ps, i)
         /\ \A i \in 0..(Len(ps) - 1) :
              /\ TpEnd(ps, i + 1) = TpEnd(ps, i) + Len(EncodeTp(ps[i + 1]))
              /\ At(encode_tps(ps), TpEnd(ps, i), EncodeTp(ps[i + 1]))
<1> DEFINE ss == [i \in 1..Len(ps) |-> EncodeTp(ps[i])]
<1>0. Len(ps) \in Nat /\ DOMAIN ps = 1..Len(ps) /\ \A i \in 1..Len(ps) : ps[i] \in Fit
  OBVIOUS
<1>1. \A i \in 1..Len(ps) : EncodeTp(ps[i]) \in Seq(Byte) /\ Len(EncodeTp(ps[i])) \in Nat
                            /\ Len(EncodeTp(ps[i])) >= 2
  BY <1>0, TpBytes
<1>2. ss \in Seq(Seq(Byte)) /\ Len(ss) = Len(ps)
  BY <1>0, <1>1
<1>3. encode_tps(ps) = FlattenSeq(ss)
  BY <1>0 DEF encode_tps
<1>4. ASSUME NEW i \in 0..Len(ps) PROVE encode_tps(SubSeq(ps, 1, i)) = FlattenSeq(SubSeq(ss, 1, i))
  <2> DEFINE q == SubSeq(ps, 1, i)
  <2>1. DOMAIN q = 1..i /\ \A k \in 1..i : q[k] = ps[k]
    BY <1>0
  <2>2. SubSeq(ss, 1, i) = [k \in 1..i |-> EncodeTp(ps[k])]
    BY <1>0, <1>2
  <2> HIDE DEF q, ss
  <2>3. [k \in DOMAIN q |-> EncodeTp(q[k])] = [k \in 1..i |-> EncodeTp(ps[k])]
    BY <2>1
  <2>4. encode_tps(q) = FlattenSeq([k \in DOMAIN q |-> EncodeTp(q[k])])
    BY DEF encode_tps
  <2>5. encode_tps(q) = FlattenSeq(SubSeq(ss, 1, i))
    BY <2>2, <2>3, <2>4
  <2> QED
    BY <2>5 DEF q
<1>5. \A i \in 1..Len(ps) : ss[i] = EncodeTp(ps[i])
  OBVIOUS
<1> HIDE DEF ss
<1> DEFINE D(i) == FlattenSeq(SubSeq(ss, 1, i))
<1>6. /\ FlattenSeq(ss) \in Seq(Byte) /\ D(0) = <<>> /\ D(Len(ps)) = FlattenSeq(ss)
      /\ \A i \in 0..Len(ps) : D(i) \in Seq(Byte) /\ Continues(FlattenSeq(ss), D(i))
      /\ \A i \in 0..(Len(ps) - 1) : D(i + 1) = D(i) \o ss[i + 1] /\ At(FlattenSeq(ss), Len(D(i)), ss[i + 1])
  BY <1>2, Flattened
<1>7. \A i \in 0..Len(ps) : TpEnd(ps, i) = Len(D(i))
  BY <1>4 DEF TpEnd
<1>8. TpEnd(ps, 0) = 0 /\ TpEnd(ps, Len(ps)) = Len(encode_tps(ps))
  <2>1. 0 \in 0..Len(ps) /\ Len(ps) \in 0..Len(ps)
    BY <1>0
  <2>2. Len(D(0)) = 0
    BY <1>6
  <2> QED
    BY <2>1, <2>2, <1>3, <1>6, <1>7
<1>9. ASSUME NEW i \in 0..Len(ps) PROVE TpEnd(ps, i) \in 0..Len(encode_tps(ps))
  <2>1. D(i) \in Seq(Byte) /\ Len(D(i)) <= Len(FlattenSeq(ss)) /\ Len(D(i)) \in Nat
        /\ Len(FlattenSeq(ss)) \in Nat
    BY <1>6 DEF Continues
  <2> QED
    BY <2>1, <1>3, <1>7
<1>10. ASSUME NEW i \in 0..(Len(ps) - 1)
       PROVE  /\ TpEnd(ps, i + 1) = TpEnd(ps, i) + Len(EncodeTp(ps[i + 1]))
              /\ At(encode_tps(ps), TpEnd(ps, i), EncodeTp(ps[i + 1]))
              /\ Len(EncodeTp(ps[i + 1])) >= 2 /\ Len(EncodeTp(ps[i + 1])) \in Nat
  <2>1. i \in 0..Len(ps) /\ i + 1 \in 0..Len(ps) /\ i + 1 \in 1..Len(ps)
    BY <1>0
  <2>2. D(i + 1) = D(i) \o ss[i + 1] /\ At(FlattenSeq(ss), Len(D(i)), ss[i + 1])
        /\ D(i) \in Seq(Byte)
    BY <2>1, <1>6
  <2>3. ss[i + 1] = EncodeTp(ps[i + 1]) /\ EncodeTp(ps[i + 1]) \in Seq(Byte)
        /\ Len(EncodeTp(ps[i + 1])) >= 2 /\ Len(EncodeTp(ps[i + 1])) \in Nat
    BY <2>1, <1>1, <1>5
  <2>4. TpEnd(ps, i) = Len(D(i)) /\ TpEnd(ps, i + 1) = Len(D(i + 1))
    BY <2>1, <1>7
  <2> HIDE DEF D
  <2>5. Len(D(i + 1)) = Len(D(i)) + Len(EncodeTp(ps[i + 1]))
    BY <2>2, <2>3
  <2> QED
    BY <2>2, <2>3, <2>4, <2>5, <1>3
<1>11. \A i \in 0..Len(ps) : i <= TpEnd(ps, i)
  <2> DEFINE S == {i \in Nat : i <= TpEnd(ps, i)}
  <2>1. 0 \in S
    BY <1>8
  <2>2. ASSUME NEW i \in 0..(Len(ps) - 1), i \in S PROVE i + 1 \in S
    <3>1. TpEnd(ps, i) \in Nat
      BY <1>0, <1>9
    <3> QED
      BY <3>1, <2>2, <1>10
  <2> HIDE DEF S
  <2>3. \A i \in 0..Len(ps) : i \in S
    BY <1>0, <2>1, <2>2, InductionTo
  <2> QED
    BY <2>3 DEF S
<1> QED
  BY <1>3, <1>6, <1>8, <1>9, <1>10, <1>11

\* The recursive definition of TpRounds defines a function.
LEMMA TpRoundsAre ==
  ASSUME NEW b, Len(b) \in Nat
  PROVE  /\ TpRounds(b)[0] = NoTps
         /\ \A i \in 0..(Len(b) - 1) : TpRounds(b)[i + 1] = DecodeTp(b, TpRounds(b)[i])
<1> DEFINE Ok(n, a) == a = [i \in 0..n |-> IF i = 0 THEN NoTps ELSE DecodeTp(b, a[i - 1])]
           S == {n \in Nat : \E a : Ok(n, a)}
<1>1. Ok(0, [k \in 0..0 |-> NoTps])
  OBVIOUS
<1>2. ASSUME NEW n \in Nat, NEW a, Ok(n, a) PROVE \E c : Ok(n + 1, c)
  <2> DEFINE c == [k \in 0..(n + 1) |-> IF k \in 0..n THEN a[k] ELSE DecodeTp(b, a[n])]
  <2>1. \A k \in 0..(n + 1) : c[k] = IF k = 0 THEN NoTps ELSE DecodeTp(b, c[k - 1])
    BY <1>2
  <2>2. Ok(n + 1, c)
    BY <2>1
  <2> HIDE DEF Ok
  <2> QED
    BY <2>2
<1> HIDE DEF Ok
<1>3. Len(b) \in S
  <2>1. 0 \in S /\ \A n \in Nat : n \in S => n + 1 \in S
    BY <1>1, <1>2
  <2> HIDE DEF S
  <2> QED
    BY <2>1, Induction
<1>4. \E a : Ok(Len(b), a)
  BY <1>3
<1>5. TpRounds(b) = [i \in 0..Len(b) |-> IF i = 0 THEN NoTps ELSE DecodeTp(b, TpRounds(b)[i - 1])]
  BY <1>4 DEF TpRounds, Rounds, Ok
<1> QED
  BY <1>5

\* The first j parameters of a block are accepted, each with those before it.
Takes(ps, j) ==
  \A k \in 1..j :
    /\ ~ProhibitedId(ps[k].id)
    /\ decode_tp_value(Format(ps[k].id), encode_tp_value(Format(ps[k].id), ps[k].value)).ok
    /\ \A l \in 1..(k - 1) : ps[l].id # ps[k].id

\* What the loop has after some rounds over the first n bytes of a block.
TookFirst(ps, n, i, s, j) ==
  /\ j <= i /\ TpEnd(ps, j) <= n /\ (j = i \/ TpEnd(ps, j) = n) /\ Takes(ps, j)
  /\ s = [pos |-> TpEnd(ps, j), out |-> SubSeq(ps, 1, j), ok |-> TRUE]

\* One round over the first n bytes: the next parameter, or an error with a reason.
LEMMA DecodeTpStep ==
  ASSUME NEW Fit, \A p \in Fit : TpFits(p), NEW ps \in Seq(Fit),
         NEW n \in 0..Len(encode_tps(ps)), NEW i \in Nat, NEW s,
         TookFirst(ps, n, i, s, i), TpEnd(ps, i) < n, i <= Len(ps)
  PROVE  /\ i < Len(ps)
         /\ \/ TookFirst(ps, n, i + 1, DecodeTp(SubSeq(encode_tps(ps), 1, n), s), i + 1)
            \/ /\ DecodeTp(SubSeq(encode_tps(ps), 1, n), s).ok = FALSE
               /\ n < Len(encode_tps(ps)) \/ ~Takes(ps, i + 1)
<1> DEFINE E == encode_tps(ps)
           b == SubSeq(E, 1, n)
           q == ps[i + 1]
           at == TpEnd(ps, i)
           t == TpFrom(b, at)
<1>0. Len(ps) \in Nat /\ E \in Seq(Byte) /\ Len(E) \in Nat /\ at \in Nat
      /\ TpEnd(ps, Len(ps)) = Len(E)
  BY BlockParts
<1>1. i < Len(ps)
  BY <1>0
<1>2. TpEnd(ps, i + 1) = at + Len(EncodeTp(q)) /\ At(E, at, EncodeTp(q))
  BY <1>0, <1>1, BlockParts
<1>3. TpFits(q) /\ q \in Fit
  BY <1>0, <1>1
<1>4. EncodeTp(q) \in Seq(Byte) /\ Len(EncodeTp(q)) \in Nat
  BY <1>3, TpBytes
<1>5. b \in Seq(Byte) /\ Len(b) = n /\ n \in Nat /\ Continues(E, b)
  BY <1>0 DEF Continues
<1>6. s = [pos |-> at, out |-> SubSeq(ps, 1, i), ok |-> TRUE] /\ Takes(ps, i)
  BY DEF TookFirst
<1> DEFINE refused == ~t.whole \/ SeenId(s, t.id) \/ ProhibitedId(t.id) \/ ~t.val.ok
<1>7. DecodeTp(b, s) = Took(s, t, refused)
  BY <1>0, <1>5, <1>6 DEF DecodeTp, TakeTp
<1> HIDE DEF E, b, at, t
<1>8. CASE n < at + Len(EncodeTp(q))
  <2>1. t.whole = FALSE
    BY <1>0, <1>2, <1>3, <1>5, <1>8, CutsTp DEF t
  <2>2. Took(s, t, refused) = [s EXCEPT !.ok = FALSE]
    BY <2>1 DEF Took
  <2>3. Took(s, t, refused).ok = FALSE
    BY <2>2, <1>6
  <2>4. n < Len(E)
    <3>1. at + Len(EncodeTp(q)) <= Len(E)
      BY <1>2 DEF At
    <3> QED
      BY <3>1, <1>0, <1>4, <1>5, <1>8
  <2> QED
    BY <2>3, <2>4, <1>1, <1>7 DEF E, b
<1>9. CASE at + Len(EncodeTp(q)) <= n
  <2> DEFINE v == decode_tp_value(Format(q.id), encode_tp_value(Format(q.id), q.value))
  <2>1. At(b, at, EncodeTp(q))
    <3>1. n \in 0..Len(E) /\ at \in Nat /\ E \in Seq(Byte) /\ EncodeTp(q) \in Seq(Byte)
          /\ At(E, at, EncodeTp(q))
      BY <1>0, <1>2, <1>4 DEF E
    <3> HIDE DEF q
    <3> QED
      BY <3>1, <1>9, AtCut DEF b
  <2>2. t = [whole |-> TRUE, id |-> q.id, pos |-> at + Len(EncodeTp(q)), val |-> v]
    BY <2>1, <1>0, <1>3, <1>5, ReadsTp DEF t
  <2>3. t.whole = TRUE /\ t.id = q.id /\ t.pos = at + Len(EncodeTp(q)) /\ t.val = v
    BY <2>2
  <2>4. SeenId(s, q.id) <=> \E l \in 1..i : ps[l].id = q.id
    <3>1. s.out = SubSeq(ps, 1, i)
      BY <1>6
    <3>2. ToSet(SubSeq(ps, 1, i)) = {ps[l] : l \in 1..i}
      <4>1. DOMAIN SubSeq(ps, 1, i) = 1..i /\ \A l \in 1..i : SubSeq(ps, 1, i)[l] = ps[l]
        BY <1>0, <1>1
      <4> QED
        BY <4>1 DEF ToSet
    <3> QED
      BY <3>1, <3>2 DEF SeenId
  <2> HIDE DEF q, v
  <2>5. refused <=> (SeenId(s, q.id) \/ ProhibitedId(q.id) \/ ~v.ok)
    BY <2>3
  <2>6. Takes(ps, i + 1) <=> ~(SeenId(s, q.id) \/ ProhibitedId(q.id) \/ ~v.ok)
    <3>1. Takes(ps, i + 1) <=> Takes(ps, i) /\ ~ProhibitedId(q.id) /\ v.ok
                               /\ \A l \in 1..i : ps[l].id # q.id
      <4>1. \A k \in 1..(i + 1) : k \in 1..i \/ k = i + 1
        OBVIOUS
      <4>2. i + 1 \in 1..(i + 1) /\ (i + 1) - 1 = i /\ \A k \in 1..i : k \in 1..(i + 1)
        OBVIOUS
      <4>3. ASSUME Takes(ps, i + 1) PROVE Takes(ps, i) /\ ~ProhibitedId(q.id) /\ v.ok
                               /\ \A l \in 1..i : ps[l].id # q.id
        <5>1. Takes(ps, i)
          BY <4>2, <4>3 DEF Takes
        <5>2. ~ProhibitedId(q.id) /\ v.ok /\ \A l \in 1..((i + 1) - 1) : ps[l].id # q.id
          BY <4>2, <4>3 DEF Takes, q, v
        <5> QED
          BY <5>1, <5>2, <4>2
      <4>4. ASSUME Takes(ps, i), ~ProhibitedId(q.id), v.ok, \A l \in 1..i : ps[l].id # q.id
            PROVE  Takes(ps, i + 1)
        <5> SUFFICES ASSUME NEW k \in 1..(i + 1)
            PROVE  /\ ~ProhibitedId(ps[k].id)
                   /\ decode_tp_value(Format(ps[k].id),
                                      encode_tp_value(Format(ps[k].id), ps[k].value)).ok
                   /\ \A l \in 1..(k - 1) : ps[l].id # ps[k].id
          BY DEF Takes
        <5>1. CASE k \in 1..i
          BY <5>1, <4>4 DEF Takes
        <5>2. CASE k = i + 1
          BY <5>2, <4>4, <4>2 DEF q, v
        <5> QED
          BY <5>1, <5>2, <4>1
      <4> QED
        BY <4>3, <4>4
    <3> QED
      BY <3>1, <2>4, <1>6
  <2>7. CASE refused
    <3>1. Took(s, t, refused) = [s EXCEPT !.ok = FALSE]
      BY <2>7 DEF Took
    <3>2. Took(s, t, refused).ok = FALSE
      BY <3>1, <1>6
    <3> QED
      BY <3>2, <2>5, <2>6, <2>7, <1>1, <1>7 DEF E, b
  <2>8. CASE ~refused
    <3>1. Took(s, t, refused) = [pos |-> t.pos, ok |-> TRUE,
                                 out |-> Append(s.out, [id |-> t.id, value |-> t.val.value])]
      BY <2>8 DEF Took
    <3>2. v.ok
      BY <2>5, <2>8
    <3>3. v.value = q.value
      BY <3>2, <1>3, ValueBack DEF v
    <3>4. [id |-> t.id, value |-> t.val.value] = q
      <4>1. q = [id |-> q.id, value |-> q.value]
        BY <1>3 DEF TpFits
      <4> QED
        BY <4>1, <3>3, <2>3
    <3>5. Append(s.out, q) = SubSeq(ps, 1, i + 1)
      <4>1. s.out = SubSeq(ps, 1, i)
        BY <1>6
      <4> QED
        BY <4>1, <1>0, <1>1 DEF q
    <3>6. Took(s, t, refused) = [pos |-> TpEnd(ps, i + 1), out |-> SubSeq(ps, 1, i + 1), ok |-> TRUE]
      BY <3>1, <3>4, <3>5, <2>3, <1>2
    <3>7. Takes(ps, i + 1)
      BY <2>5, <2>6, <2>8
    <3>8. TpEnd(ps, i + 1) <= n /\ i + 1 <= i + 1
      BY <1>2, <1>9 DEF q
    <3>9. TookFirst(ps, n, i + 1, Took(s, t, refused), i + 1)
      BY <3>6, <3>7, <3>8 DEF TookFirst
    <3> QED
      BY <3>9, <1>1, <1>7 DEF E, b
  <2> QED
    BY <2>7, <2>8
<1>10. n < at + Len(EncodeTp(q)) \/ at + Len(EncodeTp(q)) <= n
  BY <1>0, <1>4, <1>5
<1> QED
  BY <1>8, <1>9, <1>10

\* The whole loop over the first n bytes of a block: refused, or the first n bytes are some
\* of its parameters.
LEMMA TpLoop ==
  ASSUME NEW Fit, \A p \in Fit : TpFits(p), NEW ps \in Seq(Fit),
         NEW n \in 0..Len(encode_tps(ps)), NEW s,
         s = TpRounds(SubSeq(encode_tps(ps), 1, n))[n]
  PROVE  \/ \E j \in 0..Len(ps) :
              /\ TpEnd(ps, j) = n /\ Takes(ps, j)
              /\ s = [pos |-> n, out |-> SubSeq(ps, 1, j), ok |-> TRUE]
         \/ s.ok = FALSE /\ (n < Len(encode_tps(ps)) \/ ~Takes(ps, Len(ps)))
<1> DEFINE E == encode_tps(ps)
           b == SubSeq(E, 1, n)
           T == TpRounds(b)
           Refused(i) == T[i].ok = FALSE /\ (n < Len(E) \/ ~Takes(ps, Len(ps)))
           S == {i \in Nat : Refused(i) \/ \E j \in 0..Len(ps) : TookFirst(ps, n, i, T[i], j)}
<1>0. Len(ps) \in Nat /\ E \in Seq(Byte) /\ Len(E) \in Nat /\ TpEnd(ps, 0) = 0
  BY BlockParts
<1>1. b \in Seq(Byte) /\ Len(b) = n /\ n \in Nat
  BY <1>0
<1>2. T[0] = NoTps /\ \A i \in 0..(n - 1) : T[i + 1] = DecodeTp(b, T[i])
  BY <1>1, TpRoundsAre
<1>3. 0 \in S
  <2>1. SubSeq(ps, 1, 0) = <<>>
    OBVIOUS
  <2>2. Takes(ps, 0)
    BY DEF Takes
  <2>3. T[0] = [pos |-> TpEnd(ps, 0), out |-> SubSeq(ps, 1, 0), ok |-> TRUE]
    BY <2>1, <1>0, <1>2 DEF NoTps
  <2> HIDE DEF T
  <2>4. TookFirst(ps, n, 0, T[0], 0)
    BY <2>2, <2>3, <1>0, <1>1 DEF TookFirst
  <2>5. 0 \in 0..Len(ps)
    BY <1>0
  <2> QED
    BY <2>4, <2>5
<1>4. ASSUME NEW i \in 0..(n - 1), i \in S PROVE i + 1 \in S
  <2>0. i \in Nat /\ i + 1 \in Nat /\ T[i + 1] = DecodeTp(b, T[i])
    BY <1>1, <1>2
  <2> HIDE DEF T
  <2>1. CASE Refused(i)
    <3>1. T[i].ok = FALSE
      BY <2>1
    <3>2. DecodeTp(b, T[i]) = T[i]
      BY <3>1 DEF DecodeTp
    <3> QED
      BY <2>0, <2>1, <3>2
  <2>2. CASE \E j \in 0..Len(ps) : TookFirst(ps, n, i, T[i], j)
    <3>1. PICK j \in 0..Len(ps) : TookFirst(ps, n, i, T[i], j)
      BY <2>2
    <3>2. T[i] = [pos |-> TpEnd(ps, j), out |-> SubSeq(ps, 1, j), ok |-> TRUE]
          /\ j <= i /\ TpEnd(ps, j) <= n /\ (j = i \/ TpEnd(ps, j) = n) /\ Takes(ps, j)
          /\ TpEnd(ps, j) \in Nat
      <4>1. TpEnd(ps, j) \in Nat
        BY <1>0, BlockParts
      <4> QED
        BY <3>1, <4>1 DEF TookFirst
    <3>3. CASE TpEnd(ps, j) = n
      <4>1. T[i].pos = n /\ T[i].ok = TRUE
        BY <3>2, <3>3
      <4>2. DecodeTp(b, T[i]) = T[i]
        BY <4>1, <1>1 DEF DecodeTp
      <4>3. TookFirst(ps, n, i + 1, T[i + 1], j)
        BY <4>2, <3>2, <3>3, <2>0 DEF TookFirst
      <4> QED
        BY <4>3, <2>0
    <3>4. CASE TpEnd(ps, j) # n
      <4>1. j = i /\ TpEnd(ps, i) < n /\ i <= Len(ps) /\ TookFirst(ps, n, i, T[i], i)
        BY <3>1, <3>2, <3>4, <1>1
      <4>2. /\ i < Len(ps)
            /\ \/ TookFirst(ps, n, i + 1, T[i + 1], i + 1)
               \/ T[i + 1].ok = FALSE /\ (n < Len(E) \/ ~Takes(ps, i + 1))
        <5>1. /\ i < Len(ps)
              /\ \/ TookFirst(ps, n, i + 1, DecodeTp(b, T[i]), i + 1)
                 \/ /\ DecodeTp(b, T[i]).ok = FALSE
                    /\ n < Len(E) \/ ~Takes(ps, i + 1)
          BY <4>1, <2>0, DecodeTpStep
        <5> QED
          BY <5>1, <2>0
      <4>3. ~Takes(ps, i + 1) => ~Takes(ps, Len(ps))
        <5>1. \A k \in 1..(i + 1) : k \in 1..Len(ps)
          BY <4>2, <2>0, <1>0
        <5> QED
          BY <5>1 DEF Takes
      <4>4. i + 1 \in 0..Len(ps)
        BY <4>2, <2>0, <1>0
      <4> QED
        BY <4>2, <4>3, <4>4, <2>0
    <3> QED
      BY <3>3, <3>4
  <2> QED
    BY <2>1, <2>2, <1>4
<1>5. n \in S
  <2> HIDE DEF S
  <2>1. \A i \in 0..n : i \in S
    BY <1>1, <1>3, <1>4, InductionTo
  <2> QED
    BY <2>1, <1>1
<1>6. s = T[n]
  OBVIOUS
<1> HIDE DEF T
<1>7. CASE Refused(n)
  BY <1>6, <1>7
<1>8. CASE \E j \in 0..Len(ps) : TookFirst(ps, n, n, T[n], j)
  <2>1. PICK j \in 0..Len(ps) : TookFirst(ps, n, n, T[n], j)
    BY <1>8
  <2>2. j <= TpEnd(ps, j) /\ TpEnd(ps, j) \in Nat
    BY <1>0, BlockParts
  <2>3. TpEnd(ps, j) = n
    BY <2>1, <2>2, <1>1 DEF TookFirst
  <2>4. s = [pos |-> n, out |-> SubSeq(ps, 1, j), ok |-> TRUE] /\ Takes(ps, j)
    BY <2>1, <2>3, <1>6 DEF TookFirst
  <2> QED
    BY <2>3, <2>4
<1> QED
  BY <1>5, <1>7, <1>8

\* What decode_tps makes of a block, and of its beginnings.
LEMMA BlockBack ==
  ASSUME NEW Fit, \A p \in Fit : TpFits(p), NEW ps \in Seq(Fit)
  PROVE  /\ decode_tps(encode_tps(ps)).ok <=> Takes(ps, Len(ps)) /\ validate_tps(ps)
         /\ decode_tps(encode_tps(ps)).ok \in BOOLEAN
         /\ Takes(ps, Len(ps)) => decode_tps(encode_tps(ps)).params = ps
         /\ \A n \in 0..Len(encode_tps(ps)) :
              decode_tps(SubSeq(encode_tps(ps), 1, n)).ok =>
                \E j \in 0..Len(ps) : TpEnd(ps, j) = n
<1> DEFINE E == encode_tps(ps)
<1>0. Len(ps) \in Nat /\ E \in Seq(Byte) /\ Len(E) \in Nat /\ TpEnd(ps, Len(ps)) = Len(E)
  BY BlockParts
<1>1. SubSeq(E, 1, Len(E)) = E /\ SubSeq(ps, 1, Len(ps)) = ps
  BY <1>0
<1>2. ASSUME NEW j \in 0..Len(ps), TpEnd(ps, j) = Len(E) PROVE j = Len(ps)
  <2> SUFFICES ASSUME j # Len(ps) PROVE FALSE
    OBVIOUS
  <2>1. j \in 0..(Len(ps) - 1) /\ ps[j + 1] \in Fit
    BY <1>0
  <2>2. At(E, TpEnd(ps, j), EncodeTp(ps[j + 1]))
    BY <2>1, BlockParts
  <2>3. Len(EncodeTp(ps[j + 1])) \in Nat /\ Len(EncodeTp(ps[j + 1])) >= 2
    BY <2>1, TpBytes
  <2> QED
    BY <2>2, <2>3, <1>0, <1>2 DEF At
<1> DEFINE s == TpRounds(E)[Len(E)]
<1>3. \/ Takes(ps, Len(ps)) /\ s = [pos |-> Len(E), out |-> ps, ok |-> TRUE]
      \/ s.ok = FALSE /\ ~Takes(ps, Len(ps))
  <2>3. Len(E) \in 0..Len(E)
    BY <1>0
  <2>1. s = TpRounds(SubSeq(E, 1, Len(E)))[Len(E)]
    BY <1>1, Zenon
  <2> HIDE DEF s
  <2>2. \/ \E j \in 0..Len(ps) :
             /\ TpEnd(ps, j) = Len(E) /\ Takes(ps, j)
             /\ s = [pos |-> Len(E), out |-> SubSeq(ps, 1, j), ok |-> TRUE]
        \/ s.ok = FALSE /\ (Len(E) < Len(E) \/ ~Takes(ps, Len(ps)))
    BY <2>1, <2>3, TpLoop
  <2>4. ASSUME NEW j \in 0..Len(ps), TpEnd(ps, j) = Len(E), Takes(ps, j),
               s = [pos |-> Len(E), out |-> SubSeq(ps, 1, j), ok |-> TRUE]
        PROVE  Takes(ps, Len(ps)) /\ s = [pos |-> Len(E), out |-> ps, ok |-> TRUE]
    <3>1. j = Len(ps)
      BY <2>4, <1>2
    <3> QED
      BY <3>1, <2>4, <1>1
  <2>5. ~(Len(E) < Len(E))
    BY <1>0
  <2> QED
    BY <2>2, <2>4, <2>5
<1>4. decode_tps(E) = Validated(s)
  BY DEF decode_tps
<1> HIDE DEF s
<1>5. decode_tps(E).ok = (s.ok /\ validate_tps(s.out)) /\ decode_tps(E).params = s.out
  BY <1>4 DEF Validated
<1>6. Takes(ps, Len(ps)) => s.ok /\ s.out = ps
  BY <1>3
<1>7. ~Takes(ps, Len(ps)) => ~s.ok
  BY <1>3
<1>8. ASSUME NEW n \in 0..Len(E), decode_tps(SubSeq(E, 1, n)).ok
      PROVE  \E j \in 0..Len(ps) : TpEnd(ps, j) = n
  <2> DEFINE b == SubSeq(E, 1, n)
             r == TpRounds(b)[n]
  <2>1. Len(b) = n
    BY <1>0
  <2>2. decode_tps(b) = Validated(r)
    BY <2>1 DEF decode_tps
  <2>3. decode_tps(b).ok = (r.ok /\ validate_tps(r.out))
    BY <2>2 DEF Validated
  <2>4. r.ok
    BY <2>3, <1>8
  <2>5. \/ \E j \in 0..Len(ps) : TpEnd(ps, j) = n
        \/ r.ok = FALSE
    BY TpLoop
  <2> QED
    BY <2>4, <2>5
<1> QED
  BY <1>5, <1>6, <1>7, <1>8

\* Acceptable, one parameter after another.
LEMMA TakesIs ==
  ASSUME NEW S, NEW ps \in Seq(S)
  PROVE  Acceptable(ps) <=> Takes(ps, Len(ps)) /\ validate_tps(ps)
<1> DEFINE back == \A p \in ToSet(ps) :
                     /\ ~ProhibitedId(p.id)
                     /\ decode_tp_value(Format(p.id), encode_tp_value(Format(p.id), p.value)).ok
<1>0. DOMAIN ps = 1..Len(ps) /\ Len(ps) \in Nat
  OBVIOUS
<1>1. ToSet(ps) = {ps[k] : k \in 1..Len(ps)}
  BY <1>0 DEF ToSet
<1>2. back <=> \A k \in 1..Len(ps) :
        /\ ~ProhibitedId(ps[k].id)
        /\ decode_tp_value(Format(ps[k].id), encode_tp_value(Format(ps[k].id), ps[k].value)).ok
  BY <1>1
<1>3. Distinct(ps) <=> \A k \in 1..Len(ps) : \A l \in 1..(k - 1) : ps[l].id # ps[k].id
  <2>1. ASSUME Distinct(ps), NEW k \in 1..Len(ps), NEW l \in 1..(k - 1) PROVE ps[l].id # ps[k].id
    <3>1. l \in 1..Len(ps) /\ l # k
      BY <1>0
    <3> QED
      BY <3>1, <2>1, <1>0 DEF Distinct
  <2>2. ASSUME \A k \in 1..Len(ps) : \A l \in 1..(k - 1) : ps[l].id # ps[k].id,
               NEW i \in 1..Len(ps), NEW j \in 1..Len(ps), i # j
        PROVE  ps[i].id # ps[j].id
    <3>1. i \in 1..(j - 1) \/ j \in 1..(i - 1)
      BY <1>0, <2>2
    <3> QED
      BY <3>1, <2>2
  <2> QED
    BY <2>1, <2>2, <1>0 DEF Distinct
<1>4. Acceptable(ps) <=> Distinct(ps) /\ validate_tps(ps) /\ back
  BY DEF Acceptable
<1> HIDE DEF back
<1> QED
  BY <1>2, <1>3, <1>4 DEF Takes

\* What decode_tps makes of a block, and of its beginnings, in the words of the model.
LEMMA BlockIsBack ==
  ASSUME NEW Fit, \A p \in Fit : TpFits(p), NEW ps \in Seq(Fit)
  PROVE  /\ decode_tps(encode_tps(ps)).ok = Acceptable(ps)
         /\ Acceptable(ps) => decode_tps(encode_tps(ps)).params = ps
<1> DEFINE d == decode_tps(encode_tps(ps))
<1>1. /\ d.ok <=> Takes(ps, Len(ps)) /\ validate_tps(ps)
      /\ d.ok \in BOOLEAN
      /\ Takes(ps, Len(ps)) => d.params = ps
  BY BlockBack
<1>2. Acceptable(ps) <=> Takes(ps, Len(ps)) /\ validate_tps(ps)
  BY TakesIs
<1>3. Acceptable(ps) \in BOOLEAN
  BY DEF Acceptable
<1> HIDE DEF d
<1>4. d.ok = Acceptable(ps)
  BY <1>1, <1>2, <1>3
<1>5. Acceptable(ps) => d.params = ps
  BY <1>1, <1>2
<1> QED
  BY <1>4, <1>5 DEF d

\* Hence the property of any block.
LEMMA BlockHolds ==
  ASSUME block \in Seq(Params)
  PROVE  DecodesBack
<1> DEFINE bytes == encode_tps(block)
           d == decode_tps(bytes)
           ends == {Len(encode_tps(SubSeq(block, 1, i))) : i \in 0..Len(block)}
<1>1. d.ok = Acceptable(block) /\ (Acceptable(block) => d.params = block)
  BY ParamsAssumption, BlockIsBack
<1>2. d.ok => d.params = block
  BY <1>1
<1>3. \A n \in 0..Len(bytes) :
        decode_tps(SubSeq(bytes, 1, n)).ok => \E j \in 0..Len(block) : TpEnd(block, j) = n
  BY ParamsAssumption, BlockBack
<1>4. \A n \in 0..Len(bytes) : decode_tps(SubSeq(bytes, 1, n)).ok => n \in ends
  BY <1>3 DEF TpEnd
<1> HIDE DEF d, ends, bytes
<1> QED
  BY <1>1, <1>2, <1>4 DEF DecodesBack, d, ends, bytes

(* A parameter block decodes to what was encoded, if it is acceptable as a    *)
(* whole; cut short, it is never taken for a whole one.                       *)
THEOREM BlocksDecodeBack == BlockSpec => []DecodesBack
<1>1. BlockInit => block \in Seq(Params)
  BY DEF BlockInit
<1>2. block \in Seq(Params) /\ [BlockNext]_block => (block \in Seq(Params))'
  BY DEF BlockNext, Add
<1> QED
  BY <1>1, <1>2, BlockHolds, PTL DEF BlockSpec

-----------------------------------------------------------------------------
(* One field. *)

\* Inside a frame, without an error.
Here(at, s) == [pos |-> at, f |-> s, err |-> OK]

\* The steps of a decoder that change it.
Moved(p, z, y) == [p EXCEPT !.pos = z, !.f = Append(@, y)]
WithFields(p, y) == [p EXCEPT !.f = y]
WithPos(p, z) == [p EXCEPT !.pos = z]
WithLast(s, y) == [s EXCEPT ![Len(s)] = y]
WithLastField(p, y) == [p EXCEPT !.f[Len(p.f)] = y]

\* Each of them leaves a decoder that is here without an error.
LEMMA HereIs ==
  ASSUME NEW at, NEW s
  PROVE  /\ Here(at, s).pos = at /\ Here(at, s).f = s /\ Here(at, s).err = OK
         /\ \A y : WithFields(Here(at, s), y) = Here(at, y)
         /\ \A z : WithPos(Here(at, s), z) = Here(z, s)
         /\ \A z, y : Moved(Here(at, s), z, y) = Here(z, Append(s, y))
<1>1. Here(at, s).pos = at /\ Here(at, s).f = s /\ Here(at, s).err = OK
  BY DEF Here
<1>2. \A a, b, x : WithFields(Here(a, b), x) = Here(a, x)
  BY DEF Here, WithFields
<1>3. \A z : WithPos(Here(at, s), z) = Here(z, s)
  BY DEF Here, WithPos
<1>4. ASSUME NEW z, NEW y PROVE Moved(Here(at, s), z, y) = Here(z, Append(s, y))
  <2>1. Moved(Here(at, s), z, y) = [Here(at, s) EXCEPT !.pos = z, !.f = Append(Here(at, s).f, y)]
    BY DEF Moved
  <2> DEFINE x == Append(s, y)
  <2>2. Append(Here(at, s).f, y) = x
    BY <1>1
  <2> HIDE DEF x
  <2>3. Moved(Here(at, s), z, y) = [Here(at, s) EXCEPT !.pos = z, !.f = x]
    BY <2>1, <2>2
  <2>4. [Here(at, s) EXCEPT !.pos = z, !.f = x] = WithFields(WithPos(Here(at, s), z), x)
    BY DEF WithFields, WithPos
  <2>5. WithFields(WithPos(Here(at, s), z), x) = Here(z, x)
    BY <1>2, <1>3
  <2> QED
    BY <2>3, <2>4, <2>5 DEF x
<1> QED
  BY <1>1, <1>2, <1>3, <1>4

\* One more field, which is then the last.
LEMMA Appended ==
  ASSUME NEW X, NEW s \in Seq(X), NEW x
  PROVE  /\ Append(s, x) \in Seq(X \cup {x}) /\ Len(Append(s, x)) = Len(s) + 1
         /\ Append(s, x)[Len(s) + 1] = x
         /\ Last(Append(s, x)) = x
         /\ \A y : WithLast(Append(s, x), y) = Append(s, y)
<1> DEFINE n == Len(s)
<1>0. s \in Seq(X \cup {x}) /\ n \in Nat
  BY SeqMonotonic
<1>1. /\ Append(s, x) \in Seq(X \cup {x}) /\ Len(Append(s, x)) = n + 1
      /\ Append(s, x)[n + 1] = x
  BY <1>0
<1>2. Last(Append(s, x)) = x
  BY <1>1 DEF Last
<1>3. ASSUME NEW y PROVE WithLast(Append(s, x), y) = Append(s, y)
  <2> DEFINE Z == X \cup {x} \cup {y}
  <2>3. s \in Seq(Z) /\ x \in Z /\ y \in Z
    BY SeqMonotonic
  <2> HIDE DEF Z
  <2> DEFINE a == Append(s, x)
             b == Append(s, y)
             e == [a EXCEPT ![n + 1] = y]
  <2>4. /\ a \in Seq(Z) /\ Len(a) = n + 1
        /\ \A i \in 1..n : a[i] = s[i]
    BY <2>3
  <2>5. /\ b \in Seq(Z) /\ Len(b) = n + 1 /\ b[n + 1] = y
        /\ \A i \in 1..n : b[i] = s[i]
    BY <2>3
  <2> HIDE DEF a, b
  <2>6. a = [i \in 1..(n + 1) |-> a[i]]
    BY <1>0, <2>4
  <2>9. b = [i \in 1..(n + 1) |-> b[i]]
    BY <1>0, <2>5
  <2>7. \A i \in 1..(n + 1) : b[i] = IF i = n + 1 THEN y ELSE a[i]
    BY <1>0, <2>4, <2>5
  <2> HIDE DEF n
  <2>8. e = b
    <3>1. n + 1 \in 1..(n + 1)
      BY <1>0
    <3>2. e = [i \in 1..(n + 1) |-> IF i = n + 1 THEN y ELSE a[i]]
      BY <2>6, <3>1
    <3> QED
      BY <2>9, <2>7, <3>2
  <2> QED
    BY <2>4, <2>8 DEF WithLast, a, b
<1> QED
  BY <1>1, <1>2, <1>3

\* The last field replaced.
LEMMA Replaced ==
  ASSUME NEW at, NEW X, NEW s \in Seq(X), NEW x, NEW y
  PROVE  WithLastField(Here(at, Append(s, x)), y) = Here(at, Append(s, y))
<1> DEFINE f == Append(s, x)
           q == Here(at, f)
<1>1. q.f = f
  BY HereIs
<1>2. WithLast(f, y) = Append(s, y)
  BY Appended
<1>3. WithFields(q, WithLast(f, y)) = Here(at, WithLast(f, y))
  BY HereIs
<1> HIDE DEF q, f
<1>4. WithLastField(q, y) = WithFields(q, WithLast(q.f, y))
  BY DEF WithLastField, WithFields, WithLast
<1> QED
  BY <1>1, <1>2, <1>3, <1>4 DEF q, f

\* A varint.
LEMMA TakesVarint ==
  ASSUME NEW b \in Seq(Byte), NEW at \in Nat, NEW s, NEW v \in 0..MAX_VARINT, At(b, at, V(v))
  PROVE  TakeVarint(b, Here(at, s)) = Here(at + Len(V(v)), Append(s, v))
<1> DEFINE p == Here(at, s)
           d == decode_varint(b, at)
<1>1. p.pos = at /\ p.err = OK
  BY HereIs
<1>2. d = [ok |-> TRUE, pos |-> at + Len(V(v)), width |-> Len(V(v)), val |-> v]
  BY ReadsV
<1>3. TakeVarint(b, p) = Push(p, d)
  BY <1>1 DEF TakeVarint
<1>4. d.ok /\ d.pos = at + Len(V(v)) /\ d.val = v
  BY <1>2
<1>5. Moved(p, d.pos, d.val) = Here(d.pos, Append(s, d.val))
  BY HereIs
<1> HIDE DEF p, d
<1>6. Push(p, d) = Moved(p, d.pos, d.val)
  <2>1. ~(p.err # OK) /\ ~(p.err = OK /\ ~d.ok)
    BY <1>1, <1>4
  <2> QED
    BY <2>1 DEF Push, Moved
<1> QED
  BY <1>3, <1>4, <1>5, <1>6 DEF p

\* Bytes of a known number.
LEMMA TakesBytes ==
  ASSUME NEW b \in Seq(Byte), NEW at \in Nat, NEW s, NEW x \in Seq(Byte), At(b, at, x)
  PROVE  TakeBytes(b, Here(at, s), Len(x)) = Here(at + Len(x), Append(s, x))
<1> DEFINE p == Here(at, s)
<1>1. p.pos = at /\ p.err = OK
  BY HereIs
<1>2. ~(at + Len(x) > Len(b))
  BY DEF At
<1>3. SubSeq(b, at + 1, at + Len(x)) = x
  BY AtIs
<1>4. Moved(p, at + Len(x), x) = Here(at + Len(x), Append(s, x))
  BY HereIs
<1> HIDE DEF p
<1>5. TakeBytes(b, p, Len(x)) = Moved(p, at + Len(x), x)
  BY <1>1, <1>2, <1>3 DEF TakeBytes, Moved
<1> QED
  BY <1>4, <1>5 DEF p

\* Bytes behind their length.
LEMMA TakesSized ==
  ASSUME NEW b \in Seq(Byte), NEW at \in Nat, NEW X, NEW s \in Seq(X),
         NEW x \in Seq(Byte), Len(x) <= MAX_VARINT, At(b, at, V(Len(x)) \o x)
  PROVE  TakeSized(b, Here(at, s)) = Here(at + Len(V(Len(x)) \o x), Append(s, x))
<1> DEFINE l == V(Len(x))
           p == Here(at, s)
           q == TakeVarint(b, p)
           at2 == at + Len(l)
<1>1. Len(x) \in 0..MAX_VARINT /\ Len(x) \in Nat
  OBVIOUS
<1>2. l \in Seq(Byte) /\ Len(l) \in Nat
  BY <1>1, EncodedIs
<1>3. q = Here(at2, Append(s, Len(x)))
  <2>1. At(b, at, l)
    BY <1>2, AtParts
  <2> QED
    BY <2>1, <1>1, TakesVarint
<1>4. At(b, at2, x) /\ at2 \in Nat
  BY <1>2, AtParts
<1>5. at + Len(l \o x) = at2 + Len(x)
  BY <1>1, <1>2
<1>6. TakeSized(b, p) = AfterSize(b, p, q)
  BY DEF TakeSized
<1> HIDE DEF l, q, at2
<1>7. q.err = OK /\ q.f = Append(s, Len(x)) /\ WithFields(q, s) = Here(at2, s)
  <2>1. q.err = OK /\ q.f = Append(s, Len(x))
    BY <1>3 DEF Here
  <2>2. \A f : WithFields(Here(at2, f), s) = Here(at2, s)
    BY HereIs
  <2> QED
    BY <1>3, <2>1, <2>2
<1>8. Last(q.f) = Len(x)
  <2> DEFINE n == Len(x)
  <2> HIDE DEF n
  <2>1. Last(Append(s, n)) = n
    BY Appended
  <2> QED
    BY <1>7, <2>1 DEF n
<1>9. p.f = s
  BY HereIs
<1> HIDE DEF p
<1>10. AfterSize(b, p, q) = TakeBytes(b, WithFields(q, s), Len(x))
  BY <1>7, <1>8, <1>9 DEF AfterSize, WithFields
<1>11. TakeBytes(b, Here(at2, s), Len(x)) = Here(at2 + Len(x), Append(s, x))
  BY <1>4, TakesBytes
<1> QED
  BY <1>5, <1>6, <1>7, <1>10, <1>11 DEF l, p

\* A single byte.
LEMMA TakesByte ==
  ASSUME NEW b \in Seq(Byte), NEW at \in Nat, NEW X, NEW s \in Seq(X),
         NEW x \in Byte, At(b, at, <<x>>)
  PROVE  AsByte(TakeBytes(b, Here(at, s), 1)) = Here(at + 1, Append(s, x))
<1> DEFINE y == <<x>>
           q == Here(at + 1, Append(s, y))
<1>1. y \in Seq(Byte) /\ Len(y) = 1 /\ Head(y) = x
  OBVIOUS
<1> HIDE DEF y
<1>2. TakeBytes(b, Here(at, s), 1) = q
  <2>1. TakeBytes(b, Here(at, s), Len(y)) = Here(at + Len(y), Append(s, y))
    BY <1>1, TakesBytes DEF y
  <2> QED
    BY <2>1, <1>1
<1>3. Len(Append(s, y)) = Len(s) + 1 /\ Append(s, y)[Len(s) + 1] = y
  BY Appended
<1>4. q.err = OK /\ q.f = Append(s, y)
  BY DEF Here
<1>5. WithLastField(q, x) = Here(at + 1, Append(s, x))
  BY Replaced
<1> HIDE DEF q
<1>6. AsByte(q) = WithLastField(q, Head(q.f[Len(q.f)]))
  BY <1>4 DEF AsByte, WithLastField
<1>7. Head(q.f[Len(q.f)]) = x
  BY <1>1, <1>3, <1>4
<1> QED
  BY <1>2, <1>5, <1>6, <1>7, Zenon

\* A block of parameters behind its length.
LEMMA TakesParams ==
  ASSUME NEW b \in Seq(Byte), NEW at \in Nat, NEW X, NEW s \in Seq(X),
         NEW x, ParamsFit(x), At(b, at, V(Len(encode_tps(x))) \o encode_tps(x))
  PROVE  DecodeParams(TakeSized(b, Here(at, s)))
           = Here(at + Len(V(Len(encode_tps(x))) \o encode_tps(x)), Append(s, x))
<1> DEFINE y == encode_tps(x)
           Fit == {x[i] : i \in 1..Len(x)}
           at2 == at + Len(V(Len(y)) \o y)
           q == Here(at2, Append(s, y))
<1>1. x \in Seq(Fit) /\ \A p \in Fit : TpFits(p)
  BY SMTT(20) DEF ParamsFit
<1> HIDE DEF Fit
<1>2. y \in Seq(Byte) /\ Len(y) <= MAX_VARINT
  BY <1>1, BlockParts DEF ParamsFit
<1>3. decode_tps(y).ok = Acceptable(x) /\ (Acceptable(x) => decode_tps(y).params = x)
  BY <1>1, BlockIsBack
<1>4. decode_tps(y).ok /\ decode_tps(y).params = x
  BY <1>3 DEF ParamsFit
<1> HIDE DEF y
<1>5. TakeSized(b, Here(at, s)) = q
  BY <1>2, TakesSized DEF y
<1>6. Last(Append(s, y)) = y
  BY Appended
<1> HIDE DEF at2
<1>7. q.err = OK /\ q.f = Append(s, y)
  BY DEF Here
<1>8. WithLastField(q, x) = Here(at2, Append(s, x))
  BY Replaced
<1> HIDE DEF q
<1>9. DecodeParams(q) = AsParams(q, decode_tps(y))
  BY <1>6, <1>7 DEF DecodeParams
<1>10. AsParams(q, decode_tps(y)) = WithLastField(q, x)
  BY <1>4, <1>7 DEF AsParams, WithLastField
<1> QED
  BY <1>5, <1>8, <1>9, <1>10 DEF at2, y

-----------------------------------------------------------------------------
(* Parts one behind the other. *)

\* Two sequences put together.
LEMMA Joined ==
  ASSUME NEW S, NEW a \in Seq(S), NEW c \in Seq(S)
  PROVE  a \o c \in Seq(S) /\ Len(a \o c) = Len(a) + Len(c)
  OBVIOUS

\* Where the first i parts end.
PartEnd(ss, i) == Len(FlattenSeq(SubSeq(ss, 1, i)))

\* Each part stands where the ones before it end.
LEMMA Parts ==
  ASSUME NEW ss \in Seq(Seq(Byte))
  PROVE  /\ FlattenSeq(ss) \in Seq(Byte)
         /\ PartEnd(ss, 0) = 0 /\ PartEnd(ss, Len(ss)) = Len(FlattenSeq(ss))
         /\ \A i \in 0..Len(ss) : PartEnd(ss, i) \in 0..Len(FlattenSeq(ss))
         /\ \A i \in 0..(Len(ss) - 1) :
              /\ PartEnd(ss, i + 1) = PartEnd(ss, i) + Len(ss[i + 1])
              /\ At(FlattenSeq(ss), PartEnd(ss, i), ss[i + 1])
<1> DEFINE F == FlattenSeq(ss)
           D(i) == FlattenSeq(SubSeq(ss, 1, i))
<1>0. Len(ss) \in Nat
  OBVIOUS
<1>1. /\ F \in Seq(Byte) /\ D(0) = <<>> /\ D(Len(ss)) = F
      /\ \A i \in 0..Len(ss) : D(i) \in Seq(Byte) /\ Continues(F, D(i))
      /\ \A i \in 0..(Len(ss) - 1) : D(i + 1) = D(i) \o ss[i + 1] /\ At(F, Len(D(i)), ss[i + 1])
  BY Flattened
<1>2. \A i : PartEnd(ss, i) = Len(D(i))
  BY DEF PartEnd
<1> HIDE DEF D, F
<1>3. Len(D(0)) = 0 /\ Len(D(Len(ss))) = Len(F)
  BY <1>1
<1>4. ASSUME NEW i \in 0..Len(ss) PROVE Len(D(i)) \in 0..Len(F)
  <2>1. Len(D(i)) \in Nat /\ Len(F) \in Nat /\ Len(D(i)) <= Len(F)
    BY <1>1 DEF Continues
  <2> QED
    BY <2>1
<1>5. ASSUME NEW i \in 0..(Len(ss) - 1) PROVE Len(D(i + 1)) = Len(D(i)) + Len(ss[i + 1])
  <2>1. i \in 0..Len(ss) /\ i + 1 \in 1..Len(ss)
    BY <1>0
  <2>2. D(i) \in Seq(Byte) /\ ss[i + 1] \in Seq(Byte) /\ D(i + 1) = D(i) \o ss[i + 1]
    BY <1>1, <2>1
  <2> QED
    BY <2>2, Joined
<1> QED
  BY <1>1, <1>2, <1>3, <1>4, <1>5 DEF F

\* Parts that are not empty are no more than their bytes.
LEMMA PartsLong ==
  ASSUME NEW ss \in Seq(Seq(Byte)), \A i \in 1..Len(ss) : Len(ss[i]) >= 1
  PROVE  \A i \in 0..Len(ss) : i <= PartEnd(ss, i)
<1> DEFINE S == {i \in Nat : i <= PartEnd(ss, i)}
<1>0. Len(ss) \in Nat
  OBVIOUS
<1>1. 0 \in S
  BY Parts
<1>2. ASSUME NEW i \in 0..(Len(ss) - 1), i \in S PROVE i + 1 \in S
  <2>1. i + 1 \in 1..Len(ss) /\ ss[i + 1] \in Seq(Byte) /\ i \in 0..Len(ss)
    BY <1>0
  <2>2. PartEnd(ss, i + 1) = PartEnd(ss, i) + Len(ss[i + 1]) /\ PartEnd(ss, i) \in Nat
    BY <2>1, Parts
  <2>3. Len(ss[i + 1]) >= 1 /\ Len(ss[i + 1]) \in Nat
    BY <2>1
  <2> QED
    BY <1>2, <2>1, <2>2, <2>3
<1> HIDE DEF S
<1>3. \A i \in 0..Len(ss) : i \in S
  BY <1>0, <1>1, <1>2, InductionTo
<1> QED
  BY <1>3 DEF S

\* The parts stand where the whole stands.
LEMMA AtWhole ==
  ASSUME NEW b \in Seq(Byte), NEW at \in Nat, NEW F \in Seq(Byte), NEW k \in Nat,
         NEW s \in Seq(Byte), At(b, at, F), At(F, k, s)
  PROVE  At(b, at + k, s)
<1>0. Len(b) \in Nat /\ Len(F) \in Nat /\ Len(s) \in Nat
  OBVIOUS
<1>1. (at + k) + Len(s) <= Len(b)
  BY <1>0 DEF At
<1>2. ASSUME NEW i \in 1..Len(s) PROVE b[(at + k) + i] = s[i]
  <2>1. k + i \in 1..Len(F) /\ at + (k + i) = (at + k) + i
    BY <1>0 DEF At
  <2>2. F[k + i] = s[i]
    BY DEF At
  <2>3. b[at + (k + i)] = F[k + i]
    BY <2>1 DEF At
  <2> QED
    BY <2>1, <2>2, <2>3
<1> QED
  BY <1>1, <1>2 DEF At

-----------------------------------------------------------------------------
(* A locator. *)

\* A locator is read as it was written.
LEMMA TakesLoc ==
  ASSUME NEW b \in Seq(Byte), NEW at \in Nat, NEW s, NEW x \in Seq(Byte),
         Len(x) \in 1..MaxLocatorBytes, At(b, at, <<Len(x)>> \o x)
  PROVE  /\ TakeField(b, Here(at, s), "loc") = Here(at + Len(<<Len(x)>> \o x), Append(s, x))
         /\ <<Len(x)>> \o x \in Seq(Byte)
<1> DEFINE l == <<Len(x)>>
           p == Here(at, s)
           at2 == at + 1
<1>0. Len(x) \in Nat /\ Len(b) \in Nat
  OBVIOUS
<1>1. Len(x) \in Byte
  <2>1. MaxLocatorBytes \in Byte
    BY SizesAssumption
  <2> QED
    BY <2>1, Bases DEF Byte
<1>2. l \in Seq(Byte) /\ Len(l) = 1 /\ l[1] = Len(x)
  BY <1>1
<1> HIDE DEF l
<1>3. l \o x \in Seq(Byte) /\ Len(l \o x) = 1 + Len(x)
  BY <1>2, Joined
<1>4. At(b, at, l) /\ At(b, at2, x) /\ at2 \in Nat
  <2>1. At(b, at, l \o x)
    BY DEF l
  <2>2. At(b, at, l) /\ At(b, at + Len(l), x)
    BY <1>2, <2>1, AtParts
  <2> QED
    BY <1>2, <2>2
<1>5. b[at + 1] = Len(x) /\ at < Len(b)
  BY <1>0, <1>2, <1>4 DEF At
<1>6. p.pos = at /\ p.err = OK
  BY HereIs
<1>7. WithPos(p, at2) = Here(at2, s)
  BY HereIs
<1> HIDE DEF p
<1>8. WithPos(p, at2) = [p EXCEPT !.pos = @ + 1]
  BY <1>6 DEF WithPos
<1>9. TakeField(b, p, "loc") = TakeBytes(b, WithPos(p, at2), Len(x))
  <2>1. ~(p.pos >= Len(b) \/ b[p.pos + 1] \notin 1..MaxLocatorBytes) /\ b[p.pos + 1] = Len(x)
    BY <1>0, <1>5, <1>6
  <2>2. TakeField(b, p, "loc") =
          IF p.pos >= Len(b) \/ b[p.pos + 1] \notin 1..MaxLocatorBytes
          THEN FailWith(p, FE)
          ELSE TakeBytes(b, [p EXCEPT !.pos = @ + 1], b[p.pos + 1])
    BY <1>6 DEF TakeField
  <2> QED
    BY <1>8, <2>1, <2>2
<1> HIDE DEF at2
<1>10. TakeBytes(b, Here(at2, s), Len(x)) = Here(at2 + Len(x), Append(s, x))
  BY <1>4, TakesBytes
<1>11. at2 + Len(x) = at + Len(l \o x)
  BY <1>0, <1>3 DEF at2
<1> QED
  BY <1>3, <1>7, <1>9, <1>10, <1>11 DEF l, p

-----------------------------------------------------------------------------
(* Entries of a PIPE_ACK. *)

EntryFits(e) == e \in Seq(0..MAX_VARINT) /\ Len(e) = 4

\* A varint has at least one byte.
LEMMA EncodedLong ==
  ASSUME NEW v \in 0..MAX_VARINT
  PROVE  V(v) \in Seq(Byte) /\ Len(V(v)) \in Nat /\ Len(V(v)) >= 1
<1>1. Len(V(v)) = varint_len(v) /\ varint_len(v) \in Widths /\ V(v) \in Seq(Byte)
  BY EncodedIs, LengthIs
<1> DEFINE n == Len(V(v))
<1> HIDE DEF n
<1>2. n \in Widths
  BY <1>1 DEF n
<1>3. n \in Nat /\ n >= 1
  BY <1>2 DEF Widths
<1> QED
  BY <1>1, <1>3 DEF n

\* The bytes of an entry.
LEMMA EntryBytes ==
  ASSUME NEW e, EntryFits(e)
  PROVE  /\ EncodeEntry(e) \in Seq(Byte) /\ Len(EncodeEntry(e)) >= 1
         /\ \A i \in 1..4 : e[i] \in 0..MAX_VARINT /\ V(e[i]) \in Seq(Byte)
<1>1. \A i \in 1..4 : e[i] \in 0..MAX_VARINT
  <2> DEFINE X == 0..MAX_VARINT
  <2>1. e \in Seq(X) /\ Len(e) = 4
    BY DEF EntryFits
  <2> HIDE DEF X
  <2>2. \A i \in 1..Len(e) : e[i] \in X
    BY <2>1, ElementOfSeq
  <2>3. \A i \in 1..4 : e[i] \in X
    BY <2>1, <2>2
  <2> QED
    BY <2>3 DEF X
<1>2. \A i \in 1..4 : V(e[i]) \in Seq(Byte) /\ Len(V(e[i])) >= 1
  <2>1. \A v \in 0..MAX_VARINT : V(v) \in Seq(Byte) /\ Len(V(v)) >= 1
    BY EncodedLong
  <2> QED
    BY <1>1, <2>1, Zenon
<1> DEFINE a == V(e[1])
           b == V(e[2])
           c == V(e[3])
           d == V(e[4])
<1>3. a \in Seq(Byte) /\ b \in Seq(Byte) /\ c \in Seq(Byte) /\ d \in Seq(Byte)
  BY <1>2
<1>6. Len(a) >= 1
  BY <1>2
<1>4. EncodeEntry(e) = ((a \o b) \o c) \o d
  BY DEF EncodeEntry
<1> HIDE DEF a, b, c, d
<1>5. EncodeEntry(e) \in Seq(Byte) /\ Len(EncodeEntry(e)) >= 1
  <2> DEFINE s2 == a \o b
             s3 == s2 \o c
             t == s3 \o d
  <2>1. s2 \in Seq(Byte) /\ Len(s2) = Len(a) + Len(b) /\ Len(b) \in Nat
    BY <1>3, Joined
  <2> HIDE DEF s2
  <2>2. s3 \in Seq(Byte) /\ Len(s3) = Len(s2) + Len(c)
    BY <1>3, <2>1, Joined
  <2> HIDE DEF s3
  <2>3. t \in Seq(Byte) /\ Len(t) = Len(s3) + Len(d)
    BY <1>3, <2>2, Joined
  <2>5. Len(d) \in Nat /\ Len(s3) >= 1
    <3>1. Len(d) \in Nat /\ Len(c) \in Nat /\ Len(a) \in Nat /\ Len(a) >= 1
      <4>1. \A r \in Seq(Byte) : Len(r) \in Nat
        OBVIOUS
      <4>2. Len(d) \in Nat /\ Len(c) \in Nat /\ Len(a) \in Nat
        BY <1>3, <4>1, Zenon
      <4> QED
        BY <4>2, <1>6, Zenon
    <3>2. Len(s2) = Len(a) + Len(b) /\ Len(b) \in Nat
      BY <2>1
    <3>3. Len(s3) = Len(s2) + Len(c)
      BY <2>2
    <3>4. Len(s2) >= 1 /\ Len(s2) \in Nat
      BY <3>1, <3>2
    <3> QED
      BY <3>1, <3>3, <3>4
  <2> HIDE DEF t
  <2>4. EncodeEntry(e) = t
    BY <1>4 DEF t, s3, s2
  <2> QED
    <3>1. Len(t) >= 1
      <4>1. \A m, n \in Nat : m >= 1 => m + n >= 1
        OBVIOUS
      <4>2. Len(s3) \in Nat
        BY <2>2
      <4> QED
        BY <2>3, <2>5, <4>1, <4>2
    <3> QED
      BY <2>3, <2>4, <3>1
<1> QED
  BY <1>1, <1>2, <1>5

\* Four numbers one after another.
LEMMA FourAre ==
  ASSUME NEW X, NEW e \in Seq(X), Len(e) = 4
  PROVE  Append(Append(Append(Append(<<>>, e[1]), e[2]), e[3]), e[4]) = e
<1> DEFINE x1 == e[1]
           x2 == e[2]
           x3 == e[3]
           x4 == e[4]
           e1 == Append(<<>>, x1)
           e2 == Append(e1, x2)
           e3 == Append(e2, x3)
           e4 == Append(e3, x4)
<1>1. x1 \in X /\ x2 \in X /\ x3 \in X /\ x4 \in X
  <2>1. \A i \in 1..Len(e) : e[i] \in X
    BY ElementOfSeq
  <2> QED
    BY <2>1
<1> HIDE DEF x1, x2, x3, x4
<1>2. e1 \in Seq(X) /\ Len(e1) = 1 /\ e1[1] = x1
  BY <1>1
<1> HIDE DEF e1
<1>3. e2 \in Seq(X) /\ Len(e2) = 2 /\ e2[1] = x1 /\ e2[2] = x2
  <2>1. x2 \in X /\ e1 \in Seq(X)
    BY <1>1, <1>2
  <2>2. e2 \in Seq(X) /\ Len(e2) = Len(e1) + 1
    BY <2>1, AppendProperties
  <2>3. \A i \in 1..Len(e1) : e2[i] = e1[i]
    BY <2>1, AppendProperties
  <2>4. e2[Len(e1) + 1] = x2
    BY <2>1, AppendProperties
  <2> HIDE DEF e2
  <2> QED
    BY <1>2, <2>2, <2>3, <2>4
<1> HIDE DEF e2
<1>4. e3 \in Seq(X) /\ Len(e3) = 3 /\ e3[1] = x1 /\ e3[2] = x2 /\ e3[3] = x3
  <2>1. x3 \in X /\ e2 \in Seq(X)
    BY <1>1, <1>3
  <2>2. e3 \in Seq(X) /\ Len(e3) = Len(e2) + 1
    BY <2>1, AppendProperties
  <2>3. \A i \in 1..Len(e2) : e3[i] = e2[i]
    BY <2>1, AppendProperties
  <2>4. e3[Len(e2) + 1] = x3
    BY <2>1, AppendProperties
  <2> HIDE DEF e3
  <2> QED
    BY <1>3, <2>2, <2>3, <2>4
<1> HIDE DEF e3
<1>5. e4 \in Seq(X) /\ Len(e4) = 4 /\ e4[1] = x1 /\ e4[2] = x2 /\ e4[3] = x3 /\ e4[4] = x4
  <2>1. x4 \in X /\ e3 \in Seq(X)
    BY <1>1, <1>4
  <2>2. e4 \in Seq(X) /\ Len(e4) = Len(e3) + 1
    BY <2>1, AppendProperties
  <2>3. \A i \in 1..Len(e3) : e4[i] = e3[i]
    BY <2>1, AppendProperties
  <2>4. e4[Len(e3) + 1] = x4
    BY <2>1, AppendProperties
  <2> HIDE DEF e4
  <2> QED
    BY <1>4, <2>2, <2>3, <2>4
<1> HIDE DEF e4
<1>6. \A i \in 1..Len(e4) : e4[i] = e[i]
  BY <1>5 DEF x1, x2, x3, x4
<1>7. e4 = e
  BY <1>5, <1>6, SeqEqual
<1> QED
  BY <1>7 DEF e1, e2, e3, e4, x1, x2, x3, x4

\* An entry is read as it was written, behind one with a lower identifier.
LEMMA TakesEntry ==
  ASSUME NEW b \in Seq(Byte), NEW at \in Nat, NEW es, NEW e, EntryFits(e),
         At(b, at, EncodeEntry(e)), Increasing(es, e)
  PROVE  TakeEntry(b, Here(at, es)) = Here(at + Len(EncodeEntry(e)), Append(es, e))
<1> DEFINE v1 == V(e[1])
           v2 == V(e[2])
           v3 == V(e[3])
           v4 == V(e[4])
           at1 == at + Len(v1)
           at2 == at1 + Len(v2)
           at3 == at2 + Len(v3)
           at4 == at3 + Len(v4)
           p == Here(at, es)
           q == Here(at4, e)
<1>1. v1 \in Seq(Byte) /\ v2 \in Seq(Byte) /\ v3 \in Seq(Byte) /\ v4 \in Seq(Byte)
      /\ e[1] \in 0..MAX_VARINT /\ e[2] \in 0..MAX_VARINT /\ e[3] \in 0..MAX_VARINT
      /\ e[4] \in 0..MAX_VARINT
  BY EntryBytes
<1>2. EncodeEntry(e) = ((v1 \o v2) \o v3) \o v4
  BY DEF EncodeEntry
<1>3. /\ At(b, at, v1) /\ At(b, at1, v2) /\ At(b, at2, v3) /\ At(b, at3, v4)
      /\ at1 \in Nat /\ at2 \in Nat /\ at3 \in Nat /\ at4 = at + Len(EncodeEntry(e))
  <2> HIDE DEF v1, v2, v3, v4
  <2> DEFINE s2 == v1 \o v2
             s3 == s2 \o v3
  <2>1. s2 \in Seq(Byte) /\ Len(s2) = Len(v1) + Len(v2)
    BY <1>1
  <2> HIDE DEF s2
  <2>2. s3 \in Seq(Byte) /\ Len(s3) = Len(s2) + Len(v3)
    BY <1>1, <2>1, Joined
  <2> HIDE DEF s3
  <2>3. Len(v1) \in Nat /\ Len(v2) \in Nat /\ Len(v3) \in Nat /\ Len(v4) \in Nat
    BY <1>1
  <2>4. EncodeEntry(e) = s3 \o v4 /\ Len(s3 \o v4) = Len(s3) + Len(v4)
    BY <1>1, <1>2, <2>2 DEF s2, s3
  <2>9. At(b, at, s3 \o v4) /\ s3 \in Seq(Byte) /\ v4 \in Seq(Byte)
    BY <1>1, <2>2, <2>4
  <2>5. At(b, at, s3) /\ At(b, at + Len(s3), v4)
    BY <2>9, AtParts
  <2>6. At(b, at, s2) /\ At(b, at + Len(s2), v3)
    BY <1>1, <2>1, <2>5, AtParts DEF s3
  <2>7. At(b, at, v1) /\ At(b, at + Len(v1), v2)
    BY <1>1, <2>6, AtParts DEF s2
  <2>8. at + Len(s3) = at3 /\ at + Len(s2) = at2 /\ at4 = at + Len(EncodeEntry(e))
        /\ at1 \in Nat /\ at2 \in Nat /\ at3 \in Nat
    BY <2>1, <2>2, <2>3, <2>4
  <2> QED
    BY <2>5, <2>6, <2>7, <2>8
<1> HIDE DEF v1, v2, v3, v4
<1>4. WithFields(p, <<>>) = Here(at, <<>>)
  BY HereIs
<1> DEFINE x1 == e[1]
           x2 == e[2]
           x3 == e[3]
           x4 == e[4]
           e0 == <<>>
           e1 == Append(e0, x1)
           e2 == Append(e1, x2)
           e3 == Append(e2, x3)
           e4 == Append(e3, x4)
           q1 == TakeVarint(b, Here(at, e0))
           q2 == TakeVarint(b, q1)
           q3 == TakeVarint(b, q2)
           q4 == TakeVarint(b, q3)
<1>5. /\ x1 \in 0..MAX_VARINT /\ x2 \in 0..MAX_VARINT /\ x3 \in 0..MAX_VARINT /\ x4 \in 0..MAX_VARINT
      /\ v1 = V(x1) /\ v2 = V(x2) /\ v3 = V(x3) /\ v4 = V(x4)
  BY <1>1 DEF v1, v2, v3, v4
<1>9. e4 = e
  BY FourAre DEF EntryFits
<1>14. At(b, at, V(x1)) /\ At(b, at1, V(x2)) /\ At(b, at2, V(x3)) /\ At(b, at3, V(x4))
  BY <1>3, <1>5, Zenon
<1>15. at1 \in Nat /\ at2 \in Nat /\ at3 \in Nat
  BY <1>3
<1> HIDE DEF x1, x2, x3, x4, e0, e1, e2, e3, e4, at1, at2, at3, at4
<1>6. q1 = Here(at1, e1)
  <2>1. q1 = Here(at + Len(V(x1)), Append(e0, x1))
    BY <1>5, <1>14, <1>15, TakesVarint
  <2> QED
    BY <2>1, <1>5 DEF e1, at1
<1> HIDE DEF q1
<1>7. q2 = Here(at2, e2)
  <2>1. TakeVarint(b, Here(at1, e1)) = Here(at1 + Len(V(x2)), Append(e1, x2))
    BY <1>5, <1>14, <1>15, TakesVarint
  <2> QED
    BY <2>1, <1>5, <1>6 DEF e2, at2
<1> HIDE DEF q2
<1>8. q3 = Here(at3, e3)
  <2>1. TakeVarint(b, Here(at2, e2)) = Here(at2 + Len(V(x3)), Append(e2, x3))
    BY <1>5, <1>14, <1>15, TakesVarint
  <2> QED
    BY <2>1, <1>5, <1>7 DEF e3, at3
<1> HIDE DEF q3
<1>10. q4 = q
  <2>1. TakeVarint(b, Here(at3, e3)) = Here(at3 + Len(V(x4)), Append(e3, x4))
    BY <1>5, <1>14, <1>15, TakesVarint
  <2> QED
    BY <2>1, <1>5, <1>8, <1>9 DEF e4, at4
<1>11. TakeEntry(b, p) = AddEntry(p, q4)
  BY <1>4 DEF TakeEntry, WithFields, q1, q2, q3, e0
<1>12. p.f = es /\ q.f = e /\ q.err = OK
  BY DEF Here
<1>13. WithFields(q, Append(es, e)) = Here(at4, Append(es, e))
  BY HereIs
<1> HIDE DEF p, q, q4
<1>16. AddEntry(p, q) = WithFields(q, Append(es, e))
  BY <1>12 DEF AddEntry, WithFields
<1> QED
  BY <1>3, <1>10, <1>11, <1>13, <1>16 DEF p

\* The recursive definition of EntryRounds defines a function.
LEMMA EntryRoundsAre ==
  ASSUME NEW b, NEW q, NEW n \in Nat
  PROVE  /\ EntryRounds(b, q, n)[0] = WithFields(q, <<>>)
         /\ \A i \in 0..(n - 1) : EntryRounds(b, q, n)[i + 1] = TakeEntry(b, EntryRounds(b, q, n)[i])
<1> DEFINE Ok(m, a) == a = [i \in 0..m |-> IF i = 0 THEN [q EXCEPT !.f = <<>>] ELSE TakeEntry(b, a[i - 1])]
           S == {m \in Nat : \E a : Ok(m, a)}
<1>1. Ok(0, [k \in 0..0 |-> [q EXCEPT !.f = <<>>]])
  OBVIOUS
<1>2. ASSUME NEW m \in Nat, NEW a, Ok(m, a) PROVE \E c : Ok(m + 1, c)
  <2> DEFINE c == [k \in 0..(m + 1) |-> IF k \in 0..m THEN a[k] ELSE TakeEntry(b, a[m])]
  <2>1. \A k \in 0..(m + 1) : c[k] = IF k = 0 THEN [q EXCEPT !.f = <<>>] ELSE TakeEntry(b, c[k - 1])
    BY <1>2
  <2>2. Ok(m + 1, c)
    BY <2>1
  <2> HIDE DEF Ok
  <2> QED
    BY <2>2
<1> HIDE DEF Ok
<1>3. n \in S
  <2>1. 0 \in S /\ \A m \in Nat : m \in S => m + 1 \in S
    BY <1>1, <1>2
  <2> HIDE DEF S
  <2> QED
    BY <2>1, Induction
<1>4. \E a : Ok(n, a)
  BY <1>3
<1>5. EntryRounds(b, q, n) = [i \in 0..n |-> IF i = 0 THEN [q EXCEPT !.f = <<>>]
                                             ELSE TakeEntry(b, EntryRounds(b, q, n)[i - 1])]
  BY <1>4 DEF EntryRounds, Rounds, Ok
<1> QED
  BY <1>5 DEF WithFields

\* The bytes of all entries.
LEMMA EntryParts ==
  ASSUME NEW x, EntriesFit(x), NEW ss, ss = [i \in DOMAIN x |-> EncodeEntry(x[i])]
  PROVE  /\ x \in Seq(Seq(0..MAX_VARINT)) /\ Len(x) \in 1..MAX_VARINT /\ Len(x) \in Nat
         /\ ss \in Seq(Seq(Byte)) /\ Len(ss) = Len(x)
         /\ \A i \in 1..Len(x) : EntryFits(x[i]) /\ ss[i] = EncodeEntry(x[i])
         /\ \A i \in 1..Len(ss) : Len(ss[i]) >= 1
<1> DEFINE X == Seq(0..MAX_VARINT)
<1>1. x \in Seq(X) /\ Len(x) \in 1..MAX_VARINT /\ \A i \in DOMAIN x : Len(x[i]) = 4
  BY DEF EntriesFit
<1>2. Len(x) \in Nat /\ DOMAIN x = 1..Len(x) /\ \A i \in 1..Len(x) : x[i] \in X
  <2> HIDE DEF X
  <2> QED
    BY <1>1
<1>3. \A i \in 1..Len(x) : EntryFits(x[i])
  BY <1>1, <1>2 DEF EntryFits
<1>4. \A i \in 1..Len(x) : EncodeEntry(x[i]) \in Seq(Byte) /\ Len(EncodeEntry(x[i])) >= 1
  BY <1>3, EntryBytes
<1>5. ss = [i \in 1..Len(x) |-> EncodeEntry(x[i])]
  BY <1>2
<1>6. ss \in Seq(Seq(Byte)) /\ Len(ss) = Len(x)
  BY <1>2, <1>4, <1>5
<1>7. \A i \in 1..Len(x) : ss[i] = EncodeEntry(x[i])
  BY <1>5
<1>8. \A i \in 1..Len(ss) : Len(ss[i]) >= 1
  BY <1>4, <1>6, <1>7, Zenon
<1> QED
  BY <1>1, <1>2, <1>3, <1>6, <1>7, <1>8

\* As many rounds as there are entries read them all.
LEMMA EntriesLoop ==
  ASSUME NEW x, EntriesFit(x), NEW ss, ss = [i \in DOMAIN x |-> EncodeEntry(x[i])],
         NEW b \in Seq(Byte), NEW at \in Nat, At(b, at, FlattenSeq(ss)),
         NEW q, WithFields(q, <<>>) = Here(at, <<>>)
  PROVE  EntryRounds(b, q, Len(x))[Len(x)] = Here(at + Len(FlattenSeq(ss)), x)
<1> DEFINE n == Len(x)
           R == EntryRounds(b, q, n)
           F == FlattenSeq(ss)
           S == {i \in Nat : R[i] = Here(at + PartEnd(ss, i), SubSeq(x, 1, i))}
<1>0. /\ x \in Seq(Seq(0..MAX_VARINT)) /\ n \in Nat /\ n >= 1
      /\ ss \in Seq(Seq(Byte)) /\ Len(ss) = n
      /\ \A i \in 1..n : EntryFits(x[i]) /\ ss[i] = EncodeEntry(x[i])
  BY EntryParts
<1>1. R[0] = Here(at, <<>>) /\ \A i \in 0..(n - 1) : R[i + 1] = TakeEntry(b, R[i])
  BY <1>0, EntryRoundsAre
<1>2. /\ F \in Seq(Byte)
      /\ PartEnd(ss, 0) = 0 /\ PartEnd(ss, n) = Len(F)
      /\ \A i \in 0..n : PartEnd(ss, i) \in 0..Len(F)
      /\ \A i \in 0..(n - 1) :
           /\ PartEnd(ss, i + 1) = PartEnd(ss, i) + Len(ss[i + 1])
           /\ At(F, PartEnd(ss, i), ss[i + 1])
  BY <1>0, Parts
<1>3. At(b, at, F)
  OBVIOUS
<1> HIDE DEF R, F
<1>4. 0 \in S
  <2>1. SubSeq(x, 1, 0) = <<>>
    BY <1>0
  <2>2. at + PartEnd(ss, 0) = at
    BY <1>2
  <2> QED
    BY <1>1, <2>1, <2>2
<1>5. ASSUME NEW i \in 0..(n - 1), i \in S PROVE i + 1 \in S
  <2> DEFINE e == x[i + 1]
             es == SubSeq(x, 1, i)
             c == at + PartEnd(ss, i)
  <2>1. i + 1 \in 1..n /\ i \in 0..n /\ i \in Nat /\ i + 1 \in Nat
    BY <1>0
  <2>2. EntryFits(e) /\ ss[i + 1] = EncodeEntry(e)
    BY <1>0, <2>1
  <2>3. EncodeEntry(e) \in Seq(Byte)
    BY <2>2, EntryBytes
  <2>4. PartEnd(ss, i) \in Nat /\ c \in Nat
    BY <1>2, <2>1
  <2>5. At(b, c, EncodeEntry(e))
    <3>1. At(F, PartEnd(ss, i), EncodeEntry(e))
      BY <1>2, <2>2
    <3> QED
      BY <1>2, <1>3, <2>3, <2>4, <3>1, AtWhole
  <2>6. Increasing(es, e)
    <3>1. SUFFICES ASSUME es # <<>>
          PROVE  Last(es)[1] < e[1] \/ (Last(es)[1] = e[1] /\ Last(es)[2] < e[2])
      BY DEF Increasing
    <3>2. Len(es) = i /\ i # 0
      BY <1>0, <2>1, <3>1
    <3>3. Last(es) = x[i]
      BY <1>0, <2>1, <3>2 DEF Last
    <3>4. i \in 1 .. n - 1
      BY <1>0, <3>2
    <3> QED
      BY <3>3, <3>4 DEF EntriesFit
  <2>7. TakeEntry(b, Here(c, es)) = Here(c + Len(EncodeEntry(e)), Append(es, e))
    <3>1. c \in Nat /\ EntryFits(e)
      BY <2>2, <2>4
    <3> HIDE DEF c, es, e, n, F, S, R
    <3> QED
      BY <2>5, <2>6, <3>1, TakesEntry, SMTT(40)
  <2>8. Append(es, e) = SubSeq(x, 1, i + 1)
    BY <1>0, <2>1
  <2>9. c + Len(EncodeEntry(e)) = at + PartEnd(ss, i + 1)
    <3>1. PartEnd(ss, i + 1) = PartEnd(ss, i) + Len(EncodeEntry(e))
      BY <1>2, <2>2, Zenon
    <3>2. Len(EncodeEntry(e)) \in Nat
      BY <2>3
    <3> HIDE DEF e, n, F, S, R
    <3> QED
      BY <2>4, <3>1, <3>2
  <2>10. R[i + 1] = TakeEntry(b, Here(c, es))
    BY <1>1, <1>5
  <2>11. R[i + 1] = Here(at + PartEnd(ss, i + 1), SubSeq(x, 1, i + 1))
    BY <2>7, <2>8, <2>9, <2>10, Zenon
  <2> QED
    BY <2>1, <2>11
<1> HIDE DEF S
<1>6. \A i \in 0..n : i \in S
  BY <1>0, <1>4, <1>5, InductionTo
<1>7. n \in S
  BY <1>0, <1>6
<1>8. SubSeq(x, 1, n) = x
  BY <1>0
<1>9. R[n] = Here(at + PartEnd(ss, n), SubSeq(x, 1, n))
  BY <1>7 DEF S
<1>10. R[n] = Here(at + Len(F), x)
  BY <1>2, <1>8, <1>9, Zenon
<1> QED
  BY <1>10 DEF R, F

\* The entries of a PIPE_ACK are read as they were written.
LEMMA TakesEntries ==
  ASSUME NEW b \in Seq(Byte), NEW at \in Nat, NEW X, NEW s \in Seq(X),
         NEW x, EntriesFit(x), NEW ss, ss = [i \in DOMAIN x |-> EncodeEntry(x[i])],
         At(b, at, V(Len(x)) \o FlattenSeq(ss))
  PROVE  /\ TakeEntries(b, Here(at, s)) = Here(at + Len(V(Len(x)) \o FlattenSeq(ss)), Append(s, x))
         /\ V(Len(x)) \o FlattenSeq(ss) \in Seq(Byte)
<1> DEFINE n == Len(x)
           l == V(n)
           F == FlattenSeq(ss)
           p == Here(at, s)
           q == TakeVarint(b, p)
           at2 == at + Len(l)
           at3 == at2 + Len(F)
<1>0. n \in 0..MAX_VARINT /\ n \in Nat /\ n >= 1 /\ ss \in Seq(Seq(Byte)) /\ Len(ss) = n
      /\ \A i \in 1..Len(ss) : Len(ss[i]) >= 1
  BY EntryParts
<1>1. l \in Seq(Byte) /\ Len(l) \in Nat
  BY <1>0, EncodedIs
<1>2. F \in Seq(Byte) /\ Len(F) \in Nat /\ n <= Len(F)
  <2>1. PartEnd(ss, Len(ss)) = Len(F) /\ F \in Seq(Byte)
    BY <1>0, Parts
  <2>2. n \in 0..Len(ss)
    BY <1>0
  <2>3. n <= PartEnd(ss, n)
    BY <1>0, <2>2, PartsLong
  <2> HIDE DEF F
  <2> QED
    BY <1>0, <2>1, <2>3
<1>3. At(b, at, l) /\ At(b, at2, F) /\ at2 \in Nat
  <2> HIDE DEF l, F
  <2>1. At(b, at, l \o F)
    BY DEF l, F
  <2> QED
    BY <1>1, <1>2, <2>1, AtParts
<1>4. l \o F \in Seq(Byte) /\ at + Len(l \o F) = at3
  <2> HIDE DEF l, F
  <2>1. l \o F \in Seq(Byte) /\ Len(l \o F) = Len(l) + Len(F)
    BY <1>1, <1>2, Joined
  <2> QED
    BY <1>1, <1>2, <2>1
<1> HIDE DEF n, F
<1>5. q = Here(at2, Append(s, n))
  BY <1>0, <1>3, TakesVarint
<1> HIDE DEF l, q, at2, at3
<1>6. q.err = OK /\ q.pos = at2 /\ q.f = Append(s, n)
  BY <1>5 DEF Here
<1>7. WithFields(q, <<>>) = Here(at2, <<>>)
  BY <1>5, HereIs
<1>8. Last(q.f) = n
  <2>1. Last(Append(s, n)) = n
    BY Appended
  <2> QED
    BY <1>6, <2>1
<1>9. Last(q.f) \in 1 .. Len(b) - q.pos
  <2>1. at2 + Len(F) <= Len(b) /\ Len(b) \in Nat
    BY <1>3 DEF At
  <2> QED
    BY <1>0, <1>2, <1>3, <1>6, <1>8, <2>1
<1> DEFINE r == EntryRounds(b, q, n)[n]
<1>10. r = Here(at3, x)
  <2>1. EntryRounds(b, q, Len(x))[Len(x)] = Here(at2 + Len(FlattenSeq(ss)), x)
    <3>1. At(b, at2, FlattenSeq(ss)) /\ at2 \in Nat
      BY <1>3 DEF F
    <3> QED
      BY <1>7, <3>1, EntriesLoop
  <2> QED
    BY <2>1 DEF n, F, at3
<1>11. TakeEntries(b, p) = CloseEntries(p, r)
  <2>1. TakeEntries(b, p) = AfterCount(b, p, q)
    BY DEF TakeEntries, q
  <2>2. AfterCount(b, p, q) = CloseEntries(p, EntryRounds(b, q, Last(q.f))[Last(q.f)])
    BY <1>6, <1>9 DEF AfterCount
  <2> QED
    BY <2>1, <2>2, <1>8
<1>12. WithFields(Here(at3, x), Append(s, x)) = Here(at3, Append(s, x))
  BY HereIs
<1>13. r.f = x /\ r.err = OK /\ p.f = s
  BY <1>10 DEF Here
<1> HIDE DEF r, p
<1>14. CloseEntries(p, r) = WithFields(r, Append(s, x))
  BY <1>13 DEF CloseEntries, WithFields
<1>15. TakeEntries(b, p) = Here(at3, Append(s, x))
  BY <1>10, <1>11, <1>12, <1>14, Zenon
<1> QED
  BY <1>4, <1>15 DEF p, l, n, F

\* Any field is read as it was written; one without a length is the rest of the buffer.
LEMMA FieldBytes ==
  ASSUME NEW kind \in Kinds, NEW x, FieldFits(kind, x)
  PROVE  EncodeField(kind, x) \in Seq(Byte)
<1> DEFINE E == EncodeField(kind, x)
<1>1. CASE kind = "v"
  <2>1. E = V(x) /\ x \in 0..MAX_VARINT
    BY <1>1 DEF EncodeField, FieldFits
  <2> HIDE DEF E
  <2> QED
    BY <2>1, EncodedIs DEF E
<1>2. CASE kind = "data"
  <2>1. E = V(Len(x)) \o x /\ x \in Seq(Byte) /\ Len(x) <= MAX_VARINT
    BY <1>2 DEF EncodeField, FieldFits
  <2>2. V(Len(x)) \in Seq(Byte)
    <3>1. Len(x) \in 0..MAX_VARINT
      BY <2>1
    <3> QED
      BY <3>1, EncodedIs
  <2> HIDE DEF E
  <2> QED
    BY <2>1, <2>2, Joined DEF E
<1>3. CASE kind = "params"
  <2> DEFINE y == encode_tps(x)
             Fit == {x[i] : i \in 1..Len(x)}
  <2>1. ParamsFit(x)
    BY <1>3 DEF FieldFits
  <2>2. x \in Seq(Fit) /\ \A p \in Fit : TpFits(p)
    BY <2>1 DEF ParamsFit
  <2> HIDE DEF Fit
  <2>3. y \in Seq(Byte) /\ Len(y) <= MAX_VARINT
    BY <2>1, <2>2, BlockParts DEF ParamsFit
  <2>4. E = V(Len(y)) \o y
    BY <1>3 DEF EncodeField
  <2> HIDE DEF y, E
  <2>5. V(Len(y)) \in Seq(Byte)
    <3>1. Len(y) \in 0..MAX_VARINT
      BY <2>3
    <3> QED
      BY <3>1, EncodedIs
  <2> QED
    BY <2>3, <2>4, <2>5, Joined DEF E
<1>4. CASE kind = "byte"
  <2>1. E = <<x>> /\ x \in Byte
    BY <1>4 DEF EncodeField, FieldFits
  <2> HIDE DEF E
  <2> QED
    BY <2>1 DEF E
<1>5. CASE kind = "loc"
  <2>1. E = <<Len(x)>> \o x /\ x \in Seq(Byte) /\ Len(x) \in 1..MaxLocatorBytes
    BY <1>5 DEF EncodeField, FieldFits
  <2>2. Len(x) \in Byte
    <3>1. MaxLocatorBytes \in Byte
      BY SizesAssumption
    <3> QED
      BY <2>1, <3>1, Bases DEF Byte
  <2>3. <<Len(x)>> \in Seq(Byte)
    BY <2>2
  <2> HIDE DEF E
  <2> QED
    BY <2>1, <2>3, Joined DEF E
<1>6. CASE kind = "entries"
  <2> DEFINE ss == [i \in DOMAIN x |-> EncodeEntry(x[i])]
             F == FlattenSeq(ss)
  <2>1. EntriesFit(x)
    BY <1>6 DEF FieldFits
  <2>2. ss \in Seq(Seq(Byte)) /\ Len(x) \in 0..MAX_VARINT
    <3>1. ss \in Seq(Seq(Byte)) /\ Len(x) \in 1..MAX_VARINT
      BY <2>1, EntryParts
    <3> QED
      BY <3>1
  <2>3. E = V(Len(x)) \o F
    BY <1>6 DEF EncodeField
  <2> HIDE DEF ss, E
  <2>4. F \in Seq(Byte)
    BY <2>2, Parts
  <2> HIDE DEF F
  <2>5. V(Len(x)) \in Seq(Byte)
    BY <2>2, EncodedIs
  <2> QED
    BY <2>3, <2>4, <2>5, Joined DEF E
<1>7. CASE kind \in {"rest", "key"}
  BY <1>7 DEF EncodeField, FieldFits
<1> QED
  BY <1>1, <1>2, <1>3, <1>4, <1>5, <1>6, <1>7 DEF Kinds

\* Every kind of field is read as it was written.
LEMMA TakesField ==
  ASSUME NEW b \in Seq(Byte), NEW at \in Nat, NEW X, NEW s \in Seq(X),
         NEW kind \in Kinds, NEW x, FieldFits(kind, x), At(b, at, EncodeField(kind, x)),
         kind = "rest" => at + Len(EncodeField(kind, x)) = Len(b)
  PROVE  TakeField(b, Here(at, s), kind) = Here(at + Len(EncodeField(kind, x)), Append(s, x))
<1> DEFINE E == EncodeField(kind, x)
           p == Here(at, s)
           T == TakeField(b, p, kind)
           N == Here(at + Len(E), Append(s, x))
<1>0. p.err = OK /\ p.pos = at
  BY DEF Here
<1>1. CASE kind = "v"
  <2>1. E = V(x) /\ x \in 0..MAX_VARINT /\ T = TakeVarint(b, p)
    BY <1>0, <1>1 DEF EncodeField, FieldFits, TakeField
  <2>2. TakeVarint(b, p) = Here(at + Len(V(x)), Append(s, x))
    <3>1. At(b, at, V(x))
      BY <2>1, Zenon
    <3> HIDE DEF E, T
    <3> QED
      BY <2>1, <3>1, TakesVarint
  <2> HIDE DEF T, p, E
  <2> QED
    BY <2>1, <2>2, Zenon DEF T, p, E
<1>2. CASE kind = "data"
  <2>1. E = V(Len(x)) \o x /\ x \in Seq(Byte) /\ Len(x) <= MAX_VARINT /\ T = TakeSized(b, p)
    BY <1>0, <1>2 DEF EncodeField, FieldFits, TakeField
  <2>2. TakeSized(b, p) = Here(at + Len(V(Len(x)) \o x), Append(s, x))
    <3>1. At(b, at, V(Len(x)) \o x)
      BY <2>1, Zenon
    <3> HIDE DEF E, T
    <3> QED
      BY <2>1, <3>1, TakesSized
  <2> HIDE DEF T, p, E
  <2> QED
    BY <2>1, <2>2, Zenon DEF T, p, E
<1>3. CASE kind = "params"
  <2> DEFINE y == V(Len(encode_tps(x))) \o encode_tps(x)
  <2>1. E = y /\ ParamsFit(x) /\ T = DecodeParams(TakeSized(b, p))
    BY <1>0, <1>3 DEF EncodeField, FieldFits, TakeField
  <2>2. DecodeParams(TakeSized(b, p)) = Here(at + Len(y), Append(s, x))
    <3>1. At(b, at, y)
      BY <2>1, Zenon
    <3> HIDE DEF E, T
    <3> QED
      BY <2>1, <3>1, TakesParams
  <2> HIDE DEF T, p, E
  <2> QED
    BY <2>1, <2>2, Zenon DEF T, p, E
<1>4. CASE kind = "byte"
  <2>1. E = <<x>> /\ x \in Byte /\ T = AsByte(TakeBytes(b, p, 1))
    BY <1>0, <1>4 DEF EncodeField, FieldFits, TakeField
  <2>2. AsByte(TakeBytes(b, p, 1)) = Here(at + 1, Append(s, x))
    <3>1. At(b, at, <<x>>)
      BY <2>1, Zenon
    <3> HIDE DEF E, T
    <3> QED
      BY <2>1, <3>1, TakesByte
  <2>3. Len(<<x>>) = 1
    OBVIOUS
  <2>4. Len(E) = 1
    BY <2>1, <2>3, Zenon DEF T, p, E
  <2> HIDE DEF T, p, E
  <2> QED
    BY <2>1, <2>2, <2>4, Zenon DEF T, p, E
<1>5. CASE kind = "loc"
  <2>1. E = <<Len(x)>> \o x /\ x \in Seq(Byte) /\ Len(x) \in 1..MaxLocatorBytes
    BY <1>5 DEF EncodeField, FieldFits
  <2>2. TakeField(b, p, "loc") = Here(at + Len(<<Len(x)>> \o x), Append(s, x))
    <3>1. At(b, at, <<Len(x)>> \o x)
      BY <2>1, Zenon
    <3> HIDE DEF E, T
    <3> QED
      BY <2>1, <3>1, TakesLoc
  <2> HIDE DEF p, E
  <2> QED
    BY <1>5, <2>1, <2>2, Zenon DEF p, E
<1>6. CASE kind = "entries"
  <2> DEFINE ss == [i \in DOMAIN x |-> EncodeEntry(x[i])]
             y == V(Len(x)) \o FlattenSeq(ss)
  <2>1. E = y /\ EntriesFit(x) /\ T = TakeEntries(b, p)
    BY <1>0, <1>6 DEF EncodeField, FieldFits, TakeField
  <2>2. TakeEntries(b, p) = Here(at + Len(y), Append(s, x))
    <3>1. At(b, at, y)
      BY <2>1, Zenon
    <3>2. ss = [i \in DOMAIN x |-> EncodeEntry(x[i])]
      OBVIOUS
    <3> HIDE DEF E, T, ss
    <3> QED
      BY <2>1, <3>1, <3>2, TakesEntries
  <2> HIDE DEF T, p, E
  <2> QED
    BY <2>1, <2>2, Zenon DEF T, p, E
<1>7. CASE kind = "rest"
  <2>1. E = x /\ x \in Seq(Byte) /\ T = TakeBytes(b, p, Len(b) - at)
    BY <1>0, <1>7 DEF EncodeField, FieldFits, TakeField
  <2>2. Len(b) - at = Len(x)
    <3>1. at + Len(x) = Len(b)
      BY <1>7, <2>1, Zenon
    <3> QED
      BY <2>1, <3>1
  <2>3. TakeBytes(b, p, Len(x)) = Here(at + Len(x), Append(s, x))
    <3>1. At(b, at, x) /\ x \in Seq(Byte)
      BY <2>1, Zenon
    <3> QED
      BY <3>1, TakesBytes, ZenonT(40)
  <2> HIDE DEF T, p, E
  <2> QED
    BY <2>1, <2>2, <2>3, Zenon DEF T, p, E
<1>8. CASE kind = "key"
  <2>1. E = x /\ x \in Seq(Byte) /\ Len(x) = KeyBytes /\ T = TakeBytes(b, p, KeyBytes)
    BY <1>0, <1>8 DEF EncodeField, FieldFits, TakeField
  <2>3. TakeBytes(b, p, Len(x)) = Here(at + Len(x), Append(s, x))
    <3>1. At(b, at, x) /\ x \in Seq(Byte)
      BY <2>1, Zenon
    <3> QED
      BY <3>1, TakesBytes, ZenonT(40)
  <2> HIDE DEF T, p, E
  <2> QED
    BY <2>1, <2>3, Zenon DEF T, p, E
<1>9. kind \in {"v", "data", "rest", "key", "entries", "byte", "loc", "params"}
  BY DEF Kinds
<1> HIDE DEF T, p, E
<1> QED
  BY <1>1, <1>2, <1>3, <1>4, <1>5, <1>6, <1>7, <1>8, <1>9 DEF p

-----------------------------------------------------------------------------
(* The fields of a frame. *)

\* The recursive definition of FieldRounds defines a function.
LEMMA FieldRoundsAre ==
  ASSUME NEW b, NEW at, NEW kinds, Len(kinds) \in Nat
  PROVE  /\ FieldRounds(b, at, kinds)[0] = Here(at, <<>>)
         /\ \A i \in 0..(Len(kinds) - 1) :
              FieldRounds(b, at, kinds)[i + 1] = TakeField(b, FieldRounds(b, at, kinds)[i], kinds[i + 1])
<1> DEFINE p == [pos |-> at, f |-> <<>>, err |-> OK]
           Ok(m, a) == a = [i \in 0..m |-> IF i = 0 THEN p ELSE TakeField(b, a[i - 1], kinds[i])]
           S == {m \in Nat : \E a : Ok(m, a)}
<1>1. Ok(0, [k \in 0..0 |-> p])
  OBVIOUS
<1>2. ASSUME NEW m \in Nat, NEW a, Ok(m, a) PROVE \E c : Ok(m + 1, c)
  <2> DEFINE c == [k \in 0..(m + 1) |-> IF k \in 0..m THEN a[k] ELSE TakeField(b, a[m], kinds[k])]
  <2> HIDE DEF p
  <2>1. \A k \in 0..(m + 1) : c[k] = IF k = 0 THEN p ELSE TakeField(b, c[k - 1], kinds[k])
    BY <1>2
  <2>2. Ok(m + 1, c)
    BY <2>1
  <2> HIDE DEF Ok
  <2> QED
    BY <2>2
<1> HIDE DEF Ok
<1>3. Len(kinds) \in S
  <2>1. 0 \in S /\ \A m \in Nat : m \in S => m + 1 \in S
    BY <1>1, <1>2
  <2> HIDE DEF S
  <2> QED
    BY <2>1, Induction
<1>4. \E a : Ok(Len(kinds), a)
  BY <1>3
<1>5. FieldRounds(b, at, kinds)
        = [i \in 0..Len(kinds) |-> IF i = 0 THEN p
                                   ELSE TakeField(b, FieldRounds(b, at, kinds)[i - 1], kinds[i])]
  BY <1>4 DEF FieldRounds, Rounds, Ok
<1>6. p = Here(at, <<>>)
  BY DEF Here
<1> HIDE DEF p
<1> QED
  BY <1>5, <1>6

\* The parts of a frame after its type.
LEMMA FieldParts ==
  ASSUME NEW kinds \in Seq(Kinds), NEW f, \A i \in 1..Len(kinds) : FieldFits(kinds[i], f[i]),
         NEW ss, ss = [i \in DOMAIN kinds |-> EncodeField(kinds[i], f[i])]
  PROVE  /\ ss \in Seq(Seq(Byte)) /\ Len(ss) = Len(kinds)
         /\ \A i \in 1..Len(kinds) : ss[i] = EncodeField(kinds[i], f[i])
<1>1. Len(kinds) \in Nat /\ DOMAIN kinds = 1..Len(kinds) /\ \A i \in 1..Len(kinds) : kinds[i] \in Kinds
  OBVIOUS
<1>2. \A i \in 1..Len(kinds) : EncodeField(kinds[i], f[i]) \in Seq(Byte)
  BY <1>1, FieldBytes
<1>3. ss = [i \in 1..Len(kinds) |-> EncodeField(kinds[i], f[i])]
  BY <1>1
<1> QED
  BY <1>1, <1>2, <1>3

\* The fields are read one after another.
LEMMA FieldsLoop ==
  ASSUME NEW kinds \in Seq(Kinds), NEW X, NEW f \in Seq(X), Len(f) = Len(kinds),
         \A i \in 1..Len(kinds) : FieldFits(kinds[i], f[i]) /\ (kinds[i] = "rest" => i = Len(kinds)),
         NEW ss, ss = [i \in DOMAIN kinds |-> EncodeField(kinds[i], f[i])],
         NEW b \in Seq(Byte), NEW at \in Nat, At(b, at, FlattenSeq(ss)),
         (\E i \in 1..Len(kinds) : kinds[i] = "rest") => at + Len(FlattenSeq(ss)) = Len(b)
  PROVE  TakeFields(b, at, kinds) = Here(at + Len(FlattenSeq(ss)), f)
<1> DEFINE n == Len(kinds)
           R == FieldRounds(b, at, kinds)
           F == FlattenSeq(ss)
           S == {i \in Nat : R[i] = Here(at + PartEnd(ss, i), SubSeq(f, 1, i))}
<1>0. /\ n \in Nat /\ DOMAIN kinds = 1..n /\ \A i \in 1..n : kinds[i] \in Kinds
      /\ ss \in Seq(Seq(Byte)) /\ Len(ss) = n
      /\ \A i \in 1..n : ss[i] = EncodeField(kinds[i], f[i])
  <2>1. \A i \in 1..Len(kinds) : FieldFits(kinds[i], f[i])
    OBVIOUS
  <2>2. n \in Nat /\ DOMAIN kinds = 1..n /\ \A i \in 1..n : kinds[i] \in Kinds
    OBVIOUS
  <2>3. \A i \in 1..n : EncodeField(kinds[i], f[i]) \in Seq(Byte)
    BY <2>1, <2>2, FieldBytes
  <2>4. ss = [i \in 1..n |-> EncodeField(kinds[i], f[i])]
    BY <2>2
  <2>5. /\ ss \in Seq(Seq(Byte)) /\ Len(ss) = n
        /\ \A i \in 1..n : ss[i] = EncodeField(kinds[i], f[i])
    BY <2>2, <2>3, <2>4
  <2> QED
    BY <2>2, <2>5
<1>1. R[0] = Here(at, <<>>) /\ \A i \in 0..(n - 1) : R[i + 1] = TakeField(b, R[i], kinds[i + 1])
  <2>1. Len(kinds) \in Nat
    OBVIOUS
  <2> HIDE DEF S, F
  <2>2. FieldRounds(b, at, kinds)[0] = Here(at, <<>>)
    BY <2>1, FieldRoundsAre
  <2>3. ASSUME NEW i \in 0..(Len(kinds) - 1)
        PROVE  FieldRounds(b, at, kinds)[i + 1]
                 = TakeField(b, FieldRounds(b, at, kinds)[i], kinds[i + 1])
    BY <2>1, FieldRoundsAre
  <2> QED
    BY <2>2, <2>3
<1>2. /\ F \in Seq(Byte)
      /\ PartEnd(ss, 0) = 0 /\ PartEnd(ss, n) = Len(F)
      /\ \A i \in 0..n : PartEnd(ss, i) \in 0..Len(F)
      /\ \A i \in 0..(n - 1) :
           /\ PartEnd(ss, i + 1) = PartEnd(ss, i) + Len(ss[i + 1])
           /\ At(F, PartEnd(ss, i), ss[i + 1])
  BY <1>0, Parts
<1>3. At(b, at, F) /\ ((\E i \in 1..n : kinds[i] = "rest") => at + Len(F) = Len(b))
  OBVIOUS
<1>11. f \in Seq(X) /\ Len(f) = n
  OBVIOUS
<1> HIDE DEF R, F
<1>4. 0 \in S
  <2>1. SubSeq(f, 1, 0) = <<>>
    BY <1>0, <1>11
  <2>2. at + PartEnd(ss, 0) = at
    BY <1>2
  <2> QED
    BY <1>1, <2>1, <2>2
<1>5. ASSUME NEW i \in 0..(n - 1), i \in S PROVE i + 1 \in S
  <2> DEFINE x == f[i + 1]
             kind == kinds[i + 1]
             s == SubSeq(f, 1, i)
             c == at + PartEnd(ss, i)
             E == EncodeField(kind, x)
  <2>1. i + 1 \in 1..n /\ i \in 0..n /\ i \in Nat /\ i + 1 \in Nat
    BY <1>0
  <2>2. FieldFits(kind, x) /\ ss[i + 1] = E /\ kind \in Kinds /\ (kind = "rest" => i + 1 = n)
    BY <1>0, <2>1
  <2>3. E \in Seq(Byte)
    BY <2>2, FieldBytes
  <2>4. PartEnd(ss, i) \in Nat /\ c \in Nat
    <3>1. PartEnd(ss, i) \in 0..Len(F)
      BY <1>2, <2>1
    <3>2. PartEnd(ss, i) \in Nat
      BY <1>2, <3>1
    <3> QED
      BY <3>2
  <2>5. At(b, c, E)
    <3>1. At(F, PartEnd(ss, i), E)
      BY <1>2, <2>2
    <3> HIDE DEF E
    <3> QED
      BY <1>2, <1>3, <2>3, <2>4, <3>1, AtWhole
  <2>6. s \in Seq(X)
    <3>1. i <= Len(f) /\ f \in Seq(X)
      BY <1>0, <1>11, <2>1
    <3> QED
      BY <2>1, <3>1
  <2>9. c + Len(E) = at + PartEnd(ss, i + 1)
    <3>2. PartEnd(ss, i + 1) = PartEnd(ss, i) + Len(ss[i + 1]) /\ ss[i + 1] = E
      BY <1>2, <2>2
    <3> HIDE DEF E
    <3>1. PartEnd(ss, i + 1) = PartEnd(ss, i) + Len(E) /\ Len(E) \in Nat
      BY <2>3, <3>2
    <3> QED
      BY <2>4, <3>1
  <2>12. kind = "rest" => c + Len(E) = Len(b)
    <3>1. SUFFICES ASSUME kind = "rest" PROVE c + Len(E) = Len(b)
      OBVIOUS
    <3>2. i + 1 = n /\ at + Len(F) = Len(b)
      BY <1>3, <2>1, <2>2, <3>1
    <3> HIDE DEF E, c
    <3> QED
      BY <1>2, <2>9, <3>2
  <2>7. TakeField(b, Here(c, s), kind) = Here(c + Len(E), Append(s, x))
    <3> HIDE DEF c, s, kind, x
    <3> QED
      BY <2>2, <2>4, <2>5, <2>6, <2>12, TakesField
  <2>8. Append(s, x) = SubSeq(f, 1, i + 1)
    BY <1>0, <1>11, <2>1
  <2>10. R[i + 1] = TakeField(b, Here(c, s), kind)
    BY <1>1, <1>5
  <2>11. R[i + 1] = Here(at + PartEnd(ss, i + 1), SubSeq(f, 1, i + 1))
    <3> HIDE DEF E
    <3> QED
      BY <2>7, <2>8, <2>9, <2>10, Zenon
  <2> QED
    BY <2>1, <2>11
<1> HIDE DEF S
<1>6. \A i \in 0..n : i \in S
  BY <1>0, <1>4, <1>5, InductionTo
<1>7. n \in S
  <2>1. n \in 0..n
    BY <1>0
  <2> QED
    BY <1>6, <2>1
<1>8. SubSeq(f, 1, n) = f
  BY <1>0, <1>11
<1>9. R[n] = Here(at + PartEnd(ss, n), SubSeq(f, 1, n))
  BY <1>7 DEF S
<1>10. R[n] = Here(at + Len(F), f)
  BY <1>2, <1>8, <1>9, Zenon
<1> QED
  BY <1>10 DEF R, F, TakeFields

-----------------------------------------------------------------------------
(* Frames. *)

\* A zero byte is the varint zero, and no other varint starts with one.
LEMMA ReadsZero ==
  ASSUME NEW b \in Seq(Byte), NEW at \in Nat, at < Len(b), b[at + 1] = 0
  PROVE  /\ decode_varint(b, at) = [ok |-> TRUE, pos |-> at + 1, width |-> 1, val |-> 0]
         /\ varint_len(0) = 1
<1>1. 0 \in 0..MAX_VARINT /\ Capacity(1) >= 1
  BY CapacitiesGrow DEF Widths
<1>2. varint_len(0) = 1
  <2>1. varint_len(0) \in Widths /\ \A u \in Widths : 0 < Capacity(u) => varint_len(0) <= u
    BY <1>1, LengthIs
  <2>2. 1 \in Widths /\ Capacity(1) \in Nat
    BY CapacitiesGrow DEF Widths
  <2>3. varint_len(0) <= 1
    BY <1>1, <2>1, <2>2
  <2> QED
    BY <2>1, <2>3 DEF Widths
<1>3. Prefix(1) = 0
  <2>1. Prefix(1) \in 0..3 /\ Width[Prefix(1) + 1] = 1
    BY PrefixIs DEF Widths
  <2> QED
    BY <2>1 DEF Width
<1>4. Shifted(0)[0] = 0
  BY ShiftedIs
<1>5. V(0) = [i \in 1..1 |-> 0]
  <2>1. \A i \in 1..1 : (IF i = 1 THEN 0 * Radix ELSE 0) + (Shifted(0)[1 - i] % Base) = 0
    <3>1. 0 * Radix = 0 /\ 0 % Base = 0
      BY Bases
    <3>2. \A i \in 1..1 : i = 1 /\ 1 - i = 0
      OBVIOUS
    <3> QED
      BY <1>4, <3>1, <3>2
  <2>2. V(0) = [i \in 1..1 |-> (IF i = 1 THEN 0 * Radix ELSE 0) + (Shifted(0)[1 - i] % Base)]
    BY <1>2, <1>3 DEF V, encode_varint
  <2> QED
    BY <2>1, <2>2
<1>6. Len(V(0)) = 1 /\ V(0)[1] = 0
  BY <1>5
<1>7. At(b, at, V(0))
  <2> DEFINE z == V(0)
  <2>1. Len(z) = 1 /\ z[1] = 0
    BY <1>6
  <2> HIDE DEF z
  <2>2. at + 1 <= Len(b) /\ b[at + 1] = z[1]
    BY <2>1
  <2>3. \A i \in 1..Len(z) : b[at + i] = z[i]
    <3>1. \A i \in 1..Len(z) : i = 1
      BY <2>1
    <3> QED
      BY <2>2, <3>1
  <2>4. At(b, at, z)
    BY <2>1, <2>2, <2>3 DEF At
  <2> QED
    BY <2>4 DEF z
<1>8. decode_varint(b, at) = [ok |-> TRUE, pos |-> at + Len(V(0)), width |-> Len(V(0)), val |-> 0]
  BY <1>1, <1>7, ReadsV
<1> QED
  BY <1>2, <1>6, <1>8

\* Hence a frame that is not PADDING does not start with a zero byte.
LEMMA NonZero ==
  ASSUME NEW c \in 1..MAX_VARINT
  PROVE  V(c)[1] # 0
<1>1. c \in 0..MAX_VARINT /\ MAX_VARINT \in Nat
  BY CapacitiesGrow
<1> DEFINE b == V(c)
<1>2. b \in Seq(Byte) /\ Len(b) \in Nat /\ Len(b) >= 1
  BY <1>1, EncodedLong
<1>3. At(b, 0, b)
  BY <1>2 DEF At
<1>4. decode_varint(b, 0).val = c
  BY <1>1, <1>2, <1>3, ReadsV
<1> HIDE DEF b
<1>5. ASSUME b[1] = 0 PROVE FALSE
  <2>1. decode_varint(b, 0).val = 0
    <3>1. b[0 + 1] = 0 /\ 0 < Len(b)
      BY <1>2, <1>5
    <3>2. decode_varint(b, 0) = [ok |-> TRUE, pos |-> 0 + 1, width |-> 1, val |-> 0]
      BY <1>2, <3>1, ReadsZero
    <3> QED
      BY <3>2
  <2> QED
    BY <1>4, <2>1
<1> QED
  BY <1>5 DEF b

\* The number of a frame's type is one that only its row of the registry holds.
LEMMA TypeIs ==
  ASSUME NEW fr, FrameFits(fr), fr.type # "PADDING",
         NEW row, row = frame_by_name[fr.type]
  PROVE  /\ row \in FrameTypes /\ row.name = fr.type /\ ~row.prohibited
         /\ type_code(fr) \in 1..MAX_VARINT /\ type_code(fr) - row.first = fr.bits
         /\ type_code(fr) \in DOMAIN frame_by_type /\ frame_by_type[type_code(fr)] = row
<1> DEFINE c == type_code(fr)
<1>1. fr.type \in DOMAIN frame_by_name /\ ~row.prohibited /\ fr.bits \in Nat
      /\ fr.bits <= row.last - row.first
  BY DEF FrameFits
<1>2. fr.type \in {r.name : r \in FrameTypes}
  BY <1>1 DEF frame_by_name
<1>3. row \in FrameTypes /\ row.name = fr.type
  BY <1>2, RowIs
<1>4. row.first \in 1..MAX_VARINT /\ row.last \in row.first..MAX_VARINT /\ MAX_VARINT \in Nat
  <2>1. row.first \in 0..MAX_VARINT /\ row.last \in row.first..MAX_VARINT /\ row.first # 0
    BY <1>3, FrameTypesAssumption
  <2> QED
    BY <2>1, CapacitiesGrow
<1>5. c = row.first + fr.bits
  BY DEF type_code
<1>6. c \in row.first..row.last /\ c \in 1..MAX_VARINT /\ c - row.first = fr.bits
  <2> HIDE DEF c
  <2> QED
    BY <1>1, <1>4, <1>5
<1> HIDE DEF c
<1>7. c \in DOMAIN frame_by_type /\ frame_by_type[c] = CHOOSE r \in FrameTypes : c \in r.first..r.last
  BY <1>3, <1>6 DEF frame_by_type
<1>8. frame_by_type[c] = row
  <2>1. \A r \in FrameTypes : c \in r.first..r.last => r = row
    <3>1. SUFFICES ASSUME NEW r \in FrameTypes, c \in r.first..r.last PROVE r = row
      OBVIOUS
    <3>2. r = row \/ r.first..r.last \cap row.first..row.last = {}
      BY <1>3, FrameTypesAssumption
    <3> QED
      BY <1>6, <3>1, <3>2
  <2> QED
    BY <1>3, <1>6, <1>7, <2>1
<1> QED
  BY <1>1, <1>3, <1>6, <1>7, <1>8 DEF c

\* Its fields, and the parts of its bytes that follow the type.
LEMMA FrameIs ==
  ASSUME NEW fr, FrameFits(fr), fr.type # "PADDING",
         NEW kinds, kinds = Layout(fr.type, fr.bits),
         NEW ss, ss = [i \in DOMAIN kinds |-> EncodeField(kinds[i], fr.f[i])]
  PROVE  /\ kinds \in Seq(Kinds)
         /\ \E X : fr.f \in Seq(X)
         /\ Len(fr.f) = Len(kinds)
         /\ \A i \in 1..Len(kinds) :
              FieldFits(kinds[i], fr.f[i]) /\ (kinds[i] = "rest" => i = Len(kinds))
         /\ ss \in Seq(Seq(Byte)) /\ FlattenSeq(ss) \in Seq(Byte)
         /\ encode_frame(fr) = V(type_code(fr)) \o FlattenSeq(ss)
         /\ Valid(fr.type, fr.bits, fr.f, Len(encode_frame(fr)))
         /\ fr = [type |-> fr.type, bits |-> fr.bits, f |-> fr.f]
<1>1. /\ kinds \in Seq(Kinds) /\ fr.f = [i \in DOMAIN kinds |-> fr.f[i]]
      /\ \A i \in DOMAIN kinds :
           FieldFits(kinds[i], fr.f[i]) /\ (kinds[i] = "rest" => i = Len(kinds))
      /\ fr.type # "RAW"
  BY DEF FrameFits
<1>2. Valid(fr.type, fr.bits, fr.f, Len(encode_frame(fr)))
      /\ fr = [type |-> fr.type, bits |-> fr.bits, f |-> fr.f]
  BY DEF FrameFits
<1>3. DOMAIN kinds = 1..Len(kinds) /\ Len(kinds) \in Nat
  BY <1>1
<1>4. (\E X : fr.f \in Seq(X)) /\ Len(fr.f) = Len(kinds)
  <2> DEFINE X == {fr.f[i] : i \in 1..Len(kinds)}
             g == [i \in 1..Len(kinds) |-> fr.f[i]]
  <2>1. fr.f = g
    BY <1>1, <1>3
  <2>2. g \in Seq(X) /\ Len(g) = Len(kinds)
    BY <1>3
  <2> HIDE DEF g, X
  <2> QED
    BY <2>1, <2>2
<1>5. \A i \in 1..Len(kinds) :
        FieldFits(kinds[i], fr.f[i]) /\ (kinds[i] = "rest" => i = Len(kinds))
  BY <1>1, <1>3
<1>6. ss \in Seq(Seq(Byte))
  <2>1. \A i \in 1..Len(kinds) : kinds[i] \in Kinds
    BY <1>1
  <2>2. \A i \in 1..Len(kinds) : EncodeField(kinds[i], fr.f[i]) \in Seq(Byte)
    BY <1>5, <2>1, FieldBytes
  <2>3. ss = [i \in 1..Len(kinds) |-> EncodeField(kinds[i], fr.f[i])]
    BY <1>3
  <2> QED
    BY <1>3, <2>2, <2>3
<1>7. FlattenSeq(ss) \in Seq(Byte)
  BY <1>6, Parts
<1>8. encode_frame(fr) = V(type_code(fr)) \o FlattenSeq(ss)
  BY <1>1 DEF encode_frame
<1> QED
  BY <1>1, <1>2, <1>4, <1>5, <1>6, <1>7, <1>8, Zenon

\* What a frame's bytes start with tells a PADDING from the others.
LEMMA FrameBytes ==
  ASSUME NEW fr, FrameFits(fr)
  PROVE  /\ encode_frame(fr) \in Seq(Byte) /\ Len(encode_frame(fr)) \in Nat
         /\ Len(encode_frame(fr)) >= 1
         /\ fr.type # "PADDING" => encode_frame(fr)[1] # 0
         /\ fr.type = "PADDING" =>
              /\ Len(encode_frame(fr)) = fr.bits
              /\ \A i \in 1..Len(encode_frame(fr)) : encode_frame(fr)[i] = 0
<1>1. CASE fr.type = "PADDING"
  <2> DEFINE n == fr.bits
             e == [i \in 1..n |-> 0]
  <2>1. n \in Nat /\ n > 0
    BY <1>1 DEF FrameFits
  <2>2. encode_frame(fr) = e
    BY <1>1 DEF encode_frame
  <2>3. 0 \in Byte
    BY Bases DEF Byte
  <2> HIDE DEF n
  <2>4. e \in Seq(Byte) /\ Len(e) = n /\ \A i \in 1..n : e[i] = 0
    BY <2>1, <2>3
  <2> HIDE DEF e
  <2> QED
    BY <1>1, <2>1, <2>2, <2>4 DEF n
<1>2. CASE fr.type # "PADDING"
  <2> DEFINE kinds == Layout(fr.type, fr.bits)
             ss == [i \in DOMAIN kinds |-> EncodeField(kinds[i], fr.f[i])]
             c == type_code(fr)
             l == V(c)
             F == FlattenSeq(ss)
  <2>1. F \in Seq(Byte) /\ encode_frame(fr) = l \o F
    BY <1>2, FrameIs
  <2>2. c \in 1..MAX_VARINT
    BY <1>2, TypeIs
  <2> HIDE DEF c, F
  <2>3. c \in 0..MAX_VARINT
    BY <2>2, CapacitiesGrow
  <2>4. l \in Seq(Byte) /\ Len(l) \in Nat /\ Len(l) >= 1 /\ l[1] # 0
    BY <2>2, <2>3, EncodedLong, NonZero
  <2> HIDE DEF l
  <2>5. l \o F \in Seq(Byte) /\ Len(l \o F) = Len(l) + Len(F) /\ (l \o F)[1] = l[1]
    BY <2>1, <2>4
  <2> DEFINE e == encode_frame(fr)
  <2>6. e \in Seq(Byte) /\ Len(e) = Len(l) + Len(F) /\ e[1] # 0
    BY <2>1, <2>4, <2>5
  <2> HIDE DEF e
  <2>7. Len(e) \in Nat /\ Len(e) >= 1
    BY <2>1, <2>4, <2>6
  <2> QED
    BY <1>2, <2>6, <2>7 DEF e
<1> QED
  BY <1>1, <1>2

\* The gates in effect allow a frame.
Negotiated(fr, en) ==
  LET gates == frame_by_name[fr.type].gates IN gates = {} \/ gates \cap en # {}

\* Any frame but PADDING is read as it was written.
LEMMA FrameBack ==
  ASSUME NEW fr, FrameFits(fr), fr.type # "PADDING", NEW en, Negotiated(fr, en),
         NEW b \in Seq(Byte), NEW at \in Nat, At(b, at, encode_frame(fr)),
         EndsItself(fr) \/ at + Len(encode_frame(fr)) = Len(b)
  PROVE  /\ decode_frame(b, at, en, NoLimit).err = OK
         /\ decode_frame(b, at, en, NoLimit).frame = fr
         /\ decode_frame(b, at, en, NoLimit).pos = at + Len(encode_frame(fr))
<1> DEFINE kinds == Layout(fr.type, fr.bits)
           ss == [i \in DOMAIN kinds |-> EncodeField(kinds[i], fr.f[i])]
           c == type_code(fr)
           row == frame_by_name[fr.type]
           l == V(c)
           F == FlattenSeq(ss)
           E == encode_frame(fr)
           t == decode_varint(b, at)
           at2 == at + Len(l)
           p == TakeFields(b, at2, kinds)
<1>1. /\ row \in FrameTypes /\ row.name = fr.type /\ ~row.prohibited
      /\ c \in 1..MAX_VARINT /\ c - row.first = fr.bits
      /\ c \in DOMAIN frame_by_type /\ frame_by_type[c] = row
  BY TypeIs
<1>2. /\ kinds \in Seq(Kinds)
      /\ \E X : fr.f \in Seq(X)
      /\ Len(fr.f) = Len(kinds)
      /\ \A i \in 1..Len(kinds) :
           FieldFits(kinds[i], fr.f[i]) /\ (kinds[i] = "rest" => i = Len(kinds))
      /\ F \in Seq(Byte)
      /\ E = l \o F
      /\ Valid(fr.type, fr.bits, fr.f, Len(E))
      /\ fr = [type |-> fr.type, bits |-> fr.bits, f |-> fr.f]
  BY FrameIs
<1>3. c \in 0..MAX_VARINT /\ c # 0
  <2> HIDE DEF c
  <2> QED
    BY <1>1, CapacitiesGrow
<1>4. l \in Seq(Byte) /\ Len(l) \in Nat /\ Len(l) = varint_len(c)
  <2> HIDE DEF c
  <2> QED
    BY <1>3, EncodedIs, EncodedLong
<1>5. At(b, at, l) /\ At(b, at2, F)
  <2>1. At(b, at, l \o F)
    BY <1>2
  <2> HIDE DEF l, F
  <2> QED
    BY <1>2, <1>4, <2>1, AtParts
<1>6. t.ok /\ t.pos = at2 /\ t.width = varint_len(t.val) /\ t.val = c
  <2>1. t = [ok |-> TRUE, pos |-> at + Len(l), width |-> Len(l), val |-> c]
    BY <1>3, <1>5, ReadsV
  <2> HIDE DEF c, l
  <2> QED
    BY <1>4, <2>1
<1>7. at2 \in Nat /\ at + Len(E) = at2 + Len(F)
  <2> HIDE DEF l, F, E
  <2>2. F \in Seq(Byte) /\ l \in Seq(Byte)
    BY <1>2, <1>4
  <2>1. Len(l \o F) = Len(l) + Len(F) /\ Len(F) \in Nat
    BY <2>2
  <2> QED
    BY <1>2, <1>4, <2>1
<1>8. (\E i \in 1..Len(kinds) : kinds[i] = "rest") => at2 + Len(F) = Len(b)
  <2>1. SUFFICES ASSUME NEW i \in 1..Len(kinds), kinds[i] = "rest" PROVE at2 + Len(F) = Len(b)
    OBVIOUS
  <2>2. "rest" \in ToSet(kinds)
    BY <1>2, <2>1 DEF ToSet
  <2>3. ~EndsItself(fr)
    BY <2>2 DEF EndsItself
  <2> QED
    BY <2>3, <1>7
<1>9. p = Here(at2 + Len(F), fr.f)
  <2>1. PICK X : fr.f \in Seq(X)
    BY <1>2
  <2> DEFINE f == fr.f
  <2> HIDE DEF f, at2, kinds
  <2>2. TakeFields(b, at2, kinds) = Here(at2 + Len(FlattenSeq(ss)), f)
    BY <1>2, <1>5, <1>7, <1>8, <2>1, FieldsLoop DEF f
  <2> QED
    BY <2>2 DEF f
<1>10. p.err = OK /\ p.f = fr.f /\ p.pos = at + Len(E)
  BY <1>7, <1>9 DEF Here
<1>11. p.pos - at = Len(E)
  <2>1. Len(E) \in Nat
    BY FrameBytes
  <2> HIDE DEF E, p
  <2> QED
    BY <1>10, <2>1
<1> DEFINE D == Decoded(fr.type, fr.bits, p.f, p.pos)
<1>12. Checked(fr.type, fr.bits, p, at, NoLimit) = D
  <2> HIDE DEF p, E
  <2>1. Valid(fr.type, fr.bits, p.f, p.pos - at)
    BY <1>2, <1>10, <1>11
  <2> QED
    BY <1>10, <2>1 DEF Checked
<1>13. DecodeFields(b, at, t, row, NoLimit) = D
  <2>1. t.val - row.first = fr.bits
    BY <1>1, <1>6
  <2> HIDE DEF row, t, at2, D
  <2> QED
    BY <1>1, <1>6, <1>12, <2>1 DEF DecodeFields
<1>14. DecodeKnown(b, at, t, row, en, NoLimit) = D
  <2>1. ~(row.gates # {} /\ row.gates \cap en = {})
    BY DEF Negotiated
  <2> HIDE DEF row, t, D
  <2> QED
    BY <1>1, <1>13, <2>1 DEF DecodeKnown
<1>15. DecodeTyped(b, at, t, en, NoLimit) = D
  <2> HIDE DEF row, t, D, c
  <2> QED
    BY <1>1, <1>3, <1>6, <1>14 DEF DecodeTyped
<1>16. decode_frame(b, at, en, NoLimit) = D
  BY <1>15 DEF decode_frame
<1>17. D.err = OK /\ D.pos = p.pos /\ D.frame = [type |-> fr.type, bits |-> fr.bits, f |-> p.f]
  BY DEF Decoded
<1> HIDE DEF D, p, E
<1>18. D.frame = fr
  BY <1>2, <1>10, <1>17
<1> QED
  BY <1>10, <1>16, <1>17, <1>18 DEF E

\* PADDING is read as it was written, up to the first byte that is not zero.
LEMMA PaddingBack ==
  ASSUME NEW fr, FrameFits(fr), fr.type = "PADDING", NEW en,
         NEW b \in Seq(Byte), NEW at \in Nat, At(b, at, encode_frame(fr)),
         at + Len(encode_frame(fr)) = Len(b) \/ b[(at + Len(encode_frame(fr))) + 1] # 0
  PROVE  /\ decode_frame(b, at, en, NoLimit).err = OK
         /\ decode_frame(b, at, en, NoLimit).frame = fr
         /\ decode_frame(b, at, en, NoLimit).pos = at + Len(encode_frame(fr))
<1> DEFINE E == encode_frame(fr)
           n == fr.bits
           end == at + n
           t == decode_varint(b, at)
           ends == {u \in at + 1 .. Len(b) : u = Len(b) \/ b[u + 1] # 0}
<1>1. Len(E) = n /\ n \in Nat /\ n >= 1 /\ \A i \in 1..n : E[i] = 0
  BY FrameBytes
<1>2. fr = [type |-> "PADDING", bits |-> n, f |-> <<>>]
  BY DEF FrameFits
<1>3. end <= Len(b) /\ \A i \in 1..n : b[at + i] = 0
  <2>1. At(b, at, E)
    OBVIOUS
  <2> HIDE DEF E
  <2> QED
    BY <1>1, <2>1 DEF At
<1>4. end = Len(b) \/ b[end + 1] # 0
  BY <1>1
<1>10. PaddingRun(b, at) = CHOOSE e \in ends : \A u \in ends : e <= u
  BY DEF PaddingRun
<1> HIDE DEF E, n
<1>5. at < Len(b) /\ b[at + 1] = 0
  <2>1. 1 \in 1..n
    BY <1>1
  <2> QED
    BY <1>1, <1>3, <2>1
<1>6. end \in ends /\ end \in Nat
  BY <1>1, <1>3, <1>4
<1>7. \A u \in ends : end <= u
  <2>1. SUFFICES ASSUME NEW u \in ends, u < end PROVE FALSE
    <3>1. \A u \in ends : u \in Nat
      OBVIOUS
    <3> HIDE DEF ends, end
    <3>2. \A u \in ends : ~(u < end)
      BY <2>1
    <3> QED
      BY <1>6, <3>1, <3>2
  <2>2. u \in at + 1 .. Len(b) /\ (u = Len(b) \/ b[u + 1] # 0)
    OBVIOUS
  <2> HIDE DEF ends
  <2>3. u \in Nat /\ u # Len(b)
    BY <1>1, <1>3, <2>1, <2>2
  <2> DEFINE i == (u + 1) - at
  <2>4. i \in 1..n /\ at + i = u + 1
    BY <1>1, <2>1, <2>2, <2>3
  <2> HIDE DEF i
  <2>5. b[u + 1] = 0
    BY <1>3, <2>4
  <2> QED
    BY <2>2, <2>3, <2>5
<1>8. \A e \in ends : e \in Nat
  OBVIOUS
<1> HIDE DEF ends, end
<1>9. PaddingRun(b, at) = end
  <2>1. \A e \in ends : (\A u \in ends : e <= u) => e = end
    BY <1>6, <1>7, <1>8
  <2> QED
    BY <1>6, <1>7, <1>10, <2>1
<1>11. t.ok /\ t.val = 0 /\ t.width = 1 /\ varint_len(0) = 1
  BY <1>5, ReadsZero
<1> HIDE DEF t
<1>12. DecodeTyped(b, at, t, en, NoLimit) = Decoded("PADDING", end - at, <<>>, end)
  BY <1>9, <1>11 DEF DecodeTyped
<1>13. decode_frame(b, at, en, NoLimit) = Decoded("PADDING", end - at, <<>>, end)
  BY <1>12 DEF decode_frame, t
<1>14. end - at = n
  BY <1>1 DEF end
<1>15. decode_frame(b, at, en, NoLimit).err = OK
       /\ decode_frame(b, at, en, NoLimit).frame = fr
       /\ decode_frame(b, at, en, NoLimit).pos = end
  BY <1>2, <1>13, <1>14 DEF Decoded
<1>16. end = at + Len(encode_frame(fr))
  BY <1>1 DEF end, E
<1> QED
  BY <1>15, <1>16

\* The recursive definition of FrameRounds defines a function.
LEMMA FrameRoundsAre ==
  ASSUME NEW b, Len(b) \in Nat, NEW en, NEW lim
  PROVE  /\ FrameRounds(b, en, lim)[0] = Here(0, <<>>)
         /\ \A i \in 0..(Len(b) - 1) :
              FrameRounds(b, en, lim)[i + 1] = FrameRound(b, en, lim, FrameRounds(b, en, lim)[i])
<1> DEFINE Ok(n, a) == a = [i \in 0..n |-> IF i = 0 THEN NoItems ELSE FrameRound(b, en, lim, a[i - 1])]
           S == {n \in Nat : \E a : Ok(n, a)}
<1>1. Ok(0, [k \in 0..0 |-> NoItems])
  OBVIOUS
<1>2. ASSUME NEW n \in Nat, NEW a, Ok(n, a) PROVE \E c : Ok(n + 1, c)
  <2> DEFINE c == [k \in 0..(n + 1) |-> IF k \in 0..n THEN a[k] ELSE FrameRound(b, en, lim, a[n])]
  <2>1. \A k \in 0..(n + 1) : c[k] = IF k = 0 THEN NoItems ELSE FrameRound(b, en, lim, c[k - 1])
    BY <1>2
  <2>2. Ok(n + 1, c)
    BY <2>1
  <2> HIDE DEF Ok
  <2> QED
    BY <2>2
<1> HIDE DEF Ok
<1>3. Len(b) \in S
  <2>1. 0 \in S /\ \A n \in Nat : n \in S => n + 1 \in S
    BY <1>1, <1>2
  <2> HIDE DEF S
  <2> QED
    BY <2>1, Induction
<1>4. \E a : Ok(Len(b), a)
  BY <1>3
<1>5. FrameRounds(b, en, lim)
        = [i \in 0..Len(b) |-> IF i = 0 THEN NoItems
                               ELSE FrameRound(b, en, lim, FrameRounds(b, en, lim)[i - 1])]
  BY <1>4 DEF FrameRounds, Rounds, Ok
<1>6. NoItems = Here(0, <<>>)
  BY DEF Here, NoItems
<1> QED
  BY <1>5, <1>6

\* The frames of a record, each with its bytes.
LEMMA FramesAre ==
  ASSUME NEW fs, RecordFits(fs), NEW ss, ss = [i \in DOMAIN fs |-> encode_frame(fs[i])]
  PROVE  /\ \E X : fs \in Seq(X)
         /\ Len(fs) \in Nat /\ Len(ss) = Len(fs) /\ ss \in Seq(Seq(Byte))
         /\ \A i \in 1..Len(fs) : FrameFits(fs[i]) /\ ss[i] = encode_frame(fs[i])
         /\ \A i \in 1..Len(ss) : Len(ss[i]) >= 1
         /\ encode_frames(fs) = FlattenSeq(ss) /\ encode_frames(fs) \in Seq(Byte)
<1>1. Len(fs) \in Nat /\ \A i \in 1..Len(fs) : FrameFits(fs[i])
  BY DEF RecordFits
<1>2. \E X : fs \in Seq(X)
  <2> DEFINE X == {fs[i] : i \in 1..Len(fs)}
             g == [i \in 1..Len(fs) |-> fs[i]]
  <2>1. fs = g
    BY DEF RecordFits
  <2>2. g \in Seq(X)
    BY <1>1
  <2> HIDE DEF g, X
  <2> QED
    BY <2>1, <2>2
<1>3. DOMAIN fs = 1..Len(fs)
  BY <1>1, <1>2
<1>4. \A i \in 1..Len(fs) : encode_frame(fs[i]) \in Seq(Byte) /\ Len(encode_frame(fs[i])) >= 1
  BY <1>1, FrameBytes
<1>5. ss = [i \in 1..Len(fs) |-> encode_frame(fs[i])]
  BY <1>3
<1>6. ss \in Seq(Seq(Byte)) /\ Len(ss) = Len(fs) /\ \A i \in 1..Len(fs) : ss[i] = encode_frame(fs[i])
  BY <1>1, <1>4, <1>5
<1>7. encode_frames(fs) = FlattenSeq(ss)
  BY DEF encode_frames
<1>8. encode_frames(fs) \in Seq(Byte)
  BY <1>6, <1>7, Parts
<1> QED
  BY <1>1, <1>2, <1>4, <1>6, <1>7, <1>8

\* One frame of a record.
LEMMA FrameOf ==
  ASSUME NEW fs, RecordFits(fs), NEW ss, ss = [i \in DOMAIN fs |-> encode_frame(fs[i])],
         NEW b, b = FlattenSeq(ss), NEW en, NEW j \in 0..(Len(fs) - 1), Negotiated(fs[j + 1], en),
         NEW at, at = PartEnd(ss, j)
  PROVE  /\ decode_frame(b, at, en, NoLimit).err = OK
         /\ decode_frame(b, at, en, NoLimit).frame = fs[j + 1]
         /\ decode_frame(b, at, en, NoLimit).pos = PartEnd(ss, j + 1)
<1> DEFINE n == Len(fs)
           fr == fs[j + 1]
           E == encode_frame(fr)
<1>1. /\ n \in Nat /\ Len(ss) = n /\ ss \in Seq(Seq(Byte))
      /\ \A i \in 1..n : FrameFits(fs[i]) /\ ss[i] = encode_frame(fs[i])
  BY FramesAre
<1>2. /\ b \in Seq(Byte) /\ PartEnd(ss, n) = Len(b)
      /\ \A i \in 0..n : PartEnd(ss, i) \in 0..Len(b)
      /\ \A i \in 0..(n - 1) :
           /\ PartEnd(ss, i + 1) = PartEnd(ss, i) + Len(ss[i + 1])
           /\ At(b, PartEnd(ss, i), ss[i + 1])
  BY <1>1, Parts
<1>3. j + 1 \in 1..n /\ j \in Nat /\ j \in 0..n
  BY <1>1
<1>8. j + 1 # n => /\ j + 1 \in 1..(n - 1) /\ j + 1 \in 0..(n - 1)
                   /\ (j + 1) + 1 \in 1..n
  <2>1. n \in Nat
    BY <1>1
  <2> HIDE DEF n
  <2> QED
    BY <1>3, <2>1
<1>4. FrameFits(fr) /\ ss[j + 1] = E
  BY <1>1, <1>3
<1>5. at \in Nat /\ At(b, at, E) /\ PartEnd(ss, j + 1) = at + Len(E)
  <2>1. at \in 0..Len(b)
    BY <1>2, <1>3
  <2>2. Len(b) \in Nat
    BY <1>2
  <2> QED
    BY <1>2, <1>4, <2>1, <2>2
<1>6. CASE fr.type # "PADDING"
  <2>1. EndsItself(fr) \/ at + Len(E) = Len(b)
    <3>1. CASE j + 1 = n
      BY <1>2, <1>5, <3>1
    <3>2. CASE j + 1 # n
      <4>1. j + 1 \in 1 .. Len(fs) - 1
        BY <1>8, <3>2
      <4> QED
        BY <4>1 DEF RecordFits
    <3> QED
      BY <3>1, <3>2
  <2>2. FrameFits(fr) /\ b \in Seq(Byte) /\ at \in Nat /\ At(b, at, E)
        /\ PartEnd(ss, j + 1) = at + Len(E)
    BY <1>2, <1>4, <1>5
  <2>3. fr = fs[j + 1] /\ Negotiated(fr, en)
    OBVIOUS
  <2> HIDE DEF fr
  <2>4. decode_frame(b, at, en, NoLimit).err = OK
    BY <1>6, <2>1, <2>2, <2>3, FrameBack
  <2>5. decode_frame(b, at, en, NoLimit).frame = fr
    BY <1>6, <2>1, <2>2, <2>3, FrameBack
  <2>6. decode_frame(b, at, en, NoLimit).pos = at + Len(E)
    BY <1>6, <2>1, <2>2, <2>3, FrameBack
  <2> QED
    BY <2>2, <2>3, <2>4, <2>5, <2>6, Zenon
<1>7. CASE fr.type = "PADDING"
  <2>1. at + Len(E) = Len(b) \/ b[(at + Len(E)) + 1] # 0
    <3>1. CASE j + 1 = n
      BY <1>2, <1>5, <3>1
    <3>2. CASE j + 1 # n
      <4> DEFINE k == j + 1
                 G == encode_frame(fs[k + 1])
      <4>1. k \in 1 .. Len(fs) - 1 /\ k \in 0..(n - 1) /\ k + 1 \in 1..n
        BY <1>8, <3>2
      <4>2. fs[k].type = "PADDING" => fs[k + 1].type # "PADDING"
        BY <4>1 DEF RecordFits
      <4>3. FrameFits(fs[k + 1]) /\ ss[k + 1] = G /\ fs[k + 1].type # "PADDING"
        BY <1>1, <1>7, <4>1, <4>2
      <4>4. Len(G) \in Nat /\ Len(G) >= 1 /\ G[1] # 0
        BY <4>3, FrameBytes
      <4>5. At(b, PartEnd(ss, k), G)
        BY <1>2, <4>1, <4>3
      <4> HIDE DEF G
      <4>6. b[PartEnd(ss, k) + 1] # 0
        BY <4>4, <4>5 DEF At
      <4> QED
        BY <1>5, <4>6
    <3> QED
      BY <3>1, <3>2
  <2>2. FrameFits(fr) /\ b \in Seq(Byte) /\ at \in Nat /\ At(b, at, E)
        /\ PartEnd(ss, j + 1) = at + Len(E)
    BY <1>2, <1>4, <1>5
  <2>3. fr = fs[j + 1]
    OBVIOUS
  <2> HIDE DEF fr
  <2>4. decode_frame(b, at, en, NoLimit).err = OK
    BY <1>7, <2>1, <2>2, PaddingBack
  <2>5. decode_frame(b, at, en, NoLimit).frame = fr
    BY <1>7, <2>1, <2>2, PaddingBack
  <2>6. decode_frame(b, at, en, NoLimit).pos = at + Len(E)
    BY <1>7, <2>1, <2>2, PaddingBack
  <2> QED
    BY <2>2, <2>3, <2>4, <2>5, <2>6, Zenon
<1> QED
  BY <1>6, <1>7

\* The frames of a record are read as they were written, each in one round.
LEMMA FramesBack ==
  ASSUME NEW fs, RecordFits(fs), NEW en, \A i \in 1..Len(fs) : Negotiated(fs[i], en)
  PROVE  decode_frames(encode_frames(fs), en, NoLimit) = Here(Len(encode_frames(fs)), fs)
<1> DEFINE ss == [i \in DOMAIN fs |-> encode_frame(fs[i])]
           b == FlattenSeq(ss)
           n == Len(fs)
           R == FrameRounds(b, en, NoLimit)
           S == {i \in Nat : \E j \in 0..n : j <= i /\ (j = i \/ j = n)
                                /\ R[i] = Here(PartEnd(ss, j), SubSeq(fs, 1, j))}
<1>1. /\ \E X : fs \in Seq(X)
      /\ n \in Nat /\ Len(ss) = n /\ ss \in Seq(Seq(Byte))
      /\ \A i \in 1..n : FrameFits(fs[i]) /\ ss[i] = encode_frame(fs[i])
      /\ \A i \in 1..Len(ss) : Len(ss[i]) >= 1
      /\ encode_frames(fs) = b /\ b \in Seq(Byte)
  BY FramesAre
<1>2. /\ PartEnd(ss, 0) = 0 /\ PartEnd(ss, n) = Len(b)
      /\ \A i \in 0..n : PartEnd(ss, i) \in 0..Len(b)
      /\ \A i \in 0..(n - 1) : PartEnd(ss, i + 1) = PartEnd(ss, i) + Len(ss[i + 1])
  BY <1>1, Parts
<1>3. n <= Len(b) /\ Len(b) \in Nat
  <2>1. n <= PartEnd(ss, n)
    <3>1. n \in 0..Len(ss)
      BY <1>1
    <3> QED
      BY <1>1, <3>1, PartsLong
  <2> QED
    BY <1>1, <1>2, <2>1
<1>4. ASSUME NEW j \in 0..(n - 1)
      PROVE  /\ decode_frame(b, PartEnd(ss, j), en, NoLimit).err = OK
             /\ decode_frame(b, PartEnd(ss, j), en, NoLimit).frame = fs[j + 1]
             /\ decode_frame(b, PartEnd(ss, j), en, NoLimit).pos = PartEnd(ss, j + 1)
  <2>1. Negotiated(fs[j + 1], en)
    BY <1>1
  <2> QED
    BY <2>1, FrameOf
<1>5. R[0] = Here(0, <<>>) /\ \A i \in 0..(Len(b) - 1) : R[i + 1] = FrameRound(b, en, NoLimit, R[i])
  BY <1>3, FrameRoundsAre
<1> HIDE DEF R, b, ss
<1>6. 0 \in S
  <2>1. SubSeq(fs, 1, 0) = <<>>
    BY <1>1
  <2>2. 0 \in 0..n /\ 0 <= 0
    BY <1>1
  <2>3. R[0] = Here(PartEnd(ss, 0), SubSeq(fs, 1, 0))
    BY <1>2, <1>5, <2>1
  <2> QED
    BY <2>2, <2>3
<1>7. ASSUME NEW i \in 0..(Len(b) - 1), i \in S PROVE i + 1 \in S
  <2>1. PICK j \in 0..n : j <= i /\ (j = i \/ j = n) /\ R[i] = Here(PartEnd(ss, j), SubSeq(fs, 1, j))
    BY <1>7
  <2> DEFINE p == R[i]
             at == PartEnd(ss, j)
             s == SubSeq(fs, 1, j)
             d == decode_frame(b, at, en, NoLimit)
  <2>2. R[i + 1] = FrameRound(b, en, NoLimit, p)
    BY <1>5
  <2>3. p = Here(at, s) /\ p.err = OK /\ p.pos = at /\ i + 1 \in Nat /\ i \in Nat
    BY <1>3, <2>1, HereIs
  <2> HIDE DEF p
  <2>4. CASE j = n
    <3>1. p.pos >= Len(b)
      BY <1>1, <1>2, <1>3, <2>3, <2>4
    <3>2. R[i + 1] = p
      BY <2>2, <3>1 DEF FrameRound
    <3>3. j <= i + 1
      BY <1>1, <2>1, <2>3
    <3> QED
      BY <2>3, <2>4, <3>2, <3>3
  <2>5. CASE j # n
    <3>1. j = i /\ j \in 0..(n - 1) /\ j + 1 \in 0..n /\ j + 1 \in 1..Len(ss)
      BY <1>1, <2>1, <2>5
    <3>2. d.err = OK /\ d.frame = fs[j + 1] /\ d.pos = PartEnd(ss, j + 1)
      BY <1>4, <3>1
    <3>3. ~(p.pos >= Len(b))
      <4> DEFINE l == ss[j + 1]
                 e == PartEnd(ss, j + 1)
      <4>1. Len(l) >= 1 /\ l \in Seq(Byte) /\ e = at + Len(l) /\ e \in 0..Len(b)
            /\ at \in 0..Len(b)
        BY <1>1, <1>2, <3>1
      <4> HIDE DEF l, e, at
      <4> QED
        BY <1>3, <2>3, <4>1
    <3> HIDE DEF d
    <3>4. R[i + 1] = Moved(p, d.pos, d.frame)
      <4>1. FrameRound(b, en, NoLimit, p) = NextFrame(p, d)
        BY <2>3, <3>3 DEF FrameRound, d
      <4>2. NextFrame(p, d) = Moved(p, d.pos, d.frame)
        BY <3>2 DEF NextFrame, Collect, Moved
      <4> QED
        BY <2>2, <4>1, <4>2
    <3>5. Moved(p, d.pos, d.frame) = Here(d.pos, Append(s, d.frame))
      BY <2>3, HereIs
    <3>6. Append(s, fs[j + 1]) = SubSeq(fs, 1, j + 1)
      <4>1. PICK X : fs \in Seq(X)
        BY <1>1
      <4> QED
        BY <1>1, <3>1, <4>1
    <3>7. R[i + 1] = Here(PartEnd(ss, j + 1), SubSeq(fs, 1, j + 1))
      BY <3>2, <3>4, <3>5, <3>6
    <3>8. j + 1 <= i + 1 /\ j + 1 = i + 1
      BY <3>1, <2>3
    <3> QED
      BY <2>3, <3>1, <3>7, <3>8
  <2> QED
    BY <2>4, <2>5
<1> HIDE DEF S
<1>8. \A i \in 0..Len(b) : i \in S
  BY <1>3, <1>6, <1>7, InductionTo
<1>9. Len(b) \in S
  <2>1. Len(b) \in 0..Len(b)
    BY <1>3
  <2> QED
    BY <1>8, <2>1
<1>10. PICK j \in 0..n : j <= Len(b) /\ (j = Len(b) \/ j = n)
                         /\ R[Len(b)] = Here(PartEnd(ss, j), SubSeq(fs, 1, j))
  BY <1>9 DEF S
<1>11. j = n
  BY <1>1, <1>3, <1>10
<1>12. SubSeq(fs, 1, n) = fs
  <2>1. PICK X : fs \in Seq(X)
    BY <1>1
  <2> QED
    BY <1>1, <2>1
<1>13. R[Len(b)] = Here(Len(b), fs)
  BY <1>2, <1>10, <1>11, <1>12
<1>14. decode_frames(b, en, NoLimit) = R[Len(b)]
  BY DEF decode_frames, R
<1> QED
  BY <1>1, <1>13, <1>14

\* A record is as long as its Size and its frames.
LEMMA RecordParts ==
  ASSUME NEW fs, RecordFits(fs), NEW w \in Widths, Len(encode_frames(fs)) < Capacity(w)
  PROVE  /\ encode_frames(fs) \in Seq(Byte) /\ Len(encode_frames(fs)) \in Nat
         /\ encode_varint(Len(encode_frames(fs)), w) \in Seq(Byte)
         /\ Len(encode_varint(Len(encode_frames(fs)), w)) = w
         /\ encode_record(fs, w) = encode_varint(Len(encode_frames(fs)), w) \o encode_frames(fs)
         /\ encode_record(fs, w) \in Seq(Byte)
         /\ Len(encode_record(fs, w)) = w + Len(encode_frames(fs))
         /\ Len(encode_frames(fs)) \in 0..MAX_VARINT
<1> DEFINE body == encode_frames(fs)
           l == encode_varint(Len(body), w)
<1>1. body \in Seq(Byte)
  BY FramesAre
<1>2. encode_record(fs, w) = l \o body
  BY DEF encode_record
<1>3. Len(body) < Capacity(w)
  OBVIOUS
<1> HIDE DEF body
<1>4. Len(body) \in Nat
  BY <1>1
<1>5. l \in Seq(Byte) /\ Len(l) = w
  BY <1>3, <1>4, Encodes
<1> HIDE DEF l
<1>6. l \o body \in Seq(Byte) /\ Len(l \o body) = w + Len(body)
  BY <1>1, <1>5, Joined
<1>7. Len(body) \in 0..MAX_VARINT
  <2>1. w \in {1, 2, 4, 8} /\ Capacity(w) \in Nat
    BY CapacitiesGrow DEF Widths
  <2>2. /\ Capacity(1) \in Nat /\ Capacity(2) \in Nat /\ Capacity(4) \in Nat /\ Capacity(8) \in Nat
        /\ Capacity(1) <= Capacity(2) /\ Capacity(2) <= Capacity(4) /\ Capacity(4) <= Capacity(8)
    BY CapacitiesGrow DEF Widths
  <2>3. Capacity(w) <= Capacity(8)
    BY <2>1, <2>2
  <2> QED
    BY <1>3, <1>4, <2>1, <2>2, <2>3 DEF MAX_VARINT
<1> QED
  BY <1>1, <1>2, <1>4, <1>5, <1>6, <1>7 DEF body, l

\* What the reader returns of a record of these frames that ends there.
ReadWhole(fs, end) == Result(OK, TRUE, fs, end)

\* A record that a reader with this limit and these gates understands.
Sendable(fs, en, w, max) ==
  /\ RecordFits(fs) /\ \A i \in 1..Len(fs) : Negotiated(fs[i], en)
  /\ w \in Widths /\ Len(encode_frames(fs)) < Capacity(w)
  /\ max \in Nat /\ Len(encode_frames(fs)) \in 1..max

(* A record of negotiated frames, written whole, is decoded to its frames,    *)
(* whatever the width of its Size and whatever surrounds it.                  *)
LEMMA RecordBack ==
  ASSUME NEW fs, NEW en, NEW w, NEW max, Sendable(fs, en, w, max),
         NEW b \in Seq(Byte), NEW at \in Nat, At(b, at, encode_record(fs, w))
  PROVE  decode_record(b, at, max, en) = ReadWhole(fs, at + Len(encode_record(fs, w)))
<1>0. /\ RecordFits(fs) /\ \A i \in 1..Len(fs) : Negotiated(fs[i], en)
      /\ w \in Widths /\ Len(encode_frames(fs)) < Capacity(w)
      /\ max \in Nat /\ Len(encode_frames(fs)) \in 1..max
  BY DEF Sendable
<1> DEFINE body == encode_frames(fs)
           l == encode_varint(Len(body), w)
           size == decode_varint(b, at)
           at2 == at + w
           end == at2 + Len(body)
           whole == decode_frames(SubSeq(b, at2 + 1, end), en, NoLimit)
<1>1. /\ body \in Seq(Byte) /\ Len(body) \in Nat /\ l \in Seq(Byte) /\ Len(l) = w
      /\ encode_record(fs, w) = l \o body /\ Len(encode_record(fs, w)) = w + Len(body)
  BY <1>0, RecordParts
<1>2. At(b, at, l) /\ At(b, at2, body)
  <2>1. At(b, at, l \o body)
    BY <1>1
  <2> HIDE DEF l, body
  <2> QED
    BY <1>1, <2>1, AtParts
<1>3. size = [ok |-> TRUE, pos |-> at2, width |-> w, val |-> Len(body)]
  BY <1>0, <1>1, <1>2, ReadsVarint
<1>4. at2 \in Nat /\ at + Len(encode_record(fs, w)) = end /\ Len(body) \in 1..max
  <2>1. w \in Nat
    BY <1>0 DEF Widths
  <2>2. Len(body) \in 1..max
    BY <1>0
  <2> HIDE DEF body
  <2> QED
    BY <1>1, <2>1, <2>2
<1>5. SubSeq(b, at2 + 1, end) = body
  <2> HIDE DEF body, at2
  <2> QED
    BY <1>0, <1>1, <1>2, <1>4, AtIs
<1>6. whole = Here(Len(body), fs)
  BY <1>0, <1>5, FramesBack
<1>7. end <= Len(b)
  BY <1>2 DEF At
<1>8. whole.err = OK /\ whole.f = fs
  BY <1>6 DEF Here
<1> HIDE DEF body, l, at2, whole
<1>9. size.ok /\ size.pos = at2 /\ size.val = Len(body) /\ size.width = w
  BY <1>3
<1> HIDE DEF size
<1>10. Body(b, at2, end, en) = ReadWhole(fs, end)
  <2>1. Body(b, at2, end, en) = Whole(whole, at2, end)
    BY DEF Body, whole
  <2> HIDE DEF end
  <2> QED
    BY <1>8, <2>1 DEF Whole, ReadWhole
<1>11. DecodeSized(b, at, size, max, en) = Body(b, at2, end, en)
  <2>1. ~(size.val = 0 \/ size.val > max) /\ ~(size.pos + size.val > Len(b))
    BY <1>0, <1>1, <1>4, <1>7, <1>9
  <2>2. size.pos + size.val = end
    BY <1>9
  <2> HIDE DEF end
  <2> QED
    BY <1>9, <2>1, <2>2 DEF DecodeSized
<1>12. decode_record(b, at, max, en) = ReadWhole(fs, at + Len(encode_record(fs, w)))
  <2> HIDE DEF end
  <2> QED
    BY <1>4, <1>10, <1>11 DEF decode_record, size
<1> QED
  BY <1>12

\* The Size of a record, as it is read.
LEMMA SizeBack ==
  ASSUME NEW fs, RecordFits(fs), NEW w \in Widths, Len(encode_frames(fs)) < Capacity(w),
         NEW b \in Seq(Byte), NEW at \in Nat, At(b, at, encode_record(fs, w))
  PROVE  decode_varint(b, at).width = w /\ decode_varint(b, at).val = Len(encode_frames(fs))
<1> DEFINE body == encode_frames(fs)
           n == Len(body)
           l == encode_varint(n, w)
<1>1. /\ body \in Seq(Byte) /\ n \in Nat /\ l \in Seq(Byte) /\ n < Capacity(w)
      /\ encode_record(fs, w) = l \o body
  BY RecordParts
<1>2. At(b, at, l \o body)
  BY <1>1
<1> HIDE DEF body, n
<1>3. At(b, at, l)
  <2> HIDE DEF l
  <2> QED
    BY <1>1, <1>2, AtParts
<1>4. decode_varint(b, at) = [ok |-> TRUE, pos |-> at + w, width |-> w, val |-> n]
  BY <1>1, <1>3, ReadsVarint
<1> QED
  BY <1>4 DEF n, body

-----------------------------------------------------------------------------
(* The pipe. *)

WireOK == wire \in Seq(Byte) /\ got \in 0..Len(wire)

\* Bytes are only added, and delivered in order.
LEMMA WireStep ==
  ASSUME WireOK, [PipeNext]_pipeVars
  PROVE  /\ WireOK' /\ got <= got' /\ Continues(wire', wire)
         /\ enabled' = enabled /\ accept' = accept
<1>0. wire \in Seq(Byte) /\ Len(wire) \in Nat /\ got \in 0..Len(wire)
  BY DEF WireOK
<1>3. ASSUME NEW bytes \in Seq(Byte)
      PROVE  /\ wire \o bytes \in Seq(Byte) /\ Len(wire) <= Len(wire \o bytes)
             /\ Continues(wire \o bytes, wire)
  <2>1. wire \o bytes \in Seq(Byte) /\ Len(wire \o bytes) = Len(wire) + Len(bytes)
        /\ Len(bytes) \in Nat /\ \A i \in 1..Len(wire) : (wire \o bytes)[i] = wire[i]
    BY <1>0
  <2> QED
    BY <2>1, <1>0 DEF Continues
<1>4. ASSUME UNCHANGED <<wire, enabled, accept>>, got' \in 0..Len(wire), got <= got'
      PROVE  /\ WireOK' /\ got <= got' /\ Continues(wire', wire)
             /\ enabled' = enabled /\ accept' = accept
  BY <1>0, <1>4 DEF WireOK, Continues
<1>5. ASSUME Deliver PROVE UNCHANGED <<wire, enabled, accept>> /\ got' \in 0..Len(wire) /\ got <= got'
  BY <1>0, <1>5 DEF Deliver
<1>6. ASSUME Read PROVE UNCHANGED <<wire, enabled, accept>> /\ got' = got
  BY <1>6 DEF Read, Return
<1>7. ASSUME End PROVE UNCHANGED <<wire, enabled, accept>> /\ got' = got
  BY <1>7 DEF End
<1>8. ASSUME UNCHANGED pipeVars PROVE UNCHANGED <<wire, enabled, accept>> /\ got' = got
  BY <1>8 DEF pipeVars
<1>9. ASSUME NEW r \in Records, NEW w \in SizeWidths, Write(r, w)
      PROVE  /\ WireOK' /\ got <= got' /\ Continues(wire', wire)
             /\ enabled' = enabled /\ accept' = accept
  <2> DEFINE bytes == encode_record(r, w)
  <2>1. bytes \in Seq(Byte)
    BY <1>9, PipeAssumption, RecordParts DEF Write
  <2>2. wire' = wire \o bytes /\ UNCHANGED <<got, enabled, accept>>
    BY <1>9 DEF Write, Put
  <2> HIDE DEF bytes
  <2>3. /\ wire \o bytes \in Seq(Byte) /\ Len(wire) <= Len(wire \o bytes)
        /\ Continues(wire \o bytes, wire)
    BY <2>1, <1>3
  <2>4. wire' \in Seq(Byte) /\ Len(wire) <= Len(wire') /\ Continues(wire', wire)
    BY <2>2, <2>3
  <2> QED
    BY <2>2, <2>4, <1>0 DEF WireOK
<1>11. ASSUME NEW b \in RawWrites, WriteRaw(b)
       PROVE  /\ WireOK' /\ got <= got' /\ Continues(wire', wire)
              /\ enabled' = enabled /\ accept' = accept
  <2>1. b \in Seq(Byte) /\ wire' = wire \o b /\ UNCHANGED <<got, enabled, accept>>
    BY <1>11, PipeAssumption DEF WriteRaw, Put
  <2>2. /\ wire \o b \in Seq(Byte) /\ Len(wire) <= Len(wire \o b)
        /\ Continues(wire \o b, wire)
    BY <2>1, <1>3
  <2>3. wire' \in Seq(Byte) /\ Len(wire) <= Len(wire') /\ Continues(wire', wire)
    BY <2>1, <2>2
  <2> QED
    BY <2>1, <2>3, <1>0 DEF WireOK
<1>10. CASE Deliver \/ Read \/ End \/ UNCHANGED pipeVars
  BY <1>0, <1>4, <1>5, <1>6, <1>7, <1>8, <1>10
<1> QED
  BY <1>9, <1>10, <1>11 DEF PipeNext

\* The first bytes of a buffer and more bytes of a longer one.
LEMMA StartContinues ==
  ASSUME NEW a \in Seq(Byte), NEW b \in Seq(Byte), Continues(b, a),
         NEW m \in 0..Len(a), NEW n \in 0..Len(b), m <= n
  PROVE  /\ SubSeq(a, 1, m) \in Seq(Byte) /\ SubSeq(b, 1, n) \in Seq(Byte)
         /\ Len(SubSeq(a, 1, m)) = m /\ Len(SubSeq(b, 1, n)) = n
         /\ Continues(SubSeq(b, 1, n), SubSeq(a, 1, m))
<1>1. Len(a) \in Nat /\ Len(b) \in Nat
  OBVIOUS
<1>2. SubSeq(a, 1, m) \in Seq(Byte) /\ Len(SubSeq(a, 1, m)) = m
      /\ \A i \in 1..m : SubSeq(a, 1, m)[i] = a[i]
  BY <1>1
<1>3. SubSeq(b, 1, n) \in Seq(Byte) /\ Len(SubSeq(b, 1, n)) = n
      /\ \A i \in 1..n : SubSeq(b, 1, n)[i] = b[i]
  BY <1>1
<1>4. Continues(SubSeq(b, 1, n), SubSeq(a, 1, m))
  BY <1>1, <1>2, <1>3 DEF Continues
<1> QED
  BY <1>2, <1>3, <1>4

\* What the reader has is continued by what it has after the step.
LEMMA Delivered ==
  ASSUME WireOK, WireOK', got <= got', Continues(wire', wire)
  PROVE  buf \in Seq(Byte) /\ buf' \in Seq(Byte) /\ Len(buf) = got /\ Continues(buf', buf)
  BY StartContinues DEF WireOK, buf

\* Nothing is there at first.
LEMMA WireInit == PipeInit => WireOK
<1> SUFFICES ASSUME PipeInit PROVE WireOK
  OBVIOUS
<1>1. wire = <<>> /\ got = 0
  BY DEF PipeInit
<1> QED
  BY <1>1 DEF WireOK

(* The first-bytes check of a pipe decides once.                              *)
THEOREM DecidesOnce == PipeSpec => ClassifyDecidesOnce
<1>1. WireOK /\ [PipeNext]_pipeVars => WireOK'
  BY WireStep
<1>2. WireOK /\ [PipeNext]_pipeVars => [class # "need-more" => class' = class]_pipeVars
  <2> SUFFICES ASSUME WireOK, [PipeNext]_pipeVars, class # "need-more"
               PROVE  class' = class
    OBVIOUS
  <2>1. /\ WireOK' /\ got <= got' /\ Continues(wire', wire)
        /\ enabled' = enabled /\ accept' = accept
    BY WireStep
  <2>2. buf \in Seq(Byte) /\ buf' \in Seq(Byte) /\ Continues(buf', buf)
    BY <2>1, Delivered
  <2> DEFINE a == buf
             b == buf'
  <2>3. a \in Seq(Byte) /\ b \in Seq(Byte) /\ Continues(b, a)
    BY <2>2
  <2>4. class = classify_first_bytes(a, accept[1], accept[2], MaxRecordSize)
        /\ class' = classify_first_bytes(b, accept[1], accept[2], MaxRecordSize)
    BY <2>1 DEF class
  <2> HIDE DEF a, b
  <2>5. classify_first_bytes(a, accept[1], accept[2], MaxRecordSize) # "need-more"
    BY <2>4
  <2> QED
    BY <2>3, <2>4, <2>5, ClassifyOnce
<1> QED
  BY <1>1, <1>2, WireInit, PTL DEF PipeSpec, ClassifyDecidesOnce

\* The recursive definition of RecordRounds defines a function.
LEMMA RecordRoundsAre ==
  ASSUME NEW b, Len(b) \in Nat, NEW max, NEW en
  PROVE  RecordRounds(b, max, en) =
           [i \in 0..Len(b) |-> IF i = 0 THEN NoItems
                                ELSE RecordRound(b, max, en, RecordRounds(b, max, en)[i - 1])]
<1> DEFINE Ok(n, a) == a = [i \in 0..n |-> IF i = 0 THEN NoItems ELSE RecordRound(b, max, en, a[i - 1])]
           S == {n \in Nat : \E a : Ok(n, a)}
<1>1. Ok(0, [k \in 0..0 |-> NoItems])
  OBVIOUS
<1>2. ASSUME NEW n \in Nat, NEW a, Ok(n, a) PROVE \E c : Ok(n + 1, c)
  <2> DEFINE c == [k \in 0..(n + 1) |-> IF k \in 0..n THEN a[k] ELSE RecordRound(b, max, en, a[n])]
  <2>1. \A k \in 0..(n + 1) : c[k] = IF k = 0 THEN NoItems ELSE RecordRound(b, max, en, c[k - 1])
    BY <1>2
  <2>2. Ok(n + 1, c)
    BY <2>1
  <2> HIDE DEF Ok
  <2> QED
    BY <2>2
<1> HIDE DEF Ok
<1>3. Len(b) \in S
  <2>1. 0 \in S /\ \A n \in Nat : n \in S => n + 1 \in S
    BY <1>1, <1>2
  <2> HIDE DEF S
  <2> QED
    BY <2>1, Induction
<1>4. \E a : Ok(Len(b), a)
  BY <1>3
<1> QED
  BY <1>4 DEF RecordRounds, Rounds, Ok

\* What a record is decoded to: done, in error, or neither while incomplete.
LEMMA RecordIs ==
  ASSUME NEW b \in Seq(Byte), NEW at \in Nat, NEW max \in Nat, NEW en,
         NEW r, r = decode_record(b, at, max, en)
  PROVE  /\ r.done \in BOOLEAN
         /\ r.done => r.err = OK /\ r.pos \in (at + 2)..Len(b)
<1> DEFINE size == decode_varint(b, at)
<1>1. r = DecodeSized(b, at, size, max, en)
  BY DEF decode_record
<1>2. Len(b) \in Nat /\ size.ok \in BOOLEAN
      /\ (size.ok => size.pos \in (at + 1)..Len(b) /\ size.val \in Nat)
  BY DecodedIs
<1> HIDE DEF size
<1>3. CASE ~size.ok \/ size.val = 0 \/ size.val > max \/ size.pos + size.val > Len(b)
  <2>1. r = Result(OK, FALSE, <<>>, at) \/ r = Result(FE, FALSE, <<>>, at)
    BY <1>1, <1>2, <1>3 DEF DecodeSized
  <2>2. r.done = FALSE
    BY <2>1 DEF Result
  <2> QED
    BY <2>2
<1>4. CASE ~(~size.ok \/ size.val = 0 \/ size.val > max \/ size.pos + size.val > Len(b))
  <2> DEFINE body == decode_frames(SubSeq(b, size.pos + 1, size.pos + size.val), en, NoLimit)
  <2>1. r = Whole(body, size.pos, size.pos + size.val)
    BY <1>1, <1>2, <1>4 DEF DecodeSized, Body
  <2> HIDE DEF body
  <2>2. \/ r.done = FALSE
        \/ r.done = TRUE /\ r.err = OK /\ r.pos = size.pos + size.val
    BY <2>1 DEF Whole, Result
  <2>3. size.pos + size.val \in (at + 2)..Len(b)
    BY <1>2, <1>4
  <2>4. CASE r.done = FALSE
    BY <2>4
  <2>5. CASE r.done = TRUE /\ r.err = OK /\ r.pos = size.pos + size.val
    BY <2>5, <2>3
  <2> QED
    BY <2>2, <2>4, <2>5
<1> QED
  BY <1>3, <1>4

\* A record that is done or in error stays so whatever follows.
LEMMA ContinuesRecord ==
  ASSUME NEW a \in Seq(Byte), NEW b \in Seq(Byte), Continues(b, a), NEW at \in Nat,
         NEW max \in Nat, NEW en,
         decode_record(a, at, max, en).done \/ decode_record(a, at, max, en).err # OK
  PROVE  decode_record(b, at, max, en) = decode_record(a, at, max, en)
<1> DEFINE size == decode_varint(a, at)
<1>0. Len(a) \in Nat /\ Len(b) \in Nat /\ Len(a) <= Len(b)
  BY DEF Continues
<1>1. decode_record(a, at, max, en) = DecodeSized(a, at, size, max, en)
  BY DEF decode_record
<1>2. size.ok
  BY <1>1 DEF DecodeSized, Result
<1>3. decode_varint(b, at) = size
  BY <1>2, ContinuesVarint
<1>4. decode_record(b, at, max, en) = DecodeSized(b, at, size, max, en)
  BY <1>3 DEF decode_record
<1>5. size.pos \in (at + 1)..Len(a) /\ size.val \in Nat
  BY <1>2, DecodedIs
<1> HIDE DEF size
<1>6. CASE size.val = 0 \/ size.val > max
  BY <1>1, <1>2, <1>4, <1>6 DEF DecodeSized
<1>7. CASE ~(size.val = 0 \/ size.val > max)
  <2>1. ~(size.pos + size.val > Len(a))
    BY <1>1, <1>2, <1>7 DEF DecodeSized, Result
  <2>2. ~(size.pos + size.val > Len(b))
    BY <2>1, <1>0, <1>5
  <2> DEFINE p == size.pos
             q == size.pos + size.val
  <2>3. SubSeq(a, p + 1, q) = SubSeq(b, p + 1, q)
    <3>1. p \in Nat /\ q \in Nat /\ p <= q /\ q <= Len(a)
      BY <1>0, <1>5, <2>1
    <3> HIDE DEF p, q
    <3>2. SubSeq(a, p + 1, q) = [i \in 1..(q - p) |-> a[p + i]]
      BY <3>1, <1>0
    <3>3. SubSeq(b, p + 1, q) = [i \in 1..(q - p) |-> b[p + i]]
      BY <3>1, <1>0
    <3> QED
      BY <3>1, <3>2, <3>3, <1>0 DEF Continues
  <2>4. Body(a, size.pos, size.pos + size.val, en) = Body(b, size.pos, size.pos + size.val, en)
    BY <2>3 DEF Body
  <2>5. DecodeSized(a, at, size, max, en) = Body(a, size.pos, size.pos + size.val, en)
    BY <1>2, <1>7, <2>1 DEF DecodeSized
  <2>6. DecodeSized(b, at, size, max, en) = Body(b, size.pos, size.pos + size.val, en)
    BY <1>2, <1>7, <2>2 DEF DecodeSized
  <2> QED
    BY <1>1, <1>4, <2>4, <2>5, <2>6
<1> QED
  BY <1>6, <1>7

\* What records may be decoded to, and what the loop over them may hold.
Returned(max, en) == {decode_record(b, p, max, en).frames : b \in Seq(Byte), p \in Nat}
Loops(b, max, en) == [pos : 0..Len(b), f : Seq(Returned(max, en)), err : {decode_record(b, p, max, en).err : p \in Nat} \cup {OK}]

\* One round: nothing, the error of the record, or the record.
LEMMA RoundIs ==
  ASSUME NEW b \in Seq(Byte), NEW max \in Nat, NEW en, NEW p \in Loops(b, max, en),
         NEW q, q = RecordRound(b, max, en, p), NEW r, r = decode_record(b, p.pos, max, en)
  PROVE  /\ q \in Loops(b, max, en)
         /\ \/ q = p /\ (p.err # OK \/ p.pos >= Len(b) \/ (r.err = OK /\ ~r.done))
            \/ /\ p.err = OK /\ p.pos < Len(b) /\ r.err # OK /\ q = [p EXCEPT !.err = r.err]
            \/ /\ p.err = OK /\ p.pos < Len(b) /\ r.done /\ r.err = OK
               /\ q = [pos |-> r.pos, f |-> Append(p.f, r.frames), err |-> OK]
<1>0. Len(b) \in Nat /\ p.pos \in Nat
  BY DEF Loops
<1>1. r.done \in BOOLEAN /\ (r.done => r.err = OK /\ r.pos \in (p.pos + 2)..Len(b))
  BY <1>0, RecordIs
<1>2. CASE p.err # OK \/ p.pos >= Len(b)
  BY <1>2 DEF RecordRound
<1>3. CASE p.err = OK /\ p.pos < Len(b) /\ r.err = OK /\ ~r.done
  BY <1>0, <1>3 DEF RecordRound, NextRecord
<1>4. CASE p.err = OK /\ p.pos < Len(b) /\ r.err # OK
  <2>1. q = [p EXCEPT !.err = r.err]
    BY <1>0, <1>1, <1>4 DEF RecordRound, NextRecord, Collect, FailWith
  <2>2. q \in Loops(b, max, en)
    BY <2>1, <1>0 DEF Loops
  <2> QED
    BY <2>1, <2>2, <1>4
<1>5. CASE p.err = OK /\ p.pos < Len(b) /\ r.err = OK /\ r.done
  <2>1. q = [p EXCEPT !.pos = r.pos, !.f = Append(@, r.frames)]
    BY <1>0, <1>1, <1>5 DEF RecordRound, NextRecord, Collect
  <2>2. p = [pos |-> p.pos, f |-> p.f, err |-> p.err]
    BY DEF Loops
  <2>3. q = [pos |-> r.pos, f |-> Append(p.f, r.frames), err |-> OK]
    BY <2>1, <2>2, <1>5
  <2>4. r.frames \in Returned(max, en)
    BY <1>0 DEF Returned
  <2>5. r.pos \in 0..Len(b)
    BY <1>0, <1>1, <1>5
  <2>6. Append(p.f, r.frames) \in Seq(Returned(max, en))
    BY <2>4 DEF Loops
  <2>7. q \in Loops(b, max, en)
    BY <2>3, <2>5, <2>6 DEF Loops
  <2> QED
    BY <2>3, <2>7, <1>5
<1> QED
  BY <1>0, <1>1, <1>2, <1>3, <1>4, <1>5

\* The loop stays in the buffer, and returns at most one record in a round.
LEMMA LoopHolds ==
  ASSUME NEW b \in Seq(Byte), NEW max \in Nat, NEW en,
         NEW R, R = RecordRounds(b, max, en)
  PROVE  /\ R[0] = NoItems
         /\ \A i \in 0..(Len(b) - 1) : R[i + 1] = RecordRound(b, max, en, R[i])
         /\ \A i \in 0..Len(b) : R[i] \in Loops(b, max, en) /\ Len(R[i].f) <= i
<1>0. Len(b) \in Nat
  OBVIOUS
<1>1. R[0] = NoItems /\ \A i \in 0..(Len(b) - 1) : R[i + 1] = RecordRound(b, max, en, R[i])
  BY <1>0, RecordRoundsAre
<1> DEFINE S == {i \in Nat : R[i] \in Loops(b, max, en) /\ Len(R[i].f) <= i}
<1>2. 0 \in S
  <2>1. NoItems \in Loops(b, max, en)
    BY <1>0 DEF NoItems, Loops
  <2>2. Len(NoItems.f) = 0
    BY DEF NoItems
  <2> QED
    BY <2>1, <2>2, <1>1
<1>3. ASSUME NEW i \in 0..(Len(b) - 1), i \in S PROVE i + 1 \in S
  <2>1. R[i] \in Loops(b, max, en) /\ Len(R[i].f) <= i /\ R[i].pos \in Nat
    BY <1>3 DEF Loops
  <2>2. R[i + 1] = RecordRound(b, max, en, R[i])
    BY <1>1, <1>3
  <2> DEFINE r == decode_record(b, R[i].pos, max, en)
             p == R[i]
             q == R[i + 1]
  <2>3. q \in Loops(b, max, en)
    BY <2>1, <2>2, RoundIs
  <2>4. q.f = p.f \/ q.f = Append(p.f, r.frames)
    <3>1. p \in Loops(b, max, en) /\ q = RecordRound(b, max, en, p)
      BY <2>1, <2>2
    <3>0. r = decode_record(b, p.pos, max, en)
      OBVIOUS
    <3> HIDE DEF p, q, r
    <3>2. \/ q = p
          \/ q = [p EXCEPT !.err = r.err]
          \/ q = [pos |-> r.pos, f |-> Append(p.f, r.frames), err |-> OK]
      BY <3>0, <3>1, RoundIs
    <3> QED
      BY <3>1, <3>2 DEF Loops
  <2>5. p.f \in Seq(Returned(max, en)) /\ r.frames \in Returned(max, en)
    BY <2>1 DEF Loops, Returned
  <2> HIDE DEF q, r
  <2>6. Len(q.f) <= i + 1
    BY <2>1, <2>4, <2>5, <1>3
  <2> QED
    BY <2>3, <2>6, <1>3 DEF q
<1> HIDE DEF S
<1>4. \A i \in 0..Len(b) : i \in S
  BY <1>0, <1>2, <1>3, InductionTo
<1> QED
  BY <1>1, <1>4 DEF S

\* The records that one buffer holds whole are those that begin any longer one.
LEMMA ContinuesLoop ==
  ASSUME NEW a \in Seq(Byte), NEW b \in Seq(Byte), Continues(b, a), NEW max \in Nat, NEW en,
         NEW k \in 0..Len(a),
         RecordRounds(a, max, en)[k].err = OK, Len(RecordRounds(a, max, en)[k].f) = k
  PROVE  RecordRounds(b, max, en)[k] = RecordRounds(a, max, en)[k]
<1>0. Len(a) \in Nat /\ Len(b) \in Nat /\ Len(a) <= Len(b)
  BY DEF Continues
<1> DEFINE R == RecordRounds(a, max, en)
           Q == RecordRounds(b, max, en)
           S == {i \in Nat : R[i].err = OK /\ Len(R[i].f) = i => Q[i] = R[i]}
<1>1. /\ R[0] = NoItems
      /\ \A i \in 0..(Len(a) - 1) : R[i + 1] = RecordRound(a, max, en, R[i])
      /\ \A i \in 0..Len(a) : R[i] \in Loops(a, max, en) /\ Len(R[i].f) <= i
  BY LoopHolds
<1>2. Q[0] = NoItems /\ \A i \in 0..(Len(b) - 1) : Q[i + 1] = RecordRound(b, max, en, Q[i])
  BY LoopHolds
<1> HIDE DEF R, Q
<1>3. 0 \in S
  BY <1>1, <1>2
<1>4. ASSUME NEW i \in 0..(Len(a) - 1), i \in S PROVE i + 1 \in S
  <2> SUFFICES ASSUME R[i + 1].err = OK, Len(R[i + 1].f) = i + 1
               PROVE  Q[i + 1] = R[i + 1]
    BY <1>4
  <2> DEFINE p == R[i]
             q == R[i + 1]
             r == decode_record(a, p.pos, max, en)
  <2>1. p \in Loops(a, max, en) /\ Len(p.f) <= i /\ q = RecordRound(a, max, en, p) /\ i \in Nat
        /\ q.err = OK /\ Len(q.f) = i + 1
    BY <1>1, <1>4
  <2> HIDE DEF p, q, r
  <2>2. p.f \in Seq(Returned(max, en)) /\ Len(p.f) \in Nat /\ p.pos \in Nat
    BY <2>1 DEF Loops
  <2>3. /\ p.err = OK /\ p.pos < Len(a) /\ r.done /\ r.err = OK
        /\ q = [pos |-> r.pos, f |-> Append(p.f, r.frames), err |-> OK]
    <3>1. q # p
      BY <2>1, <2>2
    <3>2. q # [p EXCEPT !.err = r.err]
      <4>1. [p EXCEPT !.err = r.err].f = p.f
        BY <2>1 DEF Loops
      <4>2. q.f # p.f
        BY <2>1, <2>2
      <4> QED
        BY <4>1, <4>2
    <3>3. r = decode_record(a, p.pos, max, en)
      BY DEF r
    <3> QED
      BY <2>1, <3>1, <3>2, <3>3, RoundIs
  <2>4. r.frames \in Returned(max, en)
    BY <2>2 DEF r, Returned
  <2>5. Len(p.f) = i
    <3>1. q.f = Append(p.f, r.frames)
      BY <2>3
    <3> QED
      BY <2>1, <2>2, <2>4, <3>1
  <2>6. Q[i] = p
    BY <1>4, <2>3, <2>5 DEF p
  <2>7. Q[i + 1] = RecordRound(b, max, en, p)
    BY <1>0, <1>2, <1>4, <2>6
  <2>8. decode_record(b, p.pos, max, en) = r
    BY <2>2, <2>3, ContinuesRecord DEF r
  <2>9. RecordRound(b, max, en, p) = NextRecord(p, r)
    BY <1>0, <2>2, <2>3, <2>8 DEF RecordRound
  <2>10. RecordRound(a, max, en, p) = NextRecord(p, r)
    BY <1>0, <2>2, <2>3 DEF RecordRound, r
  <2> QED
    BY <2>1, <2>7, <2>9, <2>10 DEF q
<1> HIDE DEF S
<1>5. k \in S
  BY <1>0, <1>3, <1>4, InductionTo
<1> QED
  BY <1>5 DEF S, R, Q

\* The loop only adds records, and stops at the first error.
LEMMA LoopGrows ==
  ASSUME NEW b \in Seq(Byte), NEW max \in Nat, NEW en,
         NEW k \in 0..Len(b)
  PROVE  /\ Continues(RecordRounds(b, max, en)[Len(b)].f, RecordRounds(b, max, en)[k].f)
         /\ RecordRounds(b, max, en)[k].err # OK =>
              RecordRounds(b, max, en)[Len(b)] = RecordRounds(b, max, en)[k]
<1>0. Len(b) \in Nat
  OBVIOUS
<1> DEFINE R == RecordRounds(b, max, en)
<1> DEFINE S == {d \in Nat : Continues(R[k + d].f, R[k].f) /\ (R[k].err # OK => R[k + d] = R[k])}
<1>1. /\ R[0] = NoItems
      /\ \A i \in 0..(Len(b) - 1) : R[i + 1] = RecordRound(b, max, en, R[i])
      /\ \A i \in 0..Len(b) : R[i] \in Loops(b, max, en) /\ Len(R[i].f) <= i
  BY LoopHolds
<1> HIDE DEF R
<1>2. 0 \in S
  <2>1. R[k].f \in Seq(Returned(max, en))
    BY <1>1 DEF Loops
  <2>2. k + 0 = k
    BY <1>0
  <2> QED
    BY <2>1, <2>2 DEF Continues
<1>3. ASSUME NEW d \in 0..((Len(b) - k) - 1), d \in S PROVE d + 1 \in S
  <2> DEFINE p == R[k + d]
             q == R[(k + d) + 1]
             r == decode_record(b, p.pos, max, en)
  <2>0. k + d \in 0..(Len(b) - 1) /\ k + d \in 0..Len(b)
    BY <1>0, <1>3
  <2>1. p \in Loops(b, max, en) /\ q = RecordRound(b, max, en, p)
        /\ R[k] \in Loops(b, max, en)
    BY <1>1, <2>0
  <2>2. k + (d + 1) = (k + d) + 1 /\ d + 1 \in Nat
    BY <1>0, <1>3
  <2>3. Continues(p.f, R[k].f) /\ (R[k].err # OK => p = R[k])
    BY <1>3
  <2> HIDE DEF p, q, r
  <2>4. q = p \/ (p.err = OK /\ q = [p EXCEPT !.err = r.err])
        \/ (p.err = OK /\ q = [pos |-> r.pos, f |-> Append(p.f, r.frames), err |-> OK])
    BY <2>1, RoundIs DEF r
  <2>9. p.pos \in Nat
    BY <2>1, <1>0 DEF Loops
  <2>5. p.f \in Seq(Returned(max, en)) /\ r.frames \in Returned(max, en)
        /\ R[k].f \in Seq(Returned(max, en))
    BY <2>1, <2>9 DEF Loops, r, Returned
  <2>6. q.f = p.f \/ q.f = Append(p.f, r.frames)
    BY <2>1, <2>4 DEF Loops
  <2>7. Continues(q.f, R[k].f)
    <3>1. CASE q.f = p.f
      BY <3>1, <2>3
    <3>2. CASE q.f = Append(p.f, r.frames)
      <4> DEFINE s == p.f
                 x == r.frames
                 u == R[k].f
                 X == Returned(max, en)
      <4>1. s \in Seq(X) /\ x \in X /\ u \in Seq(X) /\ Continues(s, u)
        BY <2>3, <2>5
      <4> HIDE DEF s, x, u, X
      <4>2. Continues(Append(s, x), u)
        BY <4>1 DEF Continues
      <4> QED
        BY <4>2, <3>2 DEF s, x, u
    <3> QED
      BY <2>6, <3>1, <3>2
  <2>8. R[k].err # OK => q = R[k]
    BY <2>3, <2>4
  <2> QED
    BY <2>2, <2>7, <2>8 DEF q
<1> HIDE DEF S
<1>4. Len(b) - k \in Nat
  BY <1>0
<1>5. \A d \in 0..(Len(b) - k) : d \in S
  BY <1>2, <1>3, <1>4, InductionTo
<1>6. Len(b) - k \in S
  BY <1>4, <1>5
<1>7. k + (Len(b) - k) = Len(b)
  BY <1>0
<1> QED
  BY <1>6, <1>7 DEF S, R

(* The reader is where the one pass is after as many rounds as it has        *)
(* returned records.                                                          *)
PassInv ==
  /\ WireOK
  /\ pos \in 0..got /\ Len(recs) <= pos
  /\ recs \in Seq(Returned(MaxRecordSize, enabled))
  /\ RecordRounds(wire, MaxRecordSize, enabled)[Len(recs)] = [pos |-> pos, f |-> recs, err |-> OK]
  /\ verdict \in {FE, PV, TPE} =>
       \/ pos < got /\ decode_record(wire, pos, MaxRecordSize, enabled).err = verdict
       \/ pos < got /\ Incomplete(Head1) /\ verdict = FE

\* An open pipe, an ended one and a failed one are different.
LEMMA Verdicts == /\ "open" \notin {FE, PV, TPE} /\ "ended" \notin {FE, PV, TPE}
                  /\ OK \notin {FE, PV, TPE}
  BY DEF FE, PV, TPE, OK

\* The reader and the pass start at the same place.
LEMMA PassInit == PipeInit => PassInv
<1> SUFFICES ASSUME PipeInit PROVE PassInv
  OBVIOUS
<1>1. wire = <<>> /\ got = 0 /\ pos = 0 /\ recs = <<>> /\ verdict = "open"
  BY DEF PipeInit
<1>2. WireOK
  BY WireInit
<1>3. RecordRounds(wire, MaxRecordSize, enabled)[0] = NoItems
  BY <1>2, PipeAssumption, LoopHolds DEF WireOK
<1>4. recs \in Seq(Returned(MaxRecordSize, enabled)) /\ Len(recs) = 0
  BY <1>1
<1> QED
  BY <1>1, <1>2, <1>3, <1>4, Verdicts DEF PassInv, NoItems

\* A write leaves the pass over what was there as it was.
LEMMA PassPut ==
  ASSUME PassInv, WireOK', Continues(wire', wire), UNCHANGED <<recs, pos, verdict, enabled>>,
         got <= got', verdict = "open"
  PROVE  PassInv'
<1>1. wire \in Seq(Byte) /\ wire' \in Seq(Byte) /\ Len(wire) \in Nat /\ got \in 0..Len(wire)
      /\ got' \in Nat
  BY DEF PassInv, WireOK
<1>2. Len(recs) \in 0..Len(wire)
  BY <1>1 DEF PassInv
<1>3. RecordRounds(wire', MaxRecordSize, enabled)[Len(recs)]
        = RecordRounds(wire, MaxRecordSize, enabled)[Len(recs)]
  <2>1. RecordRounds(wire, MaxRecordSize, enabled)[Len(recs)].err = OK
        /\ Len(RecordRounds(wire, MaxRecordSize, enabled)[Len(recs)].f) = Len(recs)
    BY DEF PassInv
  <2> QED
    BY <1>1, <1>2, <2>1, PipeAssumption, ContinuesLoop
<1>4. pos' \in 0..got' /\ Len(recs') <= pos' /\ recs' \in Seq(Returned(MaxRecordSize, enabled'))
  BY <1>1 DEF PassInv
<1>5. RecordRounds(wire', MaxRecordSize, enabled')[Len(recs')]
        = [pos |-> pos', f |-> recs', err |-> OK]
  BY <1>3 DEF PassInv
<1>6. verdict' \notin {FE, PV, TPE}
  BY Verdicts
<1> QED
  BY <1>4, <1>5, <1>6 DEF PassInv

\* A read is one round of the pass.
LEMMA PassRead ==
  ASSUME PassInv, WireOK', Read
  PROVE  PassInv'
<1> DEFINE r == Head1
<1>1. /\ wire \in Seq(Byte) /\ Len(wire) \in Nat /\ got \in 0..Len(wire) /\ pos \in 0..got
      /\ verdict = "open" /\ pos < got /\ Return(r) /\ recs \in Seq(Returned(MaxRecordSize, enabled))
      /\ Len(recs) <= pos /\ Len(recs) \in Nat /\ MaxRecordSize \in Nat
  BY PipeAssumption DEF PassInv, WireOK, Read
<1>2. UNCHANGED <<wire, got, enabled>>
  BY DEF Read, Return
<1>3. buf \in Seq(Byte) /\ Continues(wire, buf)
  <2>1. Continues(wire, wire) /\ Len(wire) \in 0..Len(wire) /\ SubSeq(wire, 1, Len(wire)) = wire
    BY <1>1 DEF Continues
  <2>2. buf \in Seq(Byte)
    BY <1>1 DEF buf
  <2>3. Len(buf) = got /\ \A i \in 1..got : buf[i] = wire[i]
    BY <1>1 DEF buf
  <2> QED
    BY <1>1, <2>2, <2>3 DEF Continues
<1>4. r = decode_record(buf, pos, MaxRecordSize, enabled) /\ (r.done \/ r.err # OK)
  BY <1>1 DEF Head1, Return
<1>5. decode_record(wire, pos, MaxRecordSize, enabled) = r
  BY <1>1, <1>3, <1>4, ContinuesRecord
<1> DEFINE R == RecordRounds(wire, MaxRecordSize, enabled)
           p == R[Len(recs)]
<1>6. p = [pos |-> pos, f |-> recs, err |-> OK]
  BY DEF PassInv
<1>7. R[Len(recs) + 1] = RecordRound(wire, MaxRecordSize, enabled, p)
  <2>1. Len(recs) \in 0..(Len(wire) - 1)
    BY <1>1
  <2>2. \A i \in 0..(Len(wire) - 1) : R[i + 1] = RecordRound(wire, MaxRecordSize, enabled, R[i])
    BY <1>1, LoopHolds
  <2> QED
    BY <2>1, <2>2
<1>8. p.pos = pos /\ p.f = recs /\ p.err = OK
  BY <1>6
<1>9. r = decode_record(wire, p.pos, MaxRecordSize, enabled)
  BY <1>5, <1>8
<1>10. r.done \in BOOLEAN /\ (r.done => r.err = OK /\ r.pos \in (pos + 2)..Len(buf))
  BY <1>1, <1>3, <1>4, RecordIs
<1>11. Len(buf) = got
  BY <1>1 DEF buf
<1> HIDE DEF r, R, p
<1>12. CASE r.done
  <2>1. recs' = Append(recs, r.frames) /\ pos' = r.pos /\ verdict' = verdict
    BY <1>1, <1>12 DEF Return
  <2>2. R[Len(recs) + 1] = [pos |-> r.pos, f |-> Append(p.f, r.frames), err |-> OK]
    <3>1. NextRecord(p, r) = [p EXCEPT !.pos = r.pos, !.f = Append(@, r.frames)]
      BY <1>10, <1>12 DEF NextRecord, Collect
    <3>2. R[Len(recs) + 1] = NextRecord(p, r)
      BY <1>1, <1>7, <1>8, <1>9 DEF RecordRound
    <3> QED
      BY <3>1, <3>2, <1>6, <1>8
  <2>3. r.frames \in Returned(MaxRecordSize, enabled)
    BY <1>1, <1>5 DEF Returned
  <2>4. Len(recs') = Len(recs) + 1 /\ recs' \in Seq(Returned(MaxRecordSize, enabled))
    BY <1>1, <2>1, <2>3
  <2>5. pos' \in 0..got' /\ Len(recs') <= pos'
    BY <1>1, <1>2, <1>10, <1>11, <1>12, <2>1, <2>4
  <2>6. RecordRounds(wire', MaxRecordSize, enabled')[Len(recs')]
          = [pos |-> pos', f |-> recs', err |-> OK]
    BY <1>2, <1>8, <2>1, <2>2, <2>4 DEF R
  <2>7. verdict' \notin {FE, PV, TPE}
    BY <1>1, <2>1, Verdicts
  <2> QED
    BY <1>2, <2>4, <2>5, <2>6, <2>7 DEF PassInv
<1>13. CASE ~r.done
  <2>1. UNCHANGED <<recs, pos>> /\ verdict' = r.err
    BY <1>1, <1>13 DEF Return
  <2>2. pos' < got' /\ decode_record(wire', pos', MaxRecordSize, enabled').err = verdict'
    BY <1>1, <1>2, <1>5, <2>1
  <2>3. recs' \in Seq(Returned(MaxRecordSize, enabled')) /\ pos' \in 0..got' /\ Len(recs') <= pos'
    BY <1>1, <1>2, <2>1
  <2>4. RecordRounds(wire', MaxRecordSize, enabled')[Len(recs')]
          = [pos |-> pos', f |-> recs', err |-> OK]
    BY <1>2, <2>1 DEF PassInv
  <2> QED
    BY <2>2, <2>3, <2>4 DEF PassInv
<1> QED
  BY <1>12, <1>13

\* The end of the carrier is an error if the pass ends inside a record.
LEMMA PassEnd ==
  ASSUME PassInv, WireOK', End
  PROVE  PassInv'
<1>1. UNCHANGED <<wire, got, pos, recs, enabled>>
      /\ verdict' = IF pos < got THEN FE ELSE "ended"
  BY DEF End
<1>2. pos \in 0..got /\ got \in Nat
  BY DEF PassInv, WireOK
<1>3. Head1' = Head1
  BY <1>1 DEF Head1, buf
<1>4. verdict' \in {FE, PV, TPE} => pos' < got' /\ Incomplete(Head1)' /\ verdict' = FE
  <2>1. CASE pos < got
    <3>1. Incomplete(Head1)
      BY <1>2, <2>1 DEF End
    <3>2. Incomplete(Head1)'
      BY <1>3, <3>1 DEF Incomplete
    <3> QED
      BY <1>1, <2>1, <3>2
  <2>2. CASE ~(pos < got)
    BY <1>1, <2>2, Verdicts
  <2> QED
    BY <2>1, <2>2
<1>5. /\ pos' \in 0..got' /\ Len(recs') <= pos'
      /\ recs' \in Seq(Returned(MaxRecordSize, enabled'))
      /\ RecordRounds(wire', MaxRecordSize, enabled')[Len(recs')]
           = [pos |-> pos', f |-> recs', err |-> OK]
  BY <1>1 DEF PassInv
<1> QED
  BY <1>4, <1>5 DEF PassInv

\* Every step keeps the reader on the pass.
LEMMA PassStep == PassInv /\ [PipeNext]_pipeVars => PassInv'
<1> SUFFICES ASSUME PassInv, [PipeNext]_pipeVars PROVE PassInv'
  OBVIOUS
<1>1. /\ WireOK' /\ got <= got' /\ Continues(wire', wire)
      /\ enabled' = enabled /\ accept' = accept
  BY WireStep DEF PassInv
<1>2. ASSUME NEW r \in Records, NEW w \in SizeWidths, Write(r, w) PROVE PassInv'
  <2>1. UNCHANGED <<recs, pos, verdict, enabled>> /\ verdict = "open"
    BY <1>2 DEF Write, Put, MayWrite
  <2> QED
    BY <1>1, <2>1, PassPut
<1>3. ASSUME NEW b \in RawWrites, WriteRaw(b) PROVE PassInv'
  <2>1. UNCHANGED <<recs, pos, verdict, enabled>> /\ verdict = "open"
    BY <1>3 DEF WriteRaw, Put, MayWrite
  <2> QED
    BY <1>1, <2>1, PassPut
<1>4. CASE Deliver
  <2>1. UNCHANGED <<recs, pos, verdict, enabled>> /\ verdict = "open"
    BY <1>4 DEF Deliver
  <2> QED
    BY <1>1, <2>1, PassPut
<1>5. CASE Read
  BY <1>1, <1>5, PassRead
<1>6. CASE End
  BY <1>1, <1>6, PassEnd
<1>7. CASE UNCHANGED pipeVars
  <2>1. UNCHANGED <<wire, got, pos, recs, verdict, enabled>>
    BY <1>7 DEF pipeVars
  <2>2. Head1' = Head1
    BY <2>1 DEF Head1, buf
  <2>3. verdict' \in {FE, PV, TPE} =>
          \/ pos' < got' /\ decode_record(wire', pos', MaxRecordSize, enabled').err = verdict'
          \/ pos' < got' /\ Incomplete(Head1)' /\ verdict' = FE
    BY <2>1, <2>2 DEF PassInv, Incomplete
  <2>4. /\ pos' \in 0..got' /\ Len(recs') <= pos'
        /\ recs' \in Seq(Returned(MaxRecordSize, enabled'))
        /\ RecordRounds(wire', MaxRecordSize, enabled')[Len(recs')]
             = [pos |-> pos', f |-> recs', err |-> OK]
    BY <2>1 DEF PassInv
  <2> QED
    BY <1>1, <2>3, <2>4 DEF PassInv
<1> QED
  BY <1>2, <1>3, <1>4, <1>5, <1>6, <1>7 DEF PipeNext

\* That is what the property says.
LEMMA PassImplies == PassInv => ChunkIndependent
<1> SUFFICES ASSUME PassInv PROVE ChunkIndependent
  OBVIOUS
<1> DEFINE R == RecordRounds(wire, MaxRecordSize, enabled)
           whole == R[Len(wire)]
           k == Len(recs)
           X == Returned(MaxRecordSize, enabled)
<1>1. wire \in Seq(Byte) /\ Len(wire) \in Nat /\ got \in 0..Len(wire) /\ pos \in 0..got
      /\ k <= pos /\ k \in Nat /\ recs \in Seq(X)
      /\ R[k] = [pos |-> pos, f |-> recs, err |-> OK] /\ MaxRecordSize \in Nat
  BY PipeAssumption DEF PassInv, WireOK
<1>2. decode_stream(wire, MaxRecordSize, enabled, FALSE) = whole
  BY DEF decode_stream, Ended
<1>3. k \in 0..Len(wire)
  BY <1>1
<1>4. Continues(whole.f, R[k].f) /\ whole \in Loops(wire, MaxRecordSize, enabled)
  <2>1. Len(wire) \in 0..Len(wire)
    BY <1>1
  <2> QED
    BY <1>1, <1>3, <2>1, LoopGrows, LoopHolds
<1>5. IsPrefix(recs, whole.f)
  <2>1. whole.f \in Seq(X) /\ recs \in Seq(X) /\ Continues(whole.f, recs)
    BY <1>1, <1>4 DEF Loops
  <2> HIDE DEF whole, X
  <2> QED
    BY <2>1, PrefixContinues
<1>6. ASSUME verdict \in {FE, PV, TPE}, pos < got,
             decode_record(wire, pos, MaxRecordSize, enabled).err = verdict
      PROVE  recs = whole.f /\ verdict = whole.err
  <2>1. R[k + 1] = RecordRound(wire, MaxRecordSize, enabled, R[k]) /\ k + 1 \in 0..Len(wire)
    <3>1. k \in 0..(Len(wire) - 1) /\ k + 1 \in 0..Len(wire)
      BY <1>1, <1>6
    <3> QED
      BY <1>1, <3>1, LoopHolds
  <2>2. R[k].pos = pos /\ R[k].err = OK /\ R[k].f = recs
    BY <1>1
  <2> DEFINE r == decode_record(wire, pos, MaxRecordSize, enabled)
             p == R[k]
             q == R[k + 1]
  <2>3. q = NextRecord(p, r)
    BY <1>1, <1>6, <2>1, <2>2 DEF RecordRound
  <2>4. r.err = verdict /\ verdict # OK
    BY <1>6, Verdicts
  <2>5. NextRecord(p, r) = [p EXCEPT !.err = verdict]
    <3> HIDE DEF p, r
    <3> QED
      BY <2>4 DEF NextRecord, Collect, FailWith
  <2>6. q.f = recs /\ q.err = verdict
    BY <1>1, <2>3, <2>5
  <2>7. whole = q
    <3>1. q.err # OK /\ k + 1 \in 0..Len(wire) /\ MaxRecordSize \in Nat /\ wire \in Seq(Byte)
      BY <1>1, <2>1, <2>4, <2>6
    <3> HIDE DEF k
    <3> QED
      BY <3>1, LoopGrows
  <2> QED
    BY <2>6, <2>7
<1> HIDE DEF R, whole
<1>7. IsWholePass(whole)
  BY <1>5, <1>6 DEF IsWholePass, PassInv
<1> QED
  BY <1>2, <1>7 DEF ChunkIndependent

(* However the carrier cuts its bytes up, the reader returns what one pass    *)
(* over all of them returns.                                                  *)
THEOREM ReadsInAnyPieces == PipeSpec => []ChunkIndependent
<1> QED
  BY PassInit, PassStep, PassImplies, PTL DEF PipeSpec

-----------------------------------------------------------------------------
(* What was written, where it stands, and how far the reader is in it. *)

Writes == [frames : Records \cup {<<>>}, end : Nat, good : BOOLEAN]

\* Where write i begins.
BeginOf(ws, i) == IF i = 1 THEN 0 ELSE ws[i - 1].end

\* Write i is a record of these frames, with a Size of some width.
Stands(ws, b, i) ==
  /\ ws[i].frames \in Records
  /\ \E w \in Widths :
       /\ Len(encode_frames(ws[i].frames)) \in 1..MaxRecordSize
       /\ Len(encode_frames(ws[i].frames)) < Capacity(w)
       /\ At(b, BeginOf(ws, i), encode_record(ws[i].frames, w))
       /\ ws[i].end = BeginOf(ws, i) + Len(encode_record(ws[i].frames, w))

WritesOk(ws, b) ==
  /\ ws \in Seq(Writes) /\ BeginOf(ws, Len(ws) + 1) = Len(b)
  /\ \A i \in 1..Len(ws) : ws[i].good => Stands(ws, b, i)

\* Understood(i) of any writes.
Clear(ws, en, i) ==
  \A j \in 1..i : ws[j].good /\ \A k \in DOMAIN ws[j].frames : Negotiated(ws[j].frames[k], en)

ReadOk(ws, b, g, at, rs, vd, en) ==
  /\ b \in Seq(Byte) /\ g \in 0..Len(b) /\ at \in 0..g /\ Len(rs) \in Nat
  /\ WritesOk(ws, b)
  /\ \A i \in 1..Len(rs) : i <= Len(ws) /\ Clear(ws, en, i) =>
       rs[i] = ws[i].frames /\ (i = Len(rs) => at = ws[i].end)
  /\ Clear(ws, en, Len(ws)) => Len(rs) <= Len(ws)
  /\ Len(rs) = 0 => at = 0
  /\ vd \in {FE, PV, TPE} /\ Len(rs) < Len(ws) /\ Clear(ws, en, Len(rs) + 1)
       => at < g /\ g < ws[Len(rs) + 1].end

\* The reader is at the beginning of the record that it has not returned yet.
LEMMA NextBegins ==
  ASSUME NEW ws, NEW b, NEW g, NEW at, NEW rs, NEW vd, NEW en,
         ReadOk(ws, b, g, at, rs, vd, en), Len(rs) <= Len(ws), Clear(ws, en, Len(rs))
  PROVE  at = BeginOf(ws, Len(rs) + 1)
<1> DEFINE n == Len(rs)
<1>1. n \in Nat /\ (n = 0 => at = 0)
      /\ (n \in 1..n => at = ws[n].end)
  BY DEF ReadOk
<1> HIDE DEF n
<1>2. CASE n = 0
  BY <1>1, <1>2 DEF BeginOf, n
<1>3. CASE n # 0
  <2>1. at = ws[n].end /\ n + 1 # 1 /\ (n + 1) - 1 = n
    BY <1>1, <1>3
  <2> QED
    BY <2>1 DEF BeginOf, n
<1> QED
  BY <1>2, <1>3

\* That record, if it has arrived, is returned as it was written.
LEMMA NextIs ==
  ASSUME NEW ws, NEW b \in Seq(Byte), WritesOk(ws, b), NEW en,
         NEW i \in 1..Len(ws), ws[i].good,
         \A k \in DOMAIN ws[i].frames : Negotiated(ws[i].frames[k], en),
         NEW g \in 0..Len(b), ws[i].end <= g
  PROVE  decode_record(SubSeq(b, 1, g), BeginOf(ws, i), MaxRecordSize, en)
           = ReadWhole(ws[i].frames, ws[i].end)
<1> DEFINE fs == ws[i].frames
           at == BeginOf(ws, i)
           c == SubSeq(b, 1, g)
<1>1. fs \in Records /\ RecordFits(fs) /\ MaxRecordSize \in Nat
  BY PipeAssumption DEF WritesOk, Stands
<1>2. PICK w \in Widths : /\ Len(encode_frames(fs)) \in 1..MaxRecordSize
                          /\ Len(encode_frames(fs)) < Capacity(w)
                          /\ At(b, at, encode_record(fs, w))
                          /\ ws[i].end = at + Len(encode_record(fs, w))
  BY DEF WritesOk, Stands
<1>3. at \in Nat
  <2>1. ws \in Seq(Writes) /\ i \in 1..Len(ws)
    BY DEF WritesOk
  <2>2. CASE i = 1
    BY <2>2 DEF BeginOf
  <2>3. CASE i # 1
    <3>1. i - 1 \in 1..Len(ws)
      BY <2>1, <2>3
    <3>2. ws[i - 1] \in Writes
      BY <2>1, <3>1
    <3> QED
      BY <2>3, <3>2 DEF BeginOf, Writes
  <2> QED
    BY <2>2, <2>3
<1>4. \A k \in 1..Len(fs) : Negotiated(fs[k], en)
  <2>1. DOMAIN fs = 1..Len(fs)
    <3>1. \E X : fs \in Seq(X)
      BY <1>1, FramesAre
    <3> QED
      BY <3>1
  <2> QED
    BY <2>1
<1> HIDE DEF at, fs
<1>5. encode_record(fs, w) \in Seq(Byte)
  BY <1>1, <1>2, RecordParts
<1>6. At(c, at, encode_record(fs, w))
  <2>1. at + Len(encode_record(fs, w)) <= g
    BY <1>2
  <2> QED
    BY <1>2, <1>3, <1>5, <2>1, AtCut
<1>7. c \in Seq(Byte)
  OBVIOUS
<1> HIDE DEF c
<1>8. decode_record(c, at, MaxRecordSize, en) = ReadWhole(fs, at + Len(encode_record(fs, w)))
  <2>1. Sendable(fs, en, w, MaxRecordSize)
    BY <1>1, <1>2, <1>4 DEF Sendable
  <2> QED
    BY <1>3, <1>6, <1>7, <2>1, RecordBack
<1> QED
  BY <1>2, <1>8 DEF c, at, fs

\* The bytes of a good write are those of a record.
WellWritten(x, bytes) ==
  x.good => /\ x.frames \in Records
            /\ \E w \in Widths : /\ Len(encode_frames(x.frames)) \in 1..MaxRecordSize
                                 /\ Len(encode_frames(x.frames)) < Capacity(w)
                                 /\ bytes = encode_record(x.frames, w)

\* A write adds its bytes behind all the others.
LEMMA WriteAdds ==
  ASSUME NEW ws, NEW b \in Seq(Byte), WritesOk(ws, b), NEW bytes \in Seq(Byte),
         NEW x \in Writes, x.end = Len(b) + Len(bytes),
         NEW ws2, ws2 = Append(ws, x), NEW b2, b2 = b \o bytes,
         WellWritten(x, bytes)
  PROVE  /\ WritesOk(ws2, b2) /\ b2 \in Seq(Byte)
         /\ Len(ws) \in Nat /\ Len(ws2) = Len(ws) + 1
         /\ \A i \in 1..Len(ws) : ws2[i] = ws[i]
<1> DEFINE n == Len(ws)
           fs == x.frames
<1>1. /\ ws \in Seq(Writes) /\ n \in Nat /\ BeginOf(ws, n + 1) = Len(b)
      /\ \A i \in 1..n : ws[i].good => Stands(ws, b, i)
  BY DEF WritesOk
<1>2. Len(b) \in Nat /\ Len(bytes) \in Nat
  OBVIOUS
<1>4. b2 \in Seq(Byte) /\ Len(b2) = Len(b) + Len(bytes)
  BY Joined
<1>6. ws2 \in Seq(Writes) /\ Len(ws2) = n + 1 /\ ws2[n + 1] = x
      /\ \A i \in 1..n : ws2[i] = ws[i]
  BY <1>1
<1>7. \A i \in 1..(n + 1) : BeginOf(ws2, i) = BeginOf(ws, i)
  <2>1. SUFFICES ASSUME NEW i \in 1..(n + 1), i # 1 PROVE ws2[i - 1].end = ws[i - 1].end
    BY DEF BeginOf
  <2>2. i - 1 \in 1..n
    BY <1>1, <2>1
  <2> QED
    BY <1>6, <2>2
<1>8. BeginOf(ws2, Len(ws2) + 1) = Len(b2)
  <2>1. (n + 1) + 1 # 1 /\ ((n + 1) + 1) - 1 = n + 1
    BY <1>1
  <2> QED
    BY <1>4, <1>6, <2>1 DEF BeginOf
<1>9. At(b2, 0, b) /\ At(b2, Len(b), bytes)
  <2>1. At(b2, 0, b2)
    <3>1. 0 + Len(b2) <= Len(b2) /\ \A i \in 1..Len(b2) : 0 + i = i
      BY <1>2, <1>4
    <3> QED
      BY <3>1 DEF At
  <2>2. At(b2, 0, b) /\ At(b2, 0 + Len(b), bytes)
    BY <1>4, <2>1, AtParts
  <2>3. 0 + Len(b) = Len(b)
    BY <1>2
  <2> QED
    BY <2>2, <2>3
<1>10. ASSUME NEW i \in 1..n, ws2[i].good PROVE Stands(ws2, b2, i)
  <2>1. Stands(ws, b, i) /\ ws2[i] = ws[i] /\ BeginOf(ws2, i) = BeginOf(ws, i)
    <3>1. i \in 1..(n + 1)
      BY <1>1
    <3> QED
      BY <1>1, <1>6, <1>7, <1>10, <3>1
  <2> DEFINE c == BeginOf(ws, i)
             ff == ws[i].frames
  <2>2. c \in Nat
    <3>1. CASE i = 1
      BY <3>1 DEF BeginOf
    <3>2. CASE i # 1
      <4>1. i - 1 \in 1..n
        BY <1>1, <3>2
      <4>2. ws[i - 1] \in Writes
        BY <1>1, <4>1
      <4> QED
        BY <3>2, <4>2 DEF BeginOf, Writes
    <3> QED
      BY <3>1, <3>2
  <2>3. PICK w \in Widths : /\ Len(encode_frames(ff)) \in 1..MaxRecordSize
                            /\ Len(encode_frames(ff)) < Capacity(w)
                            /\ At(b, c, encode_record(ff, w))
                            /\ ws[i].end = c + Len(encode_record(ff, w))
    BY <2>1 DEF Stands
  <2>4. ff \in Records /\ RecordFits(ff)
    BY <2>1, PipeAssumption DEF Stands
  <2> HIDE DEF c, ff
  <2>5. encode_record(ff, w) \in Seq(Byte)
    BY <2>3, <2>4, RecordParts
  <2>6. At(b2, 0 + c, encode_record(ff, w))
    BY <1>4, <1>9, <2>2, <2>3, <2>5, AtWhole
  <2>7. 0 + c = c
    BY <2>2
  <2> QED
    BY <2>1, <2>3, <2>4, <2>6, <2>7 DEF Stands, c, ff
<1>11. ASSUME x.good PROVE Stands(ws2, b2, n + 1)
  <2>1. BeginOf(ws2, n + 1) = Len(b)
    <3>1. n + 1 \in 1..(n + 1)
      BY <1>1
    <3> QED
      BY <1>1, <1>7, <3>1
  <2>2. ws2[n + 1].frames = fs /\ ws2[n + 1].end = Len(b) + Len(bytes)
    BY <1>6
  <2>3. PICK w \in Widths : /\ Len(encode_frames(fs)) \in 1..MaxRecordSize
                            /\ Len(encode_frames(fs)) < Capacity(w)
                            /\ bytes = encode_record(fs, w)
    BY <1>11 DEF WellWritten
  <2>4. fs \in Records
    BY <1>11 DEF WellWritten
  <2> QED
    BY <1>9, <2>1, <2>2, <2>3, <2>4 DEF Stands
<1>12. \A i \in 1..Len(ws2) : ws2[i].good => Stands(ws2, b2, i)
  <2>1. SUFFICES ASSUME NEW i \in 1..(n + 1), ws2[i].good PROVE Stands(ws2, b2, i)
    BY <1>6
  <2>2. CASE i \in 1..n
    BY <1>10, <2>1, <2>2
  <2>3. CASE i \notin 1..n
    <3>1. i = n + 1
      BY <1>1, <2>1, <2>3
    <3>2. ws2[i] = x
      BY <1>6, <3>1
    <3>3. x.good
      BY <2>1, <3>2
    <3> QED
      BY <1>11, <3>1, <3>3
  <2> QED
    BY <2>2, <2>3
<1> QED
  BY <1>1, <1>4, <1>6, <1>8, <1>12 DEF WritesOk

ReadInv == ReadOk(written, wire, got, pos, recs, verdict, enabled)

\* Understood in terms of any writes.
LEMMA UnderstoodIs ==
  ASSUME NEW i
  PROVE  Understood(i) <=> Clear(written, enabled, i)
BY Zenon DEF Understood, Clear, Negotiated

\* Nothing was written and nothing read.
LEMMA ReadInit == PipeInit => ReadInv
<1> SUFFICES ASSUME PipeInit PROVE ReadInv
  OBVIOUS
<1>1. wire = <<>> /\ written = <<>> /\ got = 0 /\ pos = 0 /\ recs = <<>> /\ verdict = "open"
  BY DEF PipeInit
<1>2. WritesOk(written, wire)
  BY <1>1 DEF WritesOk, BeginOf
<1>3. wire \in Seq(Byte) /\ got \in 0..Len(wire) /\ pos \in 0..got /\ Len(recs) = 0 /\ Len(written) = 0
  BY <1>1
<1>4. verdict \notin {FE, PV, TPE}
  BY <1>1, Verdicts
<1> QED
  BY <1>1, <1>2, <1>3, <1>4 DEF ReadInv, ReadOk

\* A write does not concern what was written before.
LEMMA ReadPut ==
  ASSUME NEW ws, NEW b, NEW g, NEW at, NEW rs, NEW en, ReadOk(ws, b, g, at, rs, "open", en),
         NEW ws2, NEW b2, WritesOk(ws2, b2), b2 \in Seq(Byte), Len(b) <= Len(b2),
         Len(ws) \in Nat, Len(ws2) = Len(ws) + 1, \A i \in 1..Len(ws) : ws2[i] = ws[i]
  PROVE  ReadOk(ws2, b2, g, at, rs, "open", en)
<1> DEFINE n == Len(ws)
           k == Len(rs)
<1>1. /\ b \in Seq(Byte) /\ g \in 0..Len(b) /\ at \in 0..g /\ k \in Nat
      /\ (Clear(ws, en, n) => k <= n) /\ (k = 0 => at = 0)
      /\ \A i \in 1..k : i <= n /\ Clear(ws, en, i) =>
           rs[i] = ws[i].frames /\ (i = k => at = ws[i].end)
  BY DEF ReadOk
<1>2. \A i \in 0..n : Clear(ws2, en, i) => Clear(ws, en, i)
  BY DEF Clear
<1>3. Clear(ws2, en, n + 1) => Clear(ws, en, n)
  <2>1. \A j \in 1..n : j \in 1..(n + 1)
    OBVIOUS
  <2>2. Clear(ws2, en, n + 1) => Clear(ws2, en, n)
    BY <2>1 DEF Clear
  <2>3. n \in 0..n
    OBVIOUS
  <2> QED
    BY <1>2, <2>2, <2>3
<1> HIDE DEF k
<1>4. g \in 0..Len(b2)
  <2>1. Len(b) \in Nat /\ Len(b2) \in Nat
    BY <1>1
  <2> QED
    BY <1>1, <2>1
<1>5. Clear(ws2, en, Len(ws2)) => k <= Len(ws2)
  <2>1. SUFFICES ASSUME Clear(ws2, en, n + 1) PROVE k <= n + 1
    OBVIOUS
  <2>2. k <= n
    BY <1>1, <1>3, <2>1
  <2> HIDE DEF n
  <2> QED
    BY <1>1, <2>2 DEF n
<1>6. ASSUME NEW i \in 1..k, i <= Len(ws2), Clear(ws2, en, i)
      PROVE  rs[i] = ws2[i].frames /\ (i = k => at = ws2[i].end)
  <2>1. i <= n
    <3>1. SUFFICES ASSUME ~(i <= n) PROVE FALSE
      OBVIOUS
    <3>2. i = n + 1
      BY <1>1, <1>6, <3>1
    <3>3. k <= n
      BY <1>1, <1>3, <1>6, <3>2
    <3> QED
      BY <1>1, <3>2, <3>3
  <2>2. i \in 1..n /\ i \in 0..n
    BY <1>1, <2>1
  <2>3. Clear(ws, en, i) /\ ws2[i] = ws[i]
    BY <1>2, <1>6, <2>2
  <2> QED
    BY <1>1, <2>1, <2>3
<1>7. "open" \notin {FE, PV, TPE}
  BY Verdicts
<1> QED
  BY <1>1, <1>4, <1>5, <1>6, <1>7 DEF ReadOk, k

\* What the reader has once the record it is at has arrived.
LEMMA ReadNext ==
  ASSUME NEW ws, NEW b, NEW g, NEW at, NEW rs, NEW en, ReadOk(ws, b, g, at, rs, "open", en),
         at < g, NEW r, r = decode_record(SubSeq(b, 1, g), at, MaxRecordSize, en),
         Len(rs) < Len(ws), Clear(ws, en, Len(rs) + 1),
         ws[Len(rs) + 1].end <= g \/ r.done \/ r.err # OK
  PROVE  r.done /\ r.frames = ws[Len(rs) + 1].frames /\ r.pos = ws[Len(rs) + 1].end
<1> DEFINE k == Len(rs)
           n == Len(ws)
           i == k + 1
           x == ws[i]
<1>1. /\ b \in Seq(Byte) /\ g \in 0..Len(b) /\ at \in 0..g /\ k \in Nat
      /\ WritesOk(ws, b) /\ ws \in Seq(Writes)
  BY DEF ReadOk, WritesOk
<1>2. n \in Nat /\ k < n /\ i \in 1..n
  BY <1>1
<1>3. x.good /\ \A j \in DOMAIN x.frames : Negotiated(x.frames[j], en)
  <2>1. i \in 1..(k + 1)
    BY <1>1
  <2> QED
    BY <2>1 DEF Clear
<1>4. at = BeginOf(ws, i)
  <2>1. Clear(ws, en, k)
    <3>1. \A j \in 1..k : j \in 1..(k + 1)
      BY <1>1
    <3> QED
      BY <3>1 DEF Clear
  <2>2. Len(rs) <= Len(ws)
    BY <1>1, <1>2
  <2> QED
    BY <2>1, <2>2, NextBegins
<1>5. ASSUME x.end <= g PROVE r = ReadWhole(x.frames, x.end)
  BY <1>1, <1>2, <1>3, <1>4, <1>5, NextIs
<1>6. ASSUME r.done \/ r.err # OK PROVE r = ReadWhole(x.frames, x.end)
  <2> DEFINE m == Len(b)
             c == SubSeq(b, 1, g)
  <2>1. m \in 0..m /\ SubSeq(b, 1, m) = b /\ m \in Nat
    BY <1>1
  <2>2. x.end <= m
    <3>1. PICK w \in Widths : /\ At(b, at, encode_record(x.frames, w))
                              /\ x.end = at + Len(encode_record(x.frames, w))
      BY <1>1, <1>2, <1>3, <1>4 DEF WritesOk, Stands
    <3> QED
      BY <3>1 DEF At
  <2>3. decode_record(b, at, MaxRecordSize, en) = ReadWhole(x.frames, x.end)
    <3> HIDE DEF m
    <3>1. decode_record(SubSeq(b, 1, m), at, MaxRecordSize, en) = ReadWhole(x.frames, x.end)
      <4>1. m \in 0..Len(b)
        BY <2>1 DEF m
      <4> QED
        BY <1>1, <1>2, <1>3, <1>4, <2>2, <4>1, NextIs
    <3> QED
      BY <2>1, <3>1
  <2>4. c \in Seq(Byte) /\ Continues(b, c)
    <3>1. Len(c) = g /\ c \in Seq(Byte) /\ \A j \in 1..g : b[j] = c[j]
      BY <1>1
    <3> HIDE DEF c
    <3> QED
      BY <1>1, <2>1, <3>1 DEF Continues
  <2>5. at \in Nat /\ MaxRecordSize \in Nat
    BY <1>1, PipeAssumption
  <2>6. r = decode_record(c, at, MaxRecordSize, en)
    OBVIOUS
  <2> HIDE DEF c
  <2>7. decode_record(b, at, MaxRecordSize, en) = r
    BY <1>1, <1>6, <2>4, <2>5, <2>6, ContinuesRecord
  <2> QED
    BY <2>3, <2>7
<1>7. r = ReadWhole(x.frames, x.end)
  BY <1>5, <1>6
<1> QED
  BY <1>7 DEF Result, ReadWhole

\* A record that is done is the one that was written.
LEMMA ReadDone ==
  ASSUME NEW ws, NEW b, NEW g, NEW at, NEW rs, NEW en, ReadOk(ws, b, g, at, rs, "open", en),
         at < g, NEW r, r = decode_record(SubSeq(b, 1, g), at, MaxRecordSize, en), r.done,
         NEW X, rs \in Seq(X), r.frames \in X
  PROVE  ReadOk(ws, b, g, r.pos, Append(rs, r.frames), "open", en)
<1> DEFINE k == Len(rs)
           n == Len(ws)
           rs2 == Append(rs, r.frames)
           c == SubSeq(b, 1, g)
<1>1. /\ b \in Seq(Byte) /\ g \in 0..Len(b) /\ at \in 0..g /\ k \in Nat
      /\ WritesOk(ws, b) /\ ws \in Seq(Writes)
      /\ (Clear(ws, en, n) => k <= n) /\ (k = 0 => at = 0)
      /\ \A i \in 1..k : i <= n /\ Clear(ws, en, i) =>
           rs[i] = ws[i].frames /\ (i = k => at = ws[i].end)
  BY DEF ReadOk, WritesOk
<1>2. n \in Nat
  BY <1>1
<1>3. Len(rs2) = k + 1 /\ rs2[k + 1] = r.frames /\ \A i \in 1..k : rs2[i] = rs[i]
  OBVIOUS
<1>4. r.pos \in 0..g
  <2>1. c \in Seq(Byte) /\ Len(c) = g /\ at \in Nat /\ MaxRecordSize \in Nat
    BY <1>1, PipeAssumption
  <2>2. r = decode_record(c, at, MaxRecordSize, en)
    OBVIOUS
  <2> HIDE DEF c
  <2>3. r.pos \in (at + 2)..Len(c)
    BY <2>1, <2>2, RecordIs
  <2> QED
    BY <1>1, <2>1, <2>3
<1> HIDE DEF rs2, n, k
<1>5. Clear(ws, en, n) => k + 1 <= n
  <2>1. SUFFICES ASSUME Clear(ws, en, n), ~(k + 1 <= n) PROVE FALSE
    OBVIOUS
  <2>2. k <= n
    BY <1>1, <2>1
  <2>3. k = n
    BY <1>1, <1>2, <2>1, <2>2
  <2>4. at = BeginOf(ws, n + 1)
    <3>1. Len(rs) <= Len(ws) /\ Clear(ws, en, Len(rs))
      BY <2>1, <2>2, <2>3 DEF k, n
    <3>2. at = BeginOf(ws, Len(rs) + 1)
      BY <3>1, NextBegins
    <3> QED
      BY <2>3, <3>2 DEF k, n
  <2>5. at = Len(b)
    BY <1>1, <2>4 DEF WritesOk, n
  <2>6. Len(b) \in Nat
    BY <1>1
  <2> QED
    BY <1>1, <2>5, <2>6
<1>6. ASSUME NEW i \in 1..(k + 1), i <= n, Clear(ws, en, i)
      PROVE  rs2[i] = ws[i].frames /\ (i = k + 1 => r.pos = ws[i].end)
  <2>1. CASE i = k + 1
    <3>1. Len(rs) < Len(ws) /\ Clear(ws, en, Len(rs) + 1)
      <4>1. k < n
        BY <1>1, <1>2, <1>6, <2>1
      <4>2. Clear(ws, en, k + 1)
        BY <1>6, <2>1
      <4> QED
        BY <4>1, <4>2 DEF k, n
    <3> DEFINE x == ws[k + 1]
    <3>3. r.frames = x.frames /\ r.pos = x.end
      BY <3>1, ReadNext DEF k
    <3> QED
      BY <1>3, <2>1, <3>3
  <2>2. CASE i # k + 1
    <3>1. i \in 1..k
      BY <1>1, <1>6, <2>2
    <3> QED
      BY <1>1, <1>3, <1>6, <2>2, <3>1
  <2> QED
    BY <2>1, <2>2
<1>7. k + 1 \in Nat /\ k + 1 # 0
  BY <1>1
<1>8. "open" \notin {FE, PV, TPE}
  BY Verdicts
<1> QED
  BY <1>1, <1>3, <1>4, <1>5, <1>6, <1>7, <1>8 DEF ReadOk, rs2, n, k

\* A record that was written well is never one the reader fails in.
LEMMA ReadFails ==
  ASSUME NEW ws, NEW b, NEW g, NEW at, NEW rs, NEW en, ReadOk(ws, b, g, at, rs, "open", en),
         at < g, NEW r, r = decode_record(SubSeq(b, 1, g), at, MaxRecordSize, en),
         ~r.done, NEW vd
  PROVE  ReadOk(ws, b, g, at, rs, vd, en)
<1> DEFINE k == Len(rs)
           x == ws[k + 1]
<1>1. /\ b \in Seq(Byte) /\ g \in 0..Len(b) /\ at \in 0..g /\ k \in Nat
      /\ WritesOk(ws, b)
  BY DEF ReadOk
<1>2. ASSUME k < Len(ws), Clear(ws, en, k + 1) PROVE g < x.end
  <2>1. x.end \in Nat
    <3>1. ws \in Seq(Writes) /\ k + 1 \in 1..Len(ws)
      BY <1>1, <1>2 DEF WritesOk
    <3>2. ws[k + 1] \in Writes
      BY <3>1
    <3> QED
      BY <3>2 DEF Writes
  <2>2. ~(x.end <= g)
    <3>1. SUFFICES ASSUME x.end <= g PROVE FALSE
      OBVIOUS
    <3> QED
      BY <1>2, <3>1, ReadNext
  <2>3. g \in Nat
    BY <1>1
  <2> HIDE DEF x
  <2> QED
    BY <2>1, <2>2, <2>3
<1> QED
  BY <1>2 DEF ReadOk

\* Every step keeps what was returned equal to what was written.
LEMMA ReadStep == PassInv /\ ReadInv /\ [PipeNext]_pipeVars => ReadInv'
<1> SUFFICES ASSUME PassInv, ReadInv, [PipeNext]_pipeVars PROVE ReadInv'
  OBVIOUS
<1>0. ReadOk(written, wire, got, pos, recs, verdict, enabled) /\ WritesOk(written, wire)
      /\ wire \in Seq(Byte) /\ MaxRecordSize \in Nat
  BY PipeAssumption DEF ReadInv, ReadOk
<1>1. ASSUME NEW bytes \in Seq(Byte), NEW fs \in Records \cup {<<>>}, NEW good \in BOOLEAN,
             verdict = "open", Put(bytes, fs, good),
             good => /\ fs \in Records
                     /\ \E w \in Widths : /\ Len(encode_frames(fs)) \in 1..MaxRecordSize
                                          /\ Len(encode_frames(fs)) < Capacity(w)
                                          /\ bytes = encode_record(fs, w)
      PROVE  ReadInv'
  <2>1. /\ wire' = wire \o bytes
        /\ written' = Append(written, [frames |-> fs, end |-> Len(wire) + Len(bytes), good |-> good])
        /\ UNCHANGED <<got, pos, recs, verdict, enabled>>
    BY <1>1 DEF Put
  <2>2. /\ WritesOk(written', wire') /\ wire' \in Seq(Byte)
        /\ Len(written) \in Nat /\ Len(written') = Len(written) + 1
        /\ \A i \in 1..Len(written) : written'[i] = written[i]
    <3> DEFINE w2 == written'
               b2 == wire'
               x == [frames |-> fs, end |-> Len(wire) + Len(bytes), good |-> good]
    <3>1. b2 = wire \o bytes /\ w2 = Append(written, x)
      BY <2>1
    <3>3. x \in Writes
      <4>1. Len(wire) \in Nat /\ Len(bytes) \in Nat
        BY <1>0
      <4> QED
        BY <4>1 DEF Writes
    <3>4. x.end = Len(wire) + Len(bytes) /\ x.frames = fs
      OBVIOUS
    <3>5. x.good => good
      OBVIOUS
    <3> HIDE DEF w2, b2, x
    <3>6. WellWritten(x, bytes)
      BY <1>1, <3>4, <3>5 DEF WellWritten
    <3>7. bytes \in Seq(Byte)
      BY <1>1
    <3>2. /\ WritesOk(w2, b2) /\ b2 \in Seq(Byte)
          /\ Len(written) \in Nat /\ Len(w2) = Len(written) + 1
          /\ \A i \in 1..Len(written) : w2[i] = written[i]
      <4> DEFINE b == wire
                 ws == written
      <4>1. b \in Seq(Byte) /\ WritesOk(ws, b)
        BY <1>0
      <4>2. x.end = Len(b) + Len(bytes)
        BY <3>4
      <4>3. w2 = Append(ws, x) /\ b2 = b \o bytes
        BY <3>1
      <4> HIDE DEF b, ws
      <4>4. /\ WritesOk(w2, b2) /\ b2 \in Seq(Byte)
        BY <3>3, <3>6, <3>7, <4>1, <4>2, <4>3, WriteAdds
      <4>5. Len(ws) \in Nat
        BY <3>3, <3>6, <3>7, <4>1, <4>2, <4>3, WriteAdds
      <4>6. Len(w2) = Len(ws) + 1
        BY <3>3, <3>6, <3>7, <4>1, <4>2, <4>3, WriteAdds
      <4>7. \A i \in 1..Len(ws) : w2[i] = ws[i]
        BY <3>3, <3>6, <3>7, <4>1, <4>2, <4>3, WriteAdds
      <4> QED
        BY <4>4, <4>5, <4>6, <4>7 DEF b, ws
    <3> QED
      BY <3>2 DEF w2, b2
  <2>3. Len(wire) <= Len(wire')
    <3>1. Len(wire \o bytes) = Len(wire) + Len(bytes)
      BY <1>0, Joined
    <3>2. Len(wire) \in Nat /\ Len(bytes) \in Nat
      BY <1>0
    <3> QED
      BY <2>1, <3>1, <3>2
  <2>4. ReadOk(written', wire', got, pos, recs, "open", enabled)
    BY <1>0, <1>1, <2>2, <2>3, ReadPut
  <2> QED
    BY <1>1, <2>1, <2>4 DEF ReadInv
<1>2. ASSUME NEW r \in Records, NEW w \in SizeWidths, Write(r, w) PROVE ReadInv'
  <2> DEFINE bytes == encode_record(r, w)
  <2>1. /\ Put(bytes, r, TRUE) /\ verdict = "open" /\ w \in Widths
        /\ Len(encode_frames(r)) \in 1..MaxRecordSize
        /\ Len(encode_frames(r)) < Capacity(w)
    BY <1>2, PipeAssumption DEF Write, MayWrite
  <2>2. bytes \in Seq(Byte)
    BY <2>1, PipeAssumption, RecordParts
  <2>3. \E u \in Widths : /\ Len(encode_frames(r)) \in 1..MaxRecordSize
                          /\ Len(encode_frames(r)) < Capacity(u)
                          /\ bytes = encode_record(r, u)
    BY <2>1
  <2> HIDE DEF bytes
  <2> QED
    BY <1>1, <2>1, <2>2, <2>3
<1>3. ASSUME NEW b \in RawWrites, WriteRaw(b) PROVE ReadInv'
  <2>1. Put(b, <<>>, FALSE) /\ verdict = "open" /\ b \in Seq(Byte)
    BY <1>3, PipeAssumption DEF WriteRaw, MayWrite
  <2> QED
    BY <1>1, <2>1
<1>4. CASE Deliver
  <2>1. /\ UNCHANGED <<wire, written, pos, recs, verdict, enabled>>
        /\ got' = got + 1 /\ got < Len(wire) /\ verdict = "open"
    BY <1>4 DEF Deliver
  <2>2. got + 1 \in 0..Len(wire) /\ pos \in 0..(got + 1)
    <3>1. got \in 0..Len(wire) /\ pos \in 0..got /\ Len(wire) \in Nat
      BY <1>0 DEF ReadOk
    <3> QED
      BY <2>1, <3>1
  <2>3. ReadOk(written, wire, got + 1, pos, recs, "open", enabled)
    BY <1>0, <2>1, <2>2, Verdicts DEF ReadOk
  <2> QED
    BY <2>1, <2>3 DEF ReadInv
<1>5. CASE Read
  <2> DEFINE r == Head1
             X == Returned(MaxRecordSize, enabled)
  <2>1. /\ verdict = "open" /\ pos < got /\ Return(r)
        /\ UNCHANGED <<wire, written, got, enabled>>
    BY <1>5 DEF Read, Return
  <2>2. r = decode_record(SubSeq(wire, 1, got), pos, MaxRecordSize, enabled)
    BY DEF Head1, buf
  <2>3. CASE r.done
    <3>1. recs' = Append(recs, r.frames) /\ pos' = r.pos /\ verdict' = verdict
      BY <2>1, <2>3 DEF Return
    <3>2. recs \in Seq(X) /\ r.frames \in X
      <4>1. got \in 0..Len(wire) /\ pos \in 0..got
        BY <1>0 DEF ReadOk
      <4> DEFINE c == SubSeq(wire, 1, got)
      <4>2. c \in Seq(Byte) /\ pos \in Nat
        BY <1>0, <4>1
      <4>3. r = decode_record(c, pos, MaxRecordSize, enabled)
        BY <2>2
      <4> HIDE DEF c, r
      <4>4. r.frames \in X
        BY <4>2, <4>3 DEF Returned
      <4> QED
        BY <4>4 DEF PassInv
    <3> HIDE DEF r, X
    <3>3. ReadOk(written, wire, got, r.pos, Append(recs, r.frames), "open", enabled)
      BY <1>0, <2>1, <2>2, <2>3, <3>2, ReadDone
    <3> QED
      BY <2>1, <3>1, <3>3 DEF ReadInv
  <2>4. CASE ~r.done
    <3>1. UNCHANGED <<recs, pos>>
      BY <2>1, <2>4 DEF Return
    <3> HIDE DEF r
    <3>2. ReadOk(written, wire, got, pos, recs, verdict', enabled)
      BY <1>0, <2>1, <2>2, <2>4, ReadFails
    <3> QED
      BY <2>1, <3>1, <3>2 DEF ReadInv
  <2> QED
    BY <2>3, <2>4
<1>6. CASE End
  <2>1. /\ UNCHANGED <<wire, written, got, pos, recs, enabled>> /\ verdict = "open"
        /\ verdict' = (IF pos < got THEN FE ELSE "ended")
        /\ pos = got \/ Incomplete(Head1)
    BY <1>6 DEF End
  <2>2. CASE pos < got
    <3> DEFINE r == Head1
    <3>1. r = decode_record(SubSeq(wire, 1, got), pos, MaxRecordSize, enabled)
      BY DEF Head1, buf
    <3>2. ~r.done
      <4>1. got \in Nat
        BY <1>0 DEF ReadOk
      <4>2. Incomplete(r)
        BY <2>1, <2>2, <4>1
      <4> QED
        BY <4>2 DEF Incomplete
    <3> HIDE DEF r
    <3>3. ReadOk(written, wire, got, pos, recs, verdict', enabled)
      BY <1>0, <2>1, <2>2, <3>1, <3>2, ReadFails
    <3> QED
      BY <2>1, <3>3 DEF ReadInv
  <2>3. CASE ~(pos < got)
    <3>1. verdict' \notin {FE, PV, TPE}
      BY <2>1, <2>3, Verdicts
    <3>2. ReadOk(written, wire, got, pos, recs, verdict', enabled)
      BY <1>0, <3>1 DEF ReadOk
    <3> QED
      BY <2>1, <3>2 DEF ReadInv
  <2> QED
    BY <2>2, <2>3
<1>7. CASE UNCHANGED pipeVars
  <2>1. UNCHANGED <<wire, written, got, pos, recs, verdict, enabled>>
    BY <1>7 DEF pipeVars
  <2> QED
    BY <2>1, <1>0 DEF ReadInv
<1> QED
  BY <1>2, <1>3, <1>4, <1>5, <1>6, <1>7 DEF PipeNext

\* That is what the property says.
LEMMA ReadImplies == PassInv /\ ReadInv => ReadsWhatWasWritten
<1> SUFFICES ASSUME PassInv, ReadInv PROVE ReadsWhatWasWritten
  OBVIOUS
<1> DEFINE k == Len(recs)
           n == Len(written)
<1>1. /\ ReadOk(written, wire, got, pos, recs, verdict, enabled) /\ k \in Nat /\ n \in Nat
      /\ wire \in Seq(Byte) /\ WritesOk(written, wire) /\ written \in Seq(Writes)
  BY DEF ReadInv, ReadOk, WritesOk
<1>2. DOMAIN recs = 1..k
  BY DEF PassInv
\* The writes that were understood were all made.
<1>3. ASSUME NEW i \in 1..k, Clear(written, enabled, i) PROVE i <= n
  <2>1. SUFFICES ASSUME ~(i <= n) PROVE FALSE
    OBVIOUS
  <2>2. \A j \in 1..n : j \in 1..i
    BY <1>1, <2>1
  <2>3. Clear(written, enabled, n)
    BY <1>3, <2>2 DEF Clear
  <2>4. k <= n
    BY <1>1, <2>3 DEF ReadOk
  <2> QED
    BY <1>1, <2>1, <2>4
<1>4. ASSUME NEW i \in 1..k, Clear(written, enabled, i)
      PROVE  recs[i] = written[i].frames /\ (i = k => pos = written[i].end)
  BY <1>1, <1>3, <1>4 DEF ReadOk
<1>5. \A i \in DOMAIN recs :
        Understood(i) => recs[i] = written[i].frames /\ (i = Len(recs) => pos = written[i].end)
  BY <1>2, <1>4, UnderstoodIs
<1>6. verdict \in {FE, PV, TPE} /\ Len(recs) < Len(written) /\ Understood(Len(recs) + 1)
        => pos < got /\ got < written[Len(recs) + 1].end
  <2>1. Understood(Len(recs) + 1) => Clear(written, enabled, Len(recs) + 1)
    BY UnderstoodIs
  <2> QED
    BY <1>1, <2>1 DEF ReadOk
<1>7. ASSUME NEW i \in 1..k, Clear(written, enabled, i),
             NEW begin, begin = BeginOf(written, i),
             NEW size, size = decode_varint(wire, begin), size.width = varint_len(size.val)
      PROVE  written[i].end = begin + message_position(encode_frames(recs[i]))
  <2> DEFINE fs == recs[i]
             body == encode_frames(fs)
  <2>1. i \in 1..n /\ fs = written[i].frames
    BY <1>1, <1>3, <1>4, <1>7
  <2>2. written[i].good
    <3>1. i \in 1..i
      BY <1>1
    <3> QED
      BY <1>7, <3>1 DEF Clear
  <2>3. Stands(written, wire, i)
    BY <1>1, <2>1, <2>2 DEF WritesOk
  <2>4. fs \in Records /\ RecordFits(fs)
    BY <2>1, <2>3, PipeAssumption DEF Stands
  <2>5. PICK w \in Widths : /\ Len(body) < Capacity(w)
                            /\ At(wire, begin, encode_record(fs, w))
                            /\ written[i].end = begin + Len(encode_record(fs, w))
    BY <1>7, <2>1, <2>3 DEF Stands
  <2>6. begin \in Nat
    <3>1. CASE i = 1
      BY <1>7, <3>1 DEF BeginOf
    <3>2. CASE i # 1
      <4>1. i - 1 \in 1..n
        BY <1>1, <2>1, <3>2
      <4>2. written[i - 1] \in Writes
        BY <1>1, <4>1
      <4> QED
        BY <1>7, <3>2, <4>2 DEF BeginOf, Writes
    <3> QED
      BY <3>1, <3>2
  <2> HIDE DEF fs
  <2>7. Len(body) \in 0..MAX_VARINT /\ Len(encode_record(fs, w)) = w + Len(body) /\ body \in Seq(Byte)
    BY <2>4, <2>5, RecordParts
  <2>8. size.width = w /\ size.val = Len(body)
    BY <1>1, <1>7, <2>4, <2>5, <2>6, SizeBack
  <2> HIDE DEF body
  <2>9. Len(V(Len(body))) = w
    <3>1. Len(V(Len(body))) = varint_len(Len(body))
      BY <2>7, EncodedIs
    <3> QED
      BY <1>7, <2>8, <3>1
  <2>10. message_position(body) = Len(body) + w
    BY <2>9 DEF message_position
  <2>11. w \in Nat /\ Len(body) \in Nat
    BY <2>7 DEF Widths
  <2>12. message_position(body) = Len(encode_record(fs, w))
    BY <2>7, <2>10, <2>11
  <2> QED
    BY <2>5, <2>12 DEF body, fs
<1>8. \A i \in DOMAIN recs :
        LET begin == IF i = 1 THEN 0 ELSE written[i - 1].end
            size  == decode_varint(wire, begin)
        IN  Understood(i) /\ size.width = varint_len(size.val)
              => written[i].end = begin + message_position(encode_frames(recs[i]))
  <2>1. SUFFICES ASSUME NEW i \in 1..k, Understood(i),
                        decode_varint(wire, BeginOf(written, i)).width
                          = varint_len(decode_varint(wire, BeginOf(written, i)).val)
                 PROVE  written[i].end
                          = BeginOf(written, i) + message_position(encode_frames(recs[i]))
    BY <1>2 DEF BeginOf
  <2>2. Clear(written, enabled, i)
    BY <2>1, UnderstoodIs
  <2> QED
    BY <1>7, <2>1, <2>2
<1> QED
  BY <1>5, <1>6, <1>8 DEF ReadsWhatWasWritten

(* Every record of compliant, negotiated frames is returned as it was         *)
(* written, whatever the width of its Size; the reader only fails inside one   *)
(* that the carrier cut off.                                                    *)
THEOREM ReadsBack == PipeSpec => []ReadsWhatWasWritten
<1>1. PipeInit => PassInv /\ ReadInv
  BY PassInit, ReadInit
<1>2. PassInv /\ ReadInv /\ [PipeNext]_pipeVars => (PassInv /\ ReadInv)'
  BY PassStep, ReadStep
<1> QED
  BY <1>1, <1>2, ReadImplies, PTL DEF PipeSpec

-----------------------------------------------------------------------------
(* The ID of a pipe (Attach).                                              *)

\* A remembers every ID it has used, with attachment state or without: its bit is set,
\* or it is stale.
Remembered == \A i \in Id : st["A"][i] # "none" => Spent(i)

\* What either end says of an ID is about one that J has taken, and that A has seen.
Known ==
  /\ \A i \in Id : st["A"][i] # "none" \/ ab["A"][i] # "none" \/ ab["J"][i] # "none" => Taken(i)
  /\ \A i \in entries : st["A"][i] # "none"

IInv == TypeOK /\ Remembered /\ Known /\ ~fatal

\* An update of one entry of a table by end and ID.
LEMMA Update ==
  ASSUME NEW S, NEW f \in [Side -> [Id -> S]], NEW e \in Side, NEW i \in Id, NEW v \in S
  PROVE  /\ [f EXCEPT ![e][i] = v] \in [Side -> [Id -> S]]
         /\ \A d \in Side, j \in Id :
              [f EXCEPT ![e][i] = v][d][j] = IF d = e /\ j = i THEN v ELSE f[d][j]
  OBVIOUS

LEMMA InitHolds == Init => IInv
<1> SUFFICES ASSUME Init PROVE IInv
  OBVIOUS
<1>1. TypeOK
  <2>1. 0 \in 0..MaxId
    BY ConstantAssumption
  <2>2. /\ st \in [Side -> [Id -> {"none", "joining", "live", "ended", "used", "retired"}]]
        /\ \A i \in Id : st["J"][i] # "used" /\ st["A"][i] # "joining"
        /\ ab \in [Side -> [Id -> {"none", "sent", "arrived", "acked"}]]
    BY DEF Init, Side
  <2> QED BY <2>1, <2>2 DEF Init, TypeOK
<1>2. Remembered
  BY DEF Init, Remembered, Side
<1>3. Known
  BY DEF Init, Known, Side
<1>4. ~fatal
  BY DEF Init
<1> QED BY <1>1, <1>2, <1>3, <1>4 DEF IInv

\* A stale ID stays stale, and a bit that is dropped leaves a stale ID.
LEMMA VerifiedRemembers ==
  ASSUME high \in Nat, bits \subseteq Id, NEW i \in Id, Verified(i)
  PROVE  /\ high' \in Nat /\ high' >= high
         /\ (bits \subseteq Id)'
         /\ \A j \in Id : Spent(j) \/ j = i => Spent(j)'
<1> USE ConstantAssumption DEF Id, Verified
<1>1. high' \in Nat /\ high' >= high
  OBVIOUS
<1>2. (bits \subseteq Id)'
  OBVIOUS
<1>3. ASSUME NEW j \in Id, Spent(j) \/ j = i PROVE Spent(j)'
  <2>1. CASE j \in bits \/ j = i
    BY <1>1, <2>1 DEF Spent, Stale
  <2>2. CASE Stale(j)
    BY <1>1, <1>2, <2>2 DEF Spent, Stale
  <2> QED BY <1>3, <2>1, <2>2 DEF Spent
<1> QED BY <1>1, <1>2, <1>3

\* The state of i at e becomes v, and nothing is forgotten.
StateGoes(e, i, v) ==
  /\ (st \in [Side -> [Id -> {"none", "joining", "live", "ended", "used", "retired"}]])'
  /\ (\A j \in Id : st["J"][j] # "used" /\ st["A"][j] # "joining")'
  /\ \A d \in Side, j \in Id : st'[d][j] = IF d = e /\ j = i THEN v ELSE st[d][j]
  /\ \A j \in Id : Taken(j) => Taken(j)'
  /\ \A j \in Id : st["A"][j] # "none" => st'["A"][j] # "none"

LEMMA StateStep ==
  ASSUME IInv, NEW e \in Side, NEW i \in Id,
         NEW v \in {"joining", "live", "ended", "used", "retired"},
         e = "J" => v # "used", e = "A" => v # "joining",
         st' = [st EXCEPT ![e][i] = v]
  PROVE  StateGoes(e, i, v)
<1>1. st \in [Side -> [Id -> {"none", "joining", "live", "ended", "used", "retired"}]]
  BY DEF IInv, TypeOK
<1>2. /\ st' \in [Side -> [Id -> {"none", "joining", "live", "ended", "used", "retired"}]]
      /\ \A d \in Side, j \in Id : st'[d][j] = IF d = e /\ j = i THEN v ELSE st[d][j]
  BY <1>1, Update
<1> QED BY <1>2 DEF StateGoes, IInv, TypeOK, Taken, Side

\* A step about one ID that keeps what is known of it and of the others.
LEMMA Kept ==
  ASSUME IInv, NEW i \in Id, TypeOK', Taken(i)',
         \A j \in Id : Taken(j) => Taken(j)',
         \A j \in Id : Spent(j) => Spent(j)',
         \A d \in Side, j \in Id \ {i} : st'[d][j] = st[d][j] /\ ab'[d][j] = ab[d][j],
         st'["A"][i] # "none" => Spent(i)',
         entries' \subseteq entries \union {i},
         i \in entries' => st'["A"][i] # "none",
         ~fatal'
  PROVE  IInv'
<1>1. Remembered'
  BY DEF IInv, Remembered, Side
<1>2. Known'
  <2>1. \A j \in Id : (st["A"][j] # "none" \/ ab["A"][j] # "none" \/ ab["J"][j] # "none")'
                        => Taken(j)'
    BY DEF IInv, Known, Side
  <2>2. \A j \in entries' : st'["A"][j] # "none"
    BY DEF IInv, Known, Side, TypeOK
  <2> QED BY <2>1, <2>2 DEF Known
<1> QED BY <1>1, <1>2 DEF IInv

\* The bitmap does not move.
LEMMA SpentStays ==
  ASSUME UNCHANGED high, bits \subseteq bits'
  PROVE  \A j \in Id : Spent(j) => Spent(j)'
  BY DEF Spent, Stale

LEMMA JoinKeeps == ASSUME IInv, NEW i \in Id, Join(i) PROVE IInv'
<1>1. /\ st' = [st EXCEPT !["J"][i] = "joining"]
      /\ UNCHANGED <<high, bits, ab, entries, fatal>> /\ st["J"][i] = "none"
  BY DEF Join, Taken
<1>2. /\ TypeOK' /\ Taken(i)' /\ \A j \in Id : Taken(j) => Taken(j)'
      /\ \A d \in Side, j \in Id : st'[d][j] = IF d = "J" /\ j = i THEN "joining" ELSE st[d][j]
  <2>1. StateGoes("J", i, "joining")
    BY <1>1, StateStep DEF Side
  <2> QED BY <1>1, <2>1 DEF StateGoes, TypeOK, Side, IInv, Taken
<1>3. st["A"][i] = "none"
  BY <1>1 DEF IInv, Known, Taken
<1>4. \A j \in Id : Spent(j) => Spent(j)'
  BY <1>1, SpentStays
<1>5. st'["A"][i] = "none" /\ i \notin entries
  BY <1>2, <1>3 DEF IInv, Known, Side
<1> QED BY <1>1, <1>2, <1>4, <1>5, Kept DEF IInv, Side

\* A verified join was taken, is not remembered yet, and is remembered from then on.
LEMMA FreshKept ==
  ASSUME IInv, NEW i \in Id, Fresh(i), Verified(i)
  PROVE  /\ Taken(i) /\ st["A"][i] = "none" /\ Spent(i)'
         /\ high' \in 0..MaxId /\ bits' \subseteq Id
         /\ \A j \in Id : Spent(j) => Spent(j)'
<1>1. high \in Nat /\ high \in 0..MaxId /\ bits \subseteq Id
  BY ConstantAssumption DEF IInv, TypeOK
<1>2. bits' \subseteq Id /\ \A j \in Id : Spent(j) \/ j = i => Spent(j)'
  BY <1>1, VerifiedRemembers
<1>3. high' \in 0..MaxId
  BY <1>1 DEF Verified, Id
<1>4. Taken(i) /\ st["A"][i] = "none"
  BY DEF Fresh, IInv, Remembered
<1> QED BY <1>2, <1>3, <1>4

LEMMA AttachKeeps == ASSUME IInv, NEW i \in Id, Attach(i) PROVE IInv'
<1>1. /\ Fresh(i) /\ Verified(i) /\ st' = [st EXCEPT !["A"][i] = "live"]
      /\ UNCHANGED <<ab, entries, fatal>>
  BY DEF Attach
<1>2. /\ Taken(i) /\ Spent(i)' /\ \A j \in Id : Spent(j) => Spent(j)'
      /\ high' \in 0..MaxId /\ bits' \subseteq Id
  BY <1>1, FreshKept
<1>3. /\ TypeOK' /\ \A j \in Id : Taken(j) => Taken(j)'
      /\ \A d \in Side, j \in Id : st'[d][j] = IF d = "A" /\ j = i THEN "live" ELSE st[d][j]
  <2>1. StateGoes("A", i, "live")
    BY <1>1, StateStep DEF Side
  <2> QED BY <1>1, <1>2, <2>1 DEF StateGoes, TypeOK, IInv
<1>4. st'["A"][i] # "none"
  BY <1>3 DEF Side
<1> QED BY <1>1, <1>2, <1>3, <1>4, Kept DEF IInv

LEMMA RefuseKeeps == ASSUME IInv, NEW i \in Id, Refuse(i) PROVE IInv'
<1>1. /\ Fresh(i) /\ Verified(i) /\ st' = [st EXCEPT !["A"][i] = "used"]
      /\ ab' = [ab EXCEPT !["A"][i] = IF @ = "none" THEN "sent" ELSE @]
      /\ UNCHANGED <<entries, fatal>>
  BY DEF Refuse
<1>2. /\ Taken(i) /\ Spent(i)' /\ \A j \in Id : Spent(j) => Spent(j)'
      /\ high' \in 0..MaxId /\ bits' \subseteq Id
  BY <1>1, FreshKept
<1>3. /\ ab' \in [Side -> [Id -> {"none", "sent", "arrived", "acked"}]]
      /\ \A d \in Side, j \in Id \ {i} : ab'[d][j] = ab[d][j]
  BY <1>1 DEF IInv, TypeOK, Side
<1>4. /\ TypeOK' /\ \A j \in Id : Taken(j) => Taken(j)'
      /\ \A d \in Side, j \in Id : st'[d][j] = IF d = "A" /\ j = i THEN "used" ELSE st[d][j]
  <2>1. StateGoes("A", i, "used")
    BY <1>1, StateStep DEF Side
  <2> QED BY <1>1, <1>2, <1>3, <2>1 DEF StateGoes, TypeOK, IInv
<1>5. st'["A"][i] # "none"
  BY <1>4 DEF Side
<1> QED BY <1>1, <1>2, <1>3, <1>4, <1>5, Kept DEF IInv

LEMMA ConfirmKeeps == ASSUME IInv, NEW i \in Id, Confirm(i) PROVE IInv'
<1>1. /\ st["A"][i] # "none" /\ st' = [st EXCEPT !["J"][i] = "live"]
      /\ entries' = entries \union {i} /\ UNCHANGED <<high, bits, ab, fatal>>
  BY DEF Confirm
<1>2. /\ TypeOK' /\ \A j \in Id : Taken(j) => Taken(j)'
      /\ \A d \in Side, j \in Id : st'[d][j] = IF d = "J" /\ j = i THEN "live" ELSE st[d][j]
  <2>1. StateGoes("J", i, "live")
    BY <1>1, StateStep DEF Side
  <2> QED BY <1>1, <2>1 DEF StateGoes, TypeOK, IInv
<1>3. Taken(i)' /\ st'["A"][i] = st["A"][i]
  BY <1>1, <1>2 DEF Side, Taken
<1>4. \A j \in Id : Spent(j) => Spent(j)'
  BY <1>1, SpentStays
<1>5. Spent(i)'
  BY <1>1, <1>4 DEF IInv, Remembered
<1> QED BY <1>1, <1>2, <1>3, <1>4, <1>5, Kept DEF IInv

\* A frame of one end about an ID that J has taken: sent or arrived.
LEMMA AbStep ==
  ASSUME IInv, NEW d \in Side, NEW e \in Side, NEW i \in Id,
         NEW from, from = ab \/ from = Arrives(d, i)
  PROVE  LET to == [from EXCEPT ![e][i] = IF @ = "none" THEN "sent" ELSE @]
         IN  /\ {from, to} \subseteq [Side -> [Id -> {"none", "sent", "arrived", "acked"}]]
             /\ \A c \in Side, j \in Id \ {i} : from[c][j] = ab[c][j] /\ to[c][j] = ab[c][j]
<1>1. ab \in [Side -> [Id -> {"none", "sent", "arrived", "acked"}]]
  BY DEF IInv, TypeOK
<1>2. /\ from \in [Side -> [Id -> {"none", "sent", "arrived", "acked"}]]
      /\ \A c \in Side, j \in Id \ {i} : from[c][j] = ab[c][j]
  BY <1>1 DEF Arrives
<1> QED BY <1>2

LEMMA ArrivesStep ==
  ASSUME IInv, NEW d \in Side, NEW i \in Id
  PROVE  /\ Arrives(d, i) \in [Side -> [Id -> {"none", "sent", "arrived", "acked"}]]
         /\ \A c \in Side, j \in Id \ {i} : Arrives(d, i)[c][j] = ab[c][j]
<1>1. ab \in [Side -> [Id -> {"none", "sent", "arrived", "acked"}]]
  BY DEF IInv, TypeOK
<1> QED BY <1>1 DEF Arrives

LEMMA EndKeeps ==
  ASSUME IInv, NEW d \in Side, NEW e \in Side, NEW i \in Id,
         st[e][i] \in {"joining", "live"},
         NEW from, from = ab \/ from = Arrives(d, i), EndAt(e, i, from),
         UNCHANGED <<high, bits, entries>>, fatal' = FALSE
  PROVE  IInv'
<1>1. /\ st' = [st EXCEPT ![e][i] = "ended"]
      /\ ab' \in [Side -> [Id -> {"none", "sent", "arrived", "acked"}]]
      /\ \A c \in Side, j \in Id \ {i} : ab'[c][j] = ab[c][j]
  BY AbStep DEF EndAt
<1>2. StateGoes(e, i, "ended")
  BY <1>1, StateStep
<1>3. TypeOK'
  BY <1>1, <1>2 DEF StateGoes, IInv, TypeOK
<1>4. Taken(i) /\ Taken(i)'
  BY <1>2 DEF StateGoes, Side, Taken, IInv, Known
<1>5. \A j \in Id : Spent(j) => Spent(j)'
  BY SpentStays
<1>6. st'["A"][i] # "none" => Spent(i)'
  <2>1. st'["A"][i] # "none" => st["A"][i] # "none"
    BY <1>2 DEF StateGoes, Side
  <2> QED BY <2>1, <1>5 DEF IInv, Remembered
<1>7. i \in entries' => st'["A"][i] # "none"
  BY <1>2 DEF StateGoes, IInv, Known
<1> QED
  <2>1. \A c \in Side, j \in Id \ {i} : st'[c][j] = st[c][j] /\ ab'[c][j] = ab[c][j]
    BY <1>1, <1>2 DEF StateGoes
  <2>2. \A j \in Id : Taken(j) => Taken(j)'
    BY <1>2 DEF StateGoes
  <2> QED BY <2>1, <2>2, <1>3, <1>4, <1>5, <1>6, <1>7, Kept

LEMMA ArrivalKeeps ==
  ASSUME IInv, NEW i \in Id, Taken(i), UNCHANGED <<st, high, bits, entries>>, fatal' = FALSE,
         ab' \in [Side -> [Id -> {"none", "sent", "arrived", "acked"}]],
         \A c \in Side, j \in Id \ {i} : ab'[c][j] = ab[c][j]
  PROVE  IInv'
<1>1. TypeOK'
  BY DEF IInv, TypeOK
<1>2. \A j \in Id : (Spent(j) => Spent(j)') /\ (Taken(j) => Taken(j)')
  BY SpentStays DEF Taken
<1>3. st'["A"][i] # "none" => Spent(i)'
  BY <1>2 DEF IInv, Remembered
<1>4. i \in entries' => st'["A"][i] # "none"
  BY DEF IInv, Known
<1> QED BY <1>1, <1>2, <1>3, <1>4, Kept

LEMMA FailKeeps == ASSUME IInv, NEW e \in Side, NEW i \in Id, Fail(e, i) PROVE IInv'
  BY EndKeeps DEF Fail, IInv, TypeOK

LEMMA JRecvAbandonKeeps == ASSUME IInv, NEW i \in Id, JRecvAbandon(i) PROVE IInv'
<1>1. Taken(i) /\ "A" \in Side /\ "J" \in Side
  BY DEF JRecvAbandon, IInv, Known, Side
<1>2. fatal' = FALSE /\ UNCHANGED <<high, bits, entries>>
  BY <1>1 DEF JRecvAbandon, IInv, TypeOK
<1>3. CASE st["J"][i] \in {"joining", "live"} /\ EndAt("J", i, Arrives("A", i))
  BY <1>1, <1>2, <1>3, EndKeeps
<1>4. CASE ab' = Arrives("A", i) /\ UNCHANGED st
  <2>1. /\ ab' \in [Side -> [Id -> {"none", "sent", "arrived", "acked"}]]
        /\ \A c \in Side, j \in Id \ {i} : ab'[c][j] = ab[c][j]
    BY <1>1, <1>4, ArrivesStep
  <2> QED BY <1>1, <1>2, <1>4, <2>1, ArrivalKeeps
<1> QED BY <1>3, <1>4 DEF JRecvAbandon

LEMMA ARecvAbandonKeeps == ASSUME IInv, NEW i \in Id, ARecvAbandon(i) PROVE IInv'
<1>1. Taken(i) /\ "A" \in Side /\ "J" \in Side
  BY DEF ARecvAbandon, IInv, Known, Side
<1>2. fatal' = FALSE /\ UNCHANGED <<high, entries>>
  BY DEF ARecvAbandon, IInv, TypeOK
<1>3. CASE st["A"][i] = "live" /\ EndAt("A", i, Arrives("J", i)) /\ UNCHANGED bits
  BY <1>1, <1>2, <1>3, EndKeeps
<1>4. CASE /\ ~HasState("A", i) /\ Covered(i) /\ i \notin bits
           /\ bits' = bits \union {i}
           /\ st' = [st EXCEPT !["A"][i] = "used"]
           /\ ab' = [Arrives("J", i) EXCEPT !["A"][i] = "sent"]
  <2>1. StateGoes("A", i, "used")
    BY <1>1, <1>4, StateStep
  <2>2. /\ Arrives("J", i) \in [Side -> [Id -> {"none", "sent", "arrived", "acked"}]]
        /\ \A c \in Side, j \in Id \ {i} : Arrives("J", i)[c][j] = ab[c][j]
    BY <1>1, ArrivesStep
  <2>3. /\ ab' \in [Side -> [Id -> {"none", "sent", "arrived", "acked"}]]
        /\ \A c \in Side, j \in Id \ {i} : ab'[c][j] = ab[c][j]
    BY <1>1, <1>4, <2>2
  <2>4. TypeOK' /\ Taken(i)' /\ \A j \in Id : Taken(j) => Taken(j)'
    BY <1>1, <1>2, <1>4, <2>1, <2>3 DEF StateGoes, IInv, TypeOK
  <2>5. \A j \in Id : Spent(j) => Spent(j)'
    BY <1>2, <1>4, SpentStays
  <2>6. Spent(i)'
    BY <1>4 DEF Spent
  <2>7. \A c \in Side, j \in Id \ {i} : st'[c][j] = st[c][j] /\ ab'[c][j] = ab[c][j]
    BY <2>1, <2>3 DEF StateGoes
  <2>8. st'["A"][i] # "none" /\ ~fatal'
    BY <1>1, <1>2, <2>1 DEF StateGoes
  <2> QED BY <1>2, <2>4, <2>5, <2>6, <2>7, <2>8, Kept
<1>5. CASE ab' = Arrives("J", i) /\ UNCHANGED <<st, bits>>
  <2>1. /\ ab' \in [Side -> [Id -> {"none", "sent", "arrived", "acked"}]]
        /\ \A c \in Side, j \in Id \ {i} : ab'[c][j] = ab[c][j]
    BY <1>1, <1>5, ArrivesStep
  <2> QED BY <1>1, <1>2, <1>5, <2>1, ArrivalKeeps
<1> QED BY <1>3, <1>4, <1>5 DEF ARecvAbandon

LEMMA AckedKeeps == ASSUME IInv, NEW e \in Side, NEW i \in Id, Acked(e, i) PROVE IInv'
<1>1. /\ ab[e][i] = "arrived" /\ ab' = [ab EXCEPT ![e][i] = "acked"]
      /\ UNCHANGED <<st, high, bits, entries>> /\ fatal' = FALSE
  BY DEF Acked, IInv, TypeOK
<1>2. Taken(i)
  BY <1>1 DEF IInv, Known, Side
<1>3. /\ ab' \in [Side -> [Id -> {"none", "sent", "arrived", "acked"}]]
      /\ \A c \in Side, j \in Id \ {i} : ab'[c][j] = ab[c][j]
  BY <1>1 DEF IInv, TypeOK
<1> QED BY <1>1, <1>2, <1>3, ArrivalKeeps

LEMMA RetireKeeps == ASSUME IInv, NEW e \in Side, NEW i \in Id, Retire(e, i) PROVE IInv'
<1>1. /\ st[e][i] = "ended" /\ st' = [st EXCEPT ![e][i] = "retired"]
      /\ UNCHANGED <<high, bits, ab, entries>> /\ fatal' = FALSE
  BY DEF Retire, IInv, TypeOK
<1>2. StateGoes(e, i, "retired")
  BY <1>1, StateStep
<1>3. TypeOK' /\ \A j \in Id : Taken(j) => Taken(j)'
  BY <1>1, <1>2 DEF StateGoes, IInv, TypeOK
<1>4. Taken(i)'
  BY <1>1, <1>2 DEF StateGoes, Side, Taken, IInv, Known
<1>5. \A j \in Id : Spent(j) => Spent(j)'
  BY <1>1, SpentStays
<1>6. st'["A"][i] # "none" => Spent(i)'
  <2>1. st'["A"][i] # "none" => st["A"][i] # "none"
    BY <1>1, <1>2 DEF StateGoes, Side
  <2> QED BY <2>1, <1>5 DEF IInv, Remembered
<1>7. i \in entries' => st'["A"][i] # "none"
  BY <1>1, <1>2 DEF StateGoes, IInv, Known
<1>8. \A c \in Side, j \in Id \ {i} : st'[c][j] = st[c][j] /\ ab'[c][j] = ab[c][j]
  BY <1>1, <1>2 DEF StateGoes
<1> QED BY <1>1, <1>3, <1>4, <1>5, <1>6, <1>7, <1>8, Kept

LEMMA RecvEntryKeeps == ASSUME IInv, NEW i \in Id, RecvEntry(i) PROVE IInv'
<1>1. UNCHANGED <<st, high, bits, ab, entries>>
  BY DEF RecvEntry
<1>2. fatal' = FALSE
  BY DEF RecvEntry, IInv, Known, Remembered, TypeOK
<1> QED BY <1>1, <1>2 DEF IInv, TypeOK, Remembered, Known, Spent, Stale, Taken

LEMMA StutterKeeps == IInv /\ UNCHANGED vars => IInv'
  BY DEF vars, IInv, TypeOK, Remembered, Known, Spent, Stale, Taken

LEMMA NextKeeps == IInv /\ [Next]_vars => IInv'
<1> SUFFICES ASSUME IInv, Next PROVE IInv'
  BY StutterKeeps
<1>1. PICK i \in Id : \/ Join(i) \/ Confirm(i) \/ JRecvAbandon(i)
                      \/ Attach(i) \/ Refuse(i) \/ ARecvAbandon(i) \/ RecvEntry(i)
                      \/ \E e \in Side : Fail(e, i) \/ Acked(e, i) \/ Retire(e, i)
  BY DEF Next
<1> QED BY <1>1, JoinKeeps, ConfirmKeeps, JRecvAbandonKeeps, AttachKeeps, RefuseKeeps,
           ARecvAbandonKeeps, RecvEntryKeeps, FailKeeps, AckedKeeps, RetireKeeps

\* The invariant holds always; so does the type invariant.
THEOREM Invariant == Spec => []IInv
  BY InitHolds, NextKeeps, PTL DEF Spec

\* Every variable of Attach stays within its type.
THEOREM TypeCorrect == Spec => []TypeOK
<1>1. IInv => TypeOK
  BY DEF IInv
<1> QED BY <1>1, Invariant, PTL

\* No PIPE_ABANDON and no PIPE_ACK entry of a conforming end, however late or often it
\* arrives, closes the session, for any window (NeverFatal).
THEOREM ConformingIsNotFatal == Spec => []NeverFatal
<1>1. IInv => NeverFatal
  BY DEF IInv, NeverFatal
<1> QED BY <1>1, Invariant, PTL

\* Only a join that is fresh attaches, and a fresh ID was never used.
LEMMA AttachedFresh ==
  ASSUME IInv, [Next]_vars, NEW j \in Id, st["A"][j] \notin {"none", "live"}
  PROVE  st'["A"][j] # "live"
<1>0. st \in [Side -> [Id -> {"none", "joining", "live", "ended", "used", "retired"}]]
  BY DEF IInv, TypeOK
<1>1. CASE UNCHANGED vars
  BY <1>1 DEF vars
<1>2. ASSUME NEW i \in Id, Attach(i) PROVE st'["A"][j] # "live"
  <2>1. st["A"][i] = "none"
    BY <1>2 DEF Attach, Fresh, IInv, Remembered
  <2> QED BY <1>0, <1>2, <2>1 DEF Attach, Side
<1>3. ASSUME NEW i \in Id, Join(i) \/ Confirm(i) \/ Refuse(i) \/ RecvEntry(i)
      PROVE  st'["A"][j] # "live"
  BY <1>0, <1>3 DEF Join, Confirm, Refuse, RecvEntry, Side
<1>4. ASSUME NEW i \in Id, JRecvAbandon(i) \/ ARecvAbandon(i) PROVE st'["A"][j] # "live"
  BY <1>0, <1>4 DEF JRecvAbandon, ARecvAbandon, EndAt, Side
<1>5. ASSUME NEW i \in Id, NEW e \in Side, Fail(e, i) \/ Acked(e, i) \/ Retire(e, i)
      PROVE  st'["A"][j] # "live"
  BY <1>0, <1>5 DEF Fail, Acked, Retire, EndAt, Side
<1> QED BY <1>1, <1>2, <1>3, <1>4, <1>5 DEF Next

\* A pipe ID is attached at most once, for any window (UsedOnce).
THEOREM IdsAreUsedOnce == Spec => UsedOnce
<1>1. IInv /\ [Next]_vars
        => [\A i \in Id : st["A"][i] \notin {"none", "live"} => st'["A"][i] # "live"]_vars
  BY AttachedFresh
<1> QED BY <1>1, Invariant, PTL DEF Spec, UsedOnce

=============================================================================
