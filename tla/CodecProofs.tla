---------------------------- MODULE CodecProofs -----------------------------
(***************************************************************************)
(* Proofs about the binary codec, for every width of a byte and of the     *)
(* numbers, every value that fits them and any bytes in place of an        *)
(* encoding: decoding gives back what was encoded, only canonical bytes    *)
(* are accepted, and no read passes the end of the payload.                *)
(*                                                                         *)
(* The loops of the writer and the reader are recursive functions over an  *)
(* initial segment of Nat; what they compute is shown by induction in the  *)
(* form that a set with 0 and every successor holds every number.          *)
(***************************************************************************)
EXTENDS Codec, SequenceTheorems, WellFoundedInduction, TLAPS

-----------------------------------------------------------------------------
(* Induction, and functions defined by recursion on 0..w.                  *)

LEMMA SetInduction ==
    ASSUME NEW G, 0 \in G, \A n \in Nat : n \in G => n + 1 \in G
    PROVE  \A n \in Nat : n \in G
<1> DEFINE R == OpToRel(<, Nat)
           Bad == {n \in Nat : n \notin G}
<1> SUFFICES ASSUME Bad # {}
             PROVE  FALSE
  OBVIOUS
<1>1. IsWellFoundedOn(R, Nat)
  BY NatLessThanWellFounded
<1>2. \E x \in Bad : \A y \in Bad : ~(<<y, x>> \in R)
  <2>1. Bad \subseteq Nat
    OBVIOUS
  <2> HIDE DEF R, Bad
  <2> QED
    BY <1>1, <2>1, WFMin
<1>3. PICK x \in Bad : \A y \in Bad : ~(<<y, x>> \in R)
  BY <1>2
<1>4. x \in Nat /\ x \notin G /\ x # 0
  OBVIOUS
<1>5. x - 1 \in Nat /\ (x - 1) + 1 = x /\ x - 1 < x
  BY <1>4
<1>6. x - 1 \notin G
  BY <1>4, <1>5
<1>7. <<x - 1, x>> \in R
  BY <1>4, <1>5 DEF OpToRel
<1>8. x - 1 \in Bad
  BY <1>5, <1>6
<1> HIDE DEF R, Bad
<1> QED
  BY <1>3, <1>7, <1>8

\* g starts with a and follows the steps st up to w.
Follows(g, S, a, st, w) ==
    /\ g \in [0..w -> S]
    /\ g[0] = a
    /\ \A i \in 1..w : g[i] = st[<<i, g[i - 1]>>]

LEMMA FiniteRecursion ==
    ASSUME NEW S, NEW a \in S, NEW w \in Nat, NEW st \in [(1..w) \X S -> S]
    PROVE  \E g : Follows(g, S, a, st, w)
<1> DEFINE G == {m \in Nat : m <= w => \E g : Follows(g, S, a, st, m)}
<1>1. 0 \in G
  <2>1. Follows([i \in 0..0 |-> a], S, a, st, 0)
    BY DEF Follows
  <2> QED
    BY <2>1
<1>2. ASSUME NEW m \in Nat, m \in G
      PROVE  m + 1 \in G
  <2> SUFFICES ASSUME m + 1 <= w
               PROVE  \E g : Follows(g, S, a, st, m + 1)
    OBVIOUS
  <2>1. PICK g : Follows(g, S, a, st, m)
    BY <1>2
  <2>2. g \in [0..m -> S] /\ g[0] = a /\ \A i \in 1..m : g[i] = st[<<i, g[i - 1]>>]
    BY <2>1 DEF Follows
  <2>3. PICK h : h = [i \in 0..(m + 1) |-> IF i = m + 1 THEN st[<<m + 1, g[m]>>] ELSE g[i]]
    OBVIOUS
  <2>4. st[<<m + 1, g[m]>>] \in S
    <3>1. g[m] \in S /\ m + 1 \in 1..w
      BY <2>2
    <3> QED
      BY <3>1
  <2>5. h \in [0..(m + 1) -> S]
    BY <2>2, <2>3, <2>4
  <2>6. \A i \in 0..m : h[i] = g[i]
    BY <2>3
  <2>7. h[m + 1] = st[<<m + 1, g[m]>>]
    BY <2>3
  <2>8. ASSUME NEW i \in 1..(m + 1)
        PROVE  h[i] = st[<<i, h[i - 1]>>]
    <3>1. CASE i = m + 1
      <4>1. i - 1 = m /\ m \in 0..m
        BY <3>1
      <4> QED
        BY <2>6, <2>7, <3>1, <4>1
    <3>2. CASE i # m + 1
      <4>1. i \in 1..m /\ i \in 0..m /\ i - 1 \in 0..m
        BY <3>2
      <4> QED
        BY <2>2, <2>6, <4>1
    <3> QED
      BY <3>1, <3>2
  <2>9. h[0] = a
    BY <2>2, <2>6
  <2> QED
    BY <2>5, <2>8, <2>9 DEF Follows
<1> HIDE DEF G
<1>3. \A m \in Nat : m \in G
  BY <1>1, <1>2, SetInduction
<1> QED
  BY <1>3 DEF G

LEMMA SegmentInduction ==
    ASSUME NEW w \in Nat, NEW G, 0 \in G, \A i \in 1..w : i - 1 \in G => i \in G
    PROVE  \A i \in 0..w : i \in G
<1> DEFINE H == {i \in Nat : i <= w => i \in G}
<1>1. 0 \in H
  OBVIOUS
<1>2. ASSUME NEW n \in Nat, n \in H
      PROVE  n + 1 \in H
  <2> SUFFICES ASSUME n + 1 <= w
               PROVE  n + 1 \in G
    OBVIOUS
  <2>1. n + 1 \in 1..w /\ (n + 1) - 1 = n /\ n <= w
    OBVIOUS
  <2>2. n \in G
    BY <1>2, <2>1
  <2> QED
    BY <2>1, <2>2
<1> HIDE DEF H
<1>3. \A n \in Nat : n \in H
  BY <1>1, <1>2, SetInduction
<1> QED
  BY <1>3 DEF H

-----------------------------------------------------------------------------
(* Numbers: what the loops of BinWriter::u64 and BinReader::u64 compute.   *)

LEMMA BaseIs == Base \in Nat /\ Base > 1
BY CodecAssumption

LEMMA WidthsAre ==
    /\ Bytes32 \in Nat /\ Bytes32 > 0 /\ Bytes64 \in Nat /\ Bytes64 > 0
    /\ BytesId \in Nat /\ BytesId > 0
BY CodecAssumption

LEMMA ByteIs == ASSUME NEW b PROVE b \in Byte <=> b \in Nat /\ b < Base
BY BaseIs DEF Byte

\* A quotient and a rest determine a number, and it determines them.
LEMMA DivisionParts ==
    ASSUME NEW n \in Nat
    PROVE  /\ n \div Base \in Nat /\ n % Base \in Byte
           /\ n = (n % Base) + (Base * (n \div Base))
<1>1. /\ n \div Base \in Nat /\ n % Base \in Nat /\ n % Base < Base
      /\ n = (Base * (n \div Base)) + (n % Base)
  BY BaseIs
<1> QED
  BY <1>1, BaseIs, ByteIs

LEMMA PartsDivide ==
    ASSUME NEW b \in Byte, NEW v \in Nat
    PROVE  /\ b + Base * v \in Nat
           /\ (b + Base * v) \div Base = v /\ (b + Base * v) % Base = b
<1>1. b \in Nat /\ b < Base /\ Base \in Nat
  BY BaseIs, ByteIs
<1>2. PICK n : n = b + Base * v
  OBVIOUS
<1>3. n \in Nat
  BY <1>1, <1>2
<1>4. PICK q \in Nat : q = n \div Base
  BY <1>3, DivisionParts
<1>5. PICK r \in Nat : r = n % Base /\ r < Base
  BY <1>3, DivisionParts, ByteIs
<1>6. b + Base * v = r + Base * q
  BY <1>2, <1>3, <1>4, <1>5, DivisionParts
<1>7. ASSUME q >= v + 1 PROVE FALSE
  <2>1. Base * q >= Base * (v + 1)
    BY <1>1, <1>7
  <2>2. Base * (v + 1) = Base * v + Base
    BY <1>1
  <2>3. Base * q \in Nat /\ Base * v \in Nat
    BY <1>1
  <2> QED
    BY <1>1, <1>5, <1>6, <2>1, <2>2, <2>3
<1>8. ASSUME q + 1 <= v PROVE FALSE
  <2>1. Base * v >= Base * (q + 1)
    BY <1>1, <1>8
  <2>2. Base * (q + 1) = Base * q + Base
    BY <1>1
  <2>3. Base * q \in Nat /\ Base * v \in Nat
    BY <1>1
  <2> QED
    BY <1>1, <1>5, <1>6, <2>1, <2>2, <2>3
<1>9. q = v
  BY <1>7, <1>8
<1>10. Base * v \in Nat
  BY <1>1
<1>11. r = b
  BY <1>1, <1>6, <1>9, <1>10
<1> QED
  BY <1>2, <1>3, <1>4, <1>5, <1>9, <1>11

Rests(g, n, w) == g = [i \in 0..w |-> IF i = 0 THEN n ELSE g[i - 1] \div Base]

\* What Shifted computes: one division by Base after the other.
Shifts(g, n, w) ==
    /\ g \in [0..w -> Nat] /\ g[0] = n
    /\ \A i \in 1..w : g[i] = g[i - 1] \div Base

LEMMA ShiftedIs ==
    ASSUME NEW n \in Nat, NEW w \in Nat
    PROVE  Shifts(Shifted(n, w), n, w)
<1>1. Shifted(n, w) = CHOOSE g : Rests(g, n, w)
  BY DEF Shifted, Rests
<1>2. \E g : Rests(g, n, w)
  <2>1. PICK st : st = [p \in (1..w) \X Nat |-> p[2] \div Base]
    OBVIOUS
  <2>2. \A i \in 1..w, m \in Nat : st[<<i, m>>] = m \div Base
    BY <2>1
  <2>3. st \in [(1..w) \X Nat -> Nat]
    BY <2>1, DivisionParts
  <2>4. PICK g : Follows(g, Nat, n, st, w)
    BY <2>3, FiniteRecursion
  <2>5. g \in [0..w -> Nat] /\ g[0] = n /\ \A i \in 1..w : g[i] = st[<<i, g[i - 1]>>]
    BY <2>4 DEF Follows
  <2>6. ASSUME NEW i \in 0..w
        PROVE  g[i] = IF i = 0 THEN n ELSE g[i - 1] \div Base
    <3>1. CASE i = 0
      BY <2>5, <3>1
    <3>2. CASE i # 0
      <4>1. i \in 1..w /\ i - 1 \in 0..w
        BY <3>2
      <4>2. g[i] = st[<<i, g[i - 1]>>] /\ g[i - 1] \in Nat
        BY <2>5, <4>1
      <4> QED
        BY <2>2, <3>2, <4>1, <4>2
    <3> QED
      BY <3>1, <3>2
  <2>7. g = [i \in 0..w |-> IF i = 0 THEN n ELSE g[i - 1] \div Base]
    BY <2>5, <2>6
  <2> QED
    BY <2>7 DEF Rests
<1>3. PICK h : h = Shifted(n, w)
  OBVIOUS
<1>4. Rests(h, n, w)
  BY <1>1, <1>2, <1>3
<1>5. DOMAIN h = 0..w /\ h = [i \in 0..w |-> h[i]]
  BY <1>4 DEF Rests
<1>6. h[0] = n
  BY <1>4 DEF Rests
<1>7. \A i \in 1..w : h[i] = h[i - 1] \div Base
  BY <1>4 DEF Rests
<1>8. \A i \in 0..w : h[i] \in Nat
  <2> DEFINE G == {i \in 0..w : h[i] \in Nat}
  <2>1. 0 \in G
    BY <1>6
  <2>2. ASSUME NEW i \in 1..w, i - 1 \in G
        PROVE  i \in G
    BY <1>7, <2>2, DivisionParts
  <2> HIDE DEF G
  <2>3. \A i \in 0..w : i \in G
    BY <2>1, <2>2, SegmentInduction
  <2> QED
    BY <2>3 DEF G
<1>9. h \in [0..w -> Nat]
  BY <1>5, <1>8
<1> QED
  BY <1>3, <1>6, <1>7, <1>9 DEF Shifts

Reads(g, b, w) ==
    g = [i \in 0..w |-> IF i = 0 THEN 0 ELSE b[w - i + 1] + Base * g[i - 1]]

\* What Number computes: g[i] is the number that the last i of w bytes make.
Sums(g, b, w) ==
    /\ g \in [0..w -> Nat] /\ g[0] = 0
    /\ \A i \in 1..w : g[i] = b[w - i + 1] + Base * g[i - 1]

LEMMA NumberIs ==
    ASSUME NEW b \in Seq(Byte)
    PROVE  \E g : Sums(g, b, Len(b)) /\ Number(b) = g[Len(b)]
<1>0. PICK w \in Nat : w = Len(b)
  OBVIOUS
<1>1. Number(b) = (CHOOSE g : Reads(g, b, w))[w]
  BY <1>0 DEF Number, Reads
<1>2. \A i \in 1..w : w - i + 1 \in 1..w /\ b[w - i + 1] \in Byte
  BY <1>0
<1>3. \E g : Reads(g, b, w)
  <2>1. PICK st : st = [p \in (1..w) \X Nat |-> b[w - p[1] + 1] + Base * p[2]]
    OBVIOUS
  <2>2. \A i \in 1..w, m \in Nat : st[<<i, m>>] = b[w - i + 1] + Base * m
    BY <2>1
  <2>3. \A i \in 1..w, m \in Nat : b[w - i + 1] + Base * m \in Nat
    BY <1>2, PartsDivide
  <2>4. st \in [(1..w) \X Nat -> Nat]
    BY <2>1, <2>3
  <2>5. PICK g : Follows(g, Nat, 0, st, w)
    BY <2>4, FiniteRecursion
  <2>6. g \in [0..w -> Nat] /\ g[0] = 0 /\ \A i \in 1..w : g[i] = st[<<i, g[i - 1]>>]
    BY <2>5 DEF Follows
  <2>7. ASSUME NEW i \in 0..w
        PROVE  g[i] = IF i = 0 THEN 0 ELSE b[w - i + 1] + Base * g[i - 1]
    <3>1. CASE i = 0
      BY <2>6, <3>1
    <3>2. CASE i # 0
      <4>1. i \in 1..w /\ i - 1 \in 0..w
        BY <3>2
      <4>2. g[i] = st[<<i, g[i - 1]>>] /\ g[i - 1] \in Nat
        BY <2>6, <4>1
      <4>3. st[<<i, g[i - 1]>>] = b[w - i + 1] + Base * g[i - 1]
        BY <2>2, <4>1, <4>2
      <4> QED
        BY <3>2, <4>2, <4>3
    <3> QED
      BY <3>1, <3>2
  <2>8. g = [i \in 0..w |-> IF i = 0 THEN 0 ELSE b[w - i + 1] + Base * g[i - 1]]
    BY <2>6, <2>7
  <2> QED
    BY <2>8 DEF Reads
<1>4. PICK h : h = CHOOSE g : Reads(g, b, w)
  OBVIOUS
<1>5. Reads(h, b, w)
  BY <1>3, <1>4
<1>6. DOMAIN h = 0..w /\ h = [i \in 0..w |-> h[i]]
  BY <1>5 DEF Reads
<1>7. h[0] = 0
  BY <1>5 DEF Reads
<1>8. \A i \in 1..w : h[i] = b[w - i + 1] + Base * h[i - 1]
  BY <1>5 DEF Reads
<1>9. \A i \in 0..w : h[i] \in Nat
  <2> DEFINE G == {i \in 0..w : h[i] \in Nat}
  <2>1. 0 \in G
    BY <1>7
  <2>2. ASSUME NEW i \in 1..w, i - 1 \in G
        PROVE  i \in G
    <3>1. h[i - 1] \in Nat /\ b[w - i + 1] \in Byte
      BY <1>2, <2>2
    <3>2. b[w - i + 1] + Base * h[i - 1] \in Nat
      BY <3>1, PartsDivide
    <3> QED
      BY <1>8, <3>2
  <2> HIDE DEF G
  <2>3. \A i \in 0..w : i \in G
    BY <2>1, <2>2, SegmentInduction
  <2> QED
    BY <2>3 DEF G
<1>10. h \in [0..w -> Nat]
  BY <1>6, <1>9
<1>11. Sums(h, b, w)
  BY <1>7, <1>8, <1>10 DEF Sums
<1> QED
  BY <1>0, <1>1, <1>4, <1>11

\* The bytes of a number, the lowest first.
LEMMA LittleEndianIs ==
    ASSUME NEW n \in Nat, NEW w \in Nat
    PROVE  /\ LittleEndian(n, w) \in Seq(Byte) /\ Len(LittleEndian(n, w)) = w
           /\ \A i \in 1..w : LittleEndian(n, w)[i] = Shifted(n, w)[i - 1] % Base
<1>1. PICK g : g = Shifted(n, w)
  OBVIOUS
<1>2. \A i \in 1..w : g[i - 1] \in Nat
  <2>1. Shifts(g, n, w)
    BY <1>1, ShiftedIs
  <2> QED
    BY <2>1 DEF Shifts
<1>3. PICK e : e = [i \in 1..w |-> g[i - 1] % Base]
  OBVIOUS
<1>4. \A i \in 1..w : g[i - 1] % Base \in Byte
  BY <1>2, DivisionParts
<1>5. e \in [1..w -> Byte]
  BY <1>3, <1>4
<1>6. e \in Seq(Byte) /\ Len(e) = w
  BY <1>5
<1>7. \A i \in 1..w : e[i] = g[i - 1] % Base
  BY <1>3
<1>8. LittleEndian(n, w) = e
  BY <1>1, <1>3 DEF LittleEndian
<1> QED
  BY <1>1, <1>6, <1>7, <1>8

\* A number that fits is read as it was written.
LEMMA NumberOfLittleEndian ==
    ASSUME NEW n, NEW w \in Nat, FitsIn(n, w)
    PROVE  Number(LittleEndian(n, w)) = n
<1>0. n \in Nat /\ Shifted(n, w)[w] = 0
  BY DEF FitsIn
<1>1. PICK b : b = LittleEndian(n, w)
  OBVIOUS
<1>2. PICK s : s = Shifted(n, w)
  OBVIOUS
<1>3. b \in Seq(Byte) /\ Len(b) = w
  BY <1>0, <1>1, LittleEndianIs
<1>4. \A i \in 1..w : b[i] = s[i - 1] % Base
  BY <1>0, <1>1, <1>2, LittleEndianIs
<1>5. /\ s \in [0..w -> Nat] /\ s[0] = n /\ s[w] = 0
      /\ \A i \in 1..w : s[i] = s[i - 1] \div Base
  <2>1. Shifts(s, n, w)
    BY <1>0, <1>2, ShiftedIs
  <2> QED
    BY <1>0, <1>2, <2>1 DEF Shifts
<1>7. PICK g : Sums(g, b, Len(b)) /\ Number(b) = g[Len(b)]
  BY <1>3, NumberIs
<1>8. /\ g \in [0..w -> Nat] /\ g[0] = 0 /\ Number(b) = g[w]
      /\ \A i \in 1..w : g[i] = b[w - i + 1] + Base * g[i - 1]
  BY <1>3, <1>7 DEF Sums
<1> DEFINE G == {i \in 0..w : g[i] = s[w - i]}
<1>9. 0 \in G
  BY <1>5, <1>8
<1>10. ASSUME NEW i \in 1..w, i - 1 \in G
       PROVE  i \in G
  <2>1. PICK j \in 1..w : j = w - i + 1
    OBVIOUS
  <2>2. w - (i - 1) = j /\ w - i = j - 1
    BY <2>1
  <2>3. g[i - 1] = s[j]
    BY <1>10, <2>2
  <2>4. g[i] = b[j] + Base * s[j]
    BY <1>8, <2>1, <2>3
  <2>5. b[j] = s[j - 1] % Base /\ s[j] = s[j - 1] \div Base /\ s[j - 1] \in Nat
    BY <1>4, <1>5
  <2>6. g[i] = s[j - 1]
    BY <2>4, <2>5, DivisionParts
  <2> QED
    BY <2>2, <2>6
<1> HIDE DEF G
<1>11. \A i \in 0..w : i \in G
  BY <1>9, <1>10, SegmentInduction
<1>12. g[w] = s[w - w] /\ w - w = 0
  BY <1>11 DEF G
<1> QED
  BY <1>1, <1>5, <1>8, <1>12

\* Bytes are written again as they were read, and what was read fits.
LEMMA LittleEndianOfNumber ==
    ASSUME NEW b \in Seq(Byte)
    PROVE  FitsIn(Number(b), Len(b)) /\ LittleEndian(Number(b), Len(b)) = b
<1>0. PICK w \in Nat : w = Len(b)
  OBVIOUS
<1>1. PICK g : Sums(g, b, w) /\ Number(b) = g[w]
  BY <1>0, NumberIs
<1>2. /\ g \in [0..w -> Nat] /\ g[0] = 0
      /\ \A i \in 1..w : g[i] = b[w - i + 1] + Base * g[i - 1]
  BY <1>1 DEF Sums
<1>3. PICK n \in Nat : n = Number(b) /\ n = g[w]
  BY <1>1, <1>2
<1>4. PICK s : s = Shifted(n, w)
  OBVIOUS
<1>5. Shifts(s, n, w)
  BY <1>3, <1>4, ShiftedIs
<1>6. /\ s \in [0..w -> Nat] /\ s[0] = n
      /\ \A i \in 1..w : s[i] = s[i - 1] \div Base
  BY <1>5 DEF Shifts
<1>7. \A i \in 1..w : b[i] \in Byte
  BY <1>0
<1>8. ASSUME NEW i \in 1..w
      PROVE  /\ g[w - (i - 1)] \div Base = g[w - i]
             /\ g[w - (i - 1)] % Base = b[i]
  <2>1. PICK j \in 1..w : j = w - i + 1
    OBVIOUS
  <2>2. w - (i - 1) = j /\ w - i = j - 1 /\ w - j + 1 = i
    BY <2>1
  <2>3. g[j] = b[i] + Base * g[j - 1] /\ g[j - 1] \in Nat
    <3>1. g[j] = b[w - j + 1] + Base * g[j - 1]
      BY <1>2
    <3>2. j - 1 \in 0..w
      OBVIOUS
    <3>3. g[j - 1] \in Nat
      BY <1>2, <3>2
    <3> QED
      BY <2>2, <3>1, <3>3
  <2>4. b[i] \in Byte
    BY <1>7
  <2>5. g[j] \div Base = g[j - 1] /\ g[j] % Base = b[i]
    BY <2>3, <2>4, PartsDivide
  <2> QED
    BY <2>2, <2>5
<1> DEFINE G == {i \in 0..w : s[i] = g[w - i]}
<1>9. 0 \in G
  BY <1>3, <1>6
<1>10. ASSUME NEW i \in 1..w, i - 1 \in G
       PROVE  i \in G
  BY <1>6, <1>8, <1>10
<1> HIDE DEF G
<1>11. \A i \in 0..w : i \in G
  BY <1>9, <1>10, SegmentInduction
<1>12. \A i \in 0..w : s[i] = g[w - i]
  BY <1>11 DEF G
<1>13. s[w] = 0
  BY <1>2, <1>12
<1>14. FitsIn(n, w)
  BY <1>3, <1>4, <1>13 DEF FitsIn
<1>15. PICK e : e = LittleEndian(n, w)
  OBVIOUS
<1>16. e \in Seq(Byte) /\ Len(e) = w /\ \A i \in 1..w : e[i] = s[i - 1] % Base
  BY <1>4, <1>15, LittleEndianIs
<1>17. ASSUME NEW i \in 1..w
       PROVE  e[i] = b[i]
  <2>1. i - 1 \in 0..w
    OBVIOUS
  <2>2. s[i - 1] = g[w - (i - 1)]
    BY <1>12, <2>1
  <2> QED
    BY <1>8, <1>16, <2>2
<1>18. e = b
  BY <1>0, <1>16, <1>17, SeqEqual
<1> QED
  BY <1>0, <1>3, <1>14, <1>15, <1>18

-----------------------------------------------------------------------------
(* Fields: their order, their forms and the bytes they are written as.     *)

Forms == {"u8", "bool", "u64", "id", "string", "blob"}

LEMMA FormIs == ASSUME NEW f PROVE Form(f) \in Forms
BY DEF Form, Forms

\* Only a message has a flag.
LEMMA FlagOfMessage ==
    ASSUME NEW k \in Kinds, NEW i \in 1..Len(ReadOrder(k)),
           Form(ReadOrder(k)[i]) = "bool"
    PROVE  k = "message"
<1>1. ASSUME k = "fence" PROVE FALSE
  <2>1. ReadOrder(k)[i] \in
          {"adapter", "composition", "adapter_generation",
           "composition_generation", "residency_generation",
           "artifact_generation", "base_model_revision", "epoch",
           "worker", "boot", "attempt", "device", "node"}
    BY <1>1 DEF ReadOrder
  <2> QED
    BY <2>1 DEF Form
<1> QED
  BY <1>1 DEF Kinds

\* Fields are read in the order in which they are written.
LEMMA SameOrder == ASSUME NEW k PROVE WriteOrder(k) = ReadOrder(k)
BY DEF WriteOrder, ReadOrder

LEMMA OrderLength == ASSUME NEW k PROVE Len(ReadOrder(k)) \in Nat
BY DEF ReadOrder

FieldNames ==
    {"type", "text", "text2", "text3", "text4", "a", "b", "c", "req_id", "ok",
     "payload", "adapter", "composition", "adapter_generation",
     "composition_generation", "residency_generation", "artifact_generation",
     "base_model_revision", "epoch", "worker", "boot", "attempt", "device",
     "node"}

LEMMA OrderIs == ASSUME NEW k PROVE ReadOrder(k) \in Seq(FieldNames)
<1>1. CASE k = "message"
  BY <1>1 DEF ReadOrder, FieldNames
<1>2. CASE k # "message"
  BY <1>2 DEF ReadOrder, FieldNames
<1> QED
  BY <1>1, <1>2

LEMMA OrderDomain == ASSUME NEW k PROVE DOMAIN ReadOrder(k) = 1..Len(ReadOrder(k))
BY OrderIs

\* No field is read twice.
LEMMA OrderOnce ==
    ASSUME NEW k, NEW i \in 1..Len(ReadOrder(k)), NEW j \in 1..Len(ReadOrder(k)),
           ReadOrder(k)[i] = ReadOrder(k)[j]
    PROVE  i = j
BY DEF ReadOrder

LEMMA HoldsU8 ==
    ASSUME NEW f, Form(f) = "u8", NEW v
    PROVE  (Holds(f, v) <=> v \in Byte) /\ WriteField(f, v) = <<v>>
BY DEF Holds, WriteField

LEMMA HoldsBool ==
    ASSUME NEW f, Form(f) = "bool", NEW v
    PROVE  /\ Holds(f, v) <=> v \in BOOLEAN
           /\ WriteField(f, v) = IF v THEN <<1>> ELSE <<0>>
BY DEF Holds, WriteField

LEMMA HoldsU64 ==
    ASSUME NEW f, Form(f) = "u64", NEW v
    PROVE  /\ Holds(f, v) <=> FitsIn(v, Bytes64)
           /\ WriteField(f, v) = LittleEndian(v, Bytes64)
BY DEF Holds, WriteField

LEMMA HoldsId ==
    ASSUME NEW f, Form(f) = "id", NEW v
    PROVE  /\ Holds(f, v) <=> (v \in Seq(Byte) /\ Len(v) = BytesId)
           /\ WriteField(f, v) = v
BY DEF Holds, WriteField

LEMMA TextHeld ==
    ASSUME NEW f, Form(f) \in {"string", "blob"}, NEW v, Holds(f, v)
    PROVE  v \in Seq(Byte) /\ FitsIn(Len(v), Bytes32)
BY DEF Holds

LEMMA HoldsText ==
    ASSUME NEW f, Form(f) \in {"string", "blob"},
           NEW v \in Seq(Byte), FitsIn(Len(v), Bytes32)
    PROVE  Holds(f, v)
BY DEF Holds

\* A text as it is written, its length first.
Counted(v) == LittleEndian(Len(v), Bytes32) \o v

LEMMA TextWritten ==
    ASSUME NEW f, Form(f) \in {"string", "blob"}, NEW v
    PROVE  WriteField(f, v) = Counted(v)
BY DEF WriteField, Counted

\* A field is written as bytes.
LEMMA WritesBytes ==
    ASSUME NEW f, NEW v, Holds(f, v)
    PROVE  WriteField(f, v) \in Seq(Byte)
<1>1. CASE Form(f) = "u8"
  <2>1. v \in Byte /\ WriteField(f, v) = <<v>>
    BY <1>1, HoldsU8
  <2> QED
    BY <2>1
<1>2. CASE Form(f) = "bool"
  <2>1. 0 \in Byte /\ 1 \in Byte
    BY BaseIs, ByteIs
  <2>2. <<0>> \in Seq(Byte) /\ <<1>> \in Seq(Byte)
    BY <2>1
  <2> QED
    BY <1>2, <2>2, HoldsBool
<1>3. CASE Form(f) = "u64"
  <2>1. v \in Nat /\ WriteField(f, v) = LittleEndian(v, Bytes64)
    BY <1>3, HoldsU64 DEF FitsIn
  <2> QED
    BY <2>1, LittleEndianIs, WidthsAre
<1>4. CASE Form(f) = "id"
  BY <1>4, HoldsId
<1>5. CASE Form(f) \in {"string", "blob"}
  <2>0. v \in Seq(Byte)
    BY <1>5, TextHeld
  <2>1. Len(v) \in Nat
    BY <2>0
  <2>2. LittleEndian(Len(v), Bytes32) \in Seq(Byte)
    BY <2>1, LittleEndianIs, WidthsAre
  <2>3. LittleEndian(Len(v), Bytes32) \o v \in Seq(Byte)
    BY <2>0, <2>2, ConcatProperties
  <2>4. WriteField(f, v) = Counted(v)
    BY <1>5, TextWritten
  <2> QED
    BY <2>3, <2>4 DEF Counted
<1> QED
  BY <1>1, <1>2, <1>3, <1>4, <1>5, FormIs DEF Forms

-----------------------------------------------------------------------------
(* The buffer: one part behind the other.                                  *)

Join(s, t) == s \o t

LEMMA JoinIs ==
    ASSUME NEW s \in Seq(Byte), NEW t \in Seq(Byte)
    PROVE  /\ Join(s, t) \in Seq(Byte) /\ Len(Join(s, t)) = Len(s) + Len(t)
           /\ \A j \in 1..Len(s) : Join(s, t)[j] = s[j]
           /\ \A j \in 1..Len(t) : Join(s, t)[Len(s) + j] = t[j]
<1>1. PICK n \in Nat, m \in Nat : n = Len(s) /\ m = Len(t)
  OBVIOUS
<1>2. PICK u : u = s \o t
  OBVIOUS
<1>3. u \in Seq(Byte) /\ Len(u) = n + m
  BY <1>1, <1>2, ConcatProperties
<1>4. \A j \in 1..(n + m) : u[j] = IF j <= n THEN s[j] ELSE t[j - n]
  BY <1>1, <1>2, ConcatProperties
<1>5. \A j \in 1..n : u[j] = s[j]
  BY <1>4
<1>6. ASSUME NEW j \in 1..m PROVE u[n + j] = t[j]
  <2>1. n + j \in 1..(n + m) /\ ~(n + j <= n) /\ (n + j) - n = j
    OBVIOUS
  <2> QED
    BY <1>4, <2>1
<1>7. Join(s, t) = u
  BY <1>2 DEF Join
<1> QED
  BY <1>1, <1>3, <1>5, <1>6, <1>7

\* g holds the buffer after each of the w parts p.
Buffers(g, p, w) ==
    /\ g \in [0..w -> Seq(Byte)] /\ g[0] = <<>>
    /\ \A i \in 1..w : g[i] = Join(g[i - 1], p[i])

LEMMA BuffersUnique ==
    ASSUME NEW w \in Nat, NEW g, NEW h, NEW p, NEW q,
           Buffers(g, p, w), Buffers(h, q, w), \A i \in 1..w : p[i] = q[i]
    PROVE  g[w] = h[w]
<1>1. /\ g[0] = <<>> /\ h[0] = <<>>
      /\ \A i \in 1..w : g[i] = Join(g[i - 1], p[i]) /\ h[i] = Join(h[i - 1], q[i])
  BY DEF Buffers
<1> DEFINE G == {i \in 0..w : g[i] = h[i]}
<1>2. 0 \in G
  BY <1>1
<1>3. ASSUME NEW i \in 1..w, i - 1 \in G
      PROVE  i \in G
  BY <1>1, <1>3
<1> HIDE DEF G
<1>4. \A i \in 0..w : i \in G
  BY <1>2, <1>3, SegmentInduction
<1>5. w \in G
  BY <1>4
<1> QED
  BY <1>5 DEF G

\* s is what t starts with.
Starts(s, t) == Len(s) <= Len(t) /\ \A j \in 1..Len(s) : s[j] = t[j]

LEMMA JoinStarts ==
    ASSUME NEW s \in Seq(Byte), NEW t \in Seq(Byte)
    PROVE  Starts(s, Join(s, t))
<1>1. Len(s) \in Nat /\ Len(t) \in Nat
  OBVIOUS
<1>2. Len(Join(s, t)) = Len(s) + Len(t) /\ \A j \in 1..Len(s) : Join(s, t)[j] = s[j]
  BY JoinIs
<1>3. Len(s) <= Len(Join(s, t))
  BY <1>1, <1>2
<1> QED
  BY <1>2, <1>3 DEF Starts

LEMMA BuffersGrow ==
    ASSUME NEW w \in Nat, NEW g, NEW p, Buffers(g, p, w),
           \A i \in 1..w : p[i] \in Seq(Byte), NEW m \in 0..w
    PROVE  Starts(g[m], g[w])
<1>1. g \in [0..w -> Seq(Byte)] /\ \A i \in 1..w : g[i] = Join(g[i - 1], p[i])
  BY DEF Buffers
<1>2. ASSUME NEW i \in 1..w
      PROVE  Starts(g[i - 1], g[i])
  <2>1. g[i - 1] \in Seq(Byte) /\ p[i] \in Seq(Byte) /\ g[i] = Join(g[i - 1], p[i])
    BY <1>1
  <2> QED
    BY <2>1, JoinStarts
<1> DEFINE G == {i \in 0..w : m <= i => Starts(g[m], g[i])}
<1>3. Starts(g[m], g[m])
  <2>1. Len(g[m]) \in Nat
    BY <1>1
  <2> QED
    BY <2>1 DEF Starts
<1>4. 0 \in G
  BY <1>3
<1>5. ASSUME NEW i \in 1..w, i - 1 \in G
      PROVE  i \in G
  <2>1. CASE m = i
    BY <1>3, <2>1
  <2>2. CASE m <= i - 1
    <3>1. Starts(g[m], g[i - 1]) /\ Starts(g[i - 1], g[i])
      BY <1>2, <1>5, <2>2
    <3>2. PICK a \in Nat, b \in Nat, c \in Nat :
            a = Len(g[m]) /\ b = Len(g[i - 1]) /\ c = Len(g[i])
      <4>1. g[m] \in Seq(Byte) /\ g[i - 1] \in Seq(Byte) /\ g[i] \in Seq(Byte)
        BY <1>1
      <4> QED
        BY <4>1
    <3>3. a <= b /\ b <= c /\ (\A j \in 1..a : g[m][j] = g[i - 1][j])
          /\ \A j \in 1..b : g[i - 1][j] = g[i][j]
      BY <3>1, <3>2 DEF Starts
    <3>4. a <= c /\ \A j \in 1..a : g[m][j] = g[i][j]
      BY <3>3
    <3>5. Starts(g[m], g[i])
      BY <3>2, <3>4 DEF Starts
    <3> QED
      BY <3>5
  <2> QED
    BY <2>1, <2>2
<1> HIDE DEF G
<1>6. \A i \in 0..w : i \in G
  BY <1>4, <1>5, SegmentInduction
<1>7. w \in 0..w /\ m <= w
  OBVIOUS
<1> QED
  BY <1>6, <1>7 DEF G

\* The parts of a value, and that each of them can be written.
PartsOf(k, v) ==
    [i \in 1..Len(ReadOrder(k)) |-> WriteField(ReadOrder(k)[i], v[ReadOrder(k)[i]])]

Writable(k, v) ==
    \A i \in 1..Len(ReadOrder(k)) : Holds(ReadOrder(k)[i], v[ReadOrder(k)[i]])

LEMMA ValuesWritable ==
    ASSUME NEW k \in Kinds, NEW v \in Values[k]
    PROVE  Writable(k, v)
<1>1. WriteOrder(k) = ReadOrder(k) /\ DOMAIN WriteOrder(k) = 1..Len(ReadOrder(k))
  BY SameOrder, OrderDomain
<1>2. \A i \in DOMAIN WriteOrder(k) : Holds(WriteOrder(k)[i], v[WriteOrder(k)[i]])
  BY ValuesAssumption
<1> QED
  BY <1>1, <1>2 DEF Writable

LEMMA PartsAreBytes ==
    ASSUME NEW k, NEW v, Writable(k, v)
    PROVE  \A i \in 1..Len(ReadOrder(k)) :
             /\ PartsOf(k, v)[i] = WriteField(ReadOrder(k)[i], v[ReadOrder(k)[i]])
             /\ PartsOf(k, v)[i] \in Seq(Byte)
<1> SUFFICES ASSUME NEW i \in 1..Len(ReadOrder(k))
             PROVE  /\ PartsOf(k, v)[i] = WriteField(ReadOrder(k)[i], v[ReadOrder(k)[i]])
                    /\ PartsOf(k, v)[i] \in Seq(Byte)
  OBVIOUS
<1>1. Holds(ReadOrder(k)[i], v[ReadOrder(k)[i]])
  BY DEF Writable
<1>2. PartsOf(k, v)[i] = WriteField(ReadOrder(k)[i], v[ReadOrder(k)[i]])
  BY DEF PartsOf
<1> QED
  BY <1>1, <1>2, WritesBytes

Fills(g, k, v) ==
    g = [i \in 0..Len(WriteOrder(k)) |->
           IF i = 0 THEN <<>>
           ELSE g[i - 1] \o WriteField(WriteOrder(k)[i], v[WriteOrder(k)[i]])]

LEMMA FillsIs ==
    ASSUME NEW k, NEW v, NEW g
    PROVE  Fills(g, k, v) <=>
             g = [i \in 0..Len(ReadOrder(k)) |->
                    IF i = 0 THEN <<>> ELSE Join(g[i - 1], PartsOf(k, v)[i])]
<1>0. WriteOrder(k) = ReadOrder(k) /\ Len(ReadOrder(k)) \in Nat
  BY SameOrder, OrderLength
<1> DEFINE N == Len(ReadOrder(k))
           e(i) == IF i = 0 THEN <<>>
                   ELSE g[i - 1] \o WriteField(ReadOrder(k)[i], v[ReadOrder(k)[i]])
           d(i) == IF i = 0 THEN <<>> ELSE Join(g[i - 1], PartsOf(k, v)[i])
<1>1. ASSUME NEW i \in 0..N
      PROVE  e(i) = d(i)
  <2>1. CASE i = 0
    BY <2>1
  <2>2. CASE i # 0
    <3>1. i \in 1..N
      BY <1>0, <2>2
    <3>2. PartsOf(k, v)[i] = WriteField(ReadOrder(k)[i], v[ReadOrder(k)[i]])
      BY <3>1 DEF PartsOf
    <3> QED
      BY <2>2, <3>2 DEF Join
  <2> QED
    BY <2>1, <2>2
<1>2. Fills(g, k, v) <=> g = [i \in 0..N |-> e(i)]
  BY <1>0, Zenon DEF Fills
<1>3. [i \in 0..N |-> e(i)] = [i \in 0..N |-> d(i)]
  <2> HIDE DEF e, d, N
  <2> QED
    BY <1>1
<1>4. Fills(g, k, v) <=> g = [i \in 0..N |-> d(i)]
  <2> HIDE DEF e, d, N
  <2> QED
    BY <1>2, <1>3, Zenon
<1> QED
  BY <1>4, Zenon

LEMMA WrittenIs ==
    ASSUME NEW k, NEW v, Writable(k, v)
    PROVE  Buffers(Written(k, v), PartsOf(k, v), Len(ReadOrder(k)))
<1>0. PICK w \in Nat : w = Len(ReadOrder(k))
  BY OrderLength
<1>1. PICK p : p = PartsOf(k, v)
  OBVIOUS
<1>2. \A i \in 1..w : p[i] \in Seq(Byte)
  BY <1>0, <1>1, PartsAreBytes
<1>3. \A g : Fills(g, k, v) <=>
               g = [i \in 0..w |-> IF i = 0 THEN <<>> ELSE Join(g[i - 1], p[i])]
  BY <1>0, <1>1, FillsIs, Zenon
<1>4. <<>> \in Seq(Byte)
  OBVIOUS
<1>5. \E g : Fills(g, k, v)
  <2>1. PICK st : st = [q \in (1..w) \X Seq(Byte) |-> Join(q[2], p[q[1]])]
    OBVIOUS
  <2>2. \A i \in 1..w, s \in Seq(Byte) : st[<<i, s>>] = Join(s, p[i])
    BY <2>1
  <2>3. \A i \in 1..w, s \in Seq(Byte) : Join(s, p[i]) \in Seq(Byte)
    BY <1>2, JoinIs
  <2>4. st \in [(1..w) \X Seq(Byte) -> Seq(Byte)]
    BY <2>1, <2>3
  <2>5. PICK g : Follows(g, Seq(Byte), <<>>, st, w)
    BY <1>4, <2>4, FiniteRecursion
  <2>6. /\ g \in [0..w -> Seq(Byte)] /\ g[0] = <<>>
        /\ \A i \in 1..w : g[i] = st[<<i, g[i - 1]>>]
    BY <2>5 DEF Follows
  <2>7. ASSUME NEW i \in 0..w
        PROVE  g[i] = IF i = 0 THEN <<>> ELSE Join(g[i - 1], p[i])
    <3>1. CASE i = 0
      BY <2>6, <3>1
    <3>2. CASE i # 0
      <4>1. i \in 1..w /\ i - 1 \in 0..w
        BY <3>2
      <4>2. g[i] = st[<<i, g[i - 1]>>] /\ g[i - 1] \in Seq(Byte)
        BY <2>6, <4>1
      <4>3. st[<<i, g[i - 1]>>] = Join(g[i - 1], p[i])
        BY <2>2, <4>1, <4>2
      <4> QED
        BY <3>2, <4>2, <4>3
    <3> QED
      BY <3>1, <3>2
  <2>8. g = [i \in 0..w |-> IF i = 0 THEN <<>> ELSE Join(g[i - 1], p[i])]
    BY <2>6, <2>7
  <2> QED
    BY <1>3, <2>8
<1>6. PICK h : h = Written(k, v)
  OBVIOUS
<1>7. Written(k, v) = CHOOSE g : Fills(g, k, v)
  BY DEF Written, Fills
<1>8. Fills(h, k, v)
  BY <1>5, <1>6, <1>7
<1>9. h = [i \in 0..w |-> IF i = 0 THEN <<>> ELSE Join(h[i - 1], p[i])]
  BY <1>3, <1>8
<1>10. DOMAIN h = 0..w /\ h = [i \in 0..w |-> h[i]] /\ h[0] = <<>>
  BY <1>9
<1>11. \A i \in 1..w : h[i] = Join(h[i - 1], p[i])
  BY <1>9
<1>12. \A i \in 0..w : h[i] \in Seq(Byte)
  <2> DEFINE G == {i \in 0..w : h[i] \in Seq(Byte)}
  <2>1. 0 \in G
    BY <1>4, <1>10
  <2>2. ASSUME NEW i \in 1..w, i - 1 \in G
        PROVE  i \in G
    <3>1. h[i - 1] \in Seq(Byte) /\ p[i] \in Seq(Byte)
      BY <1>2, <2>2
    <3>2. Join(h[i - 1], p[i]) \in Seq(Byte)
      BY <3>1, JoinIs
    <3> QED
      BY <1>11, <3>2
  <2> HIDE DEF G
  <2>3. \A i \in 0..w : i \in G
    BY <2>1, <2>2, SegmentInduction
  <2> QED
    BY <2>3 DEF G
<1>13. h \in [0..w -> Seq(Byte)]
  BY <1>10, <1>12
<1>14. Buffers(h, p, w)
  BY <1>10, <1>11, <1>13 DEF Buffers
<1> QED
  BY <1>0, <1>1, <1>6, <1>14

-----------------------------------------------------------------------------
(* Reading: the bytes that are taken, and what each form makes of them.    *)

\* t is the n bytes of b from at on.
Segment(t, b, at, n) ==
    /\ t \in Seq(Byte) /\ Len(t) = n /\ at + n <= Len(b)
    /\ \A j \in 1..n : t[j] = b[at + j]

LEMMA TakenIs ==
    ASSUME body \in Seq(Byte), NEW n \in Nat, NEW at \in Nat, ~PastEnd(n, at)
    PROVE  Segment(Taken(n, at), body, at, n)
<1>1. PICK m \in Nat : m = Len(body)
  OBVIOUS
<1>2. at + n <= m
  BY <1>1 DEF PastEnd
<1>3. PICK z : z = [i \in 1..Bytes64 |-> 0]
  OBVIOUS
<1>4. z \in Seq(Byte)
  <2>1. 0 \in Byte /\ Bytes64 \in Nat
    BY BaseIs, ByteIs, WidthsAre
  <2> QED
    BY <1>3, <2>1
<1>5. PICK u : u = Join(body, z)
  OBVIOUS
<1>6. /\ u \in Seq(Byte) /\ m <= Len(u) /\ \A j \in 1..m : u[j] = body[j]
  <2>1. /\ u \in Seq(Byte) /\ Len(u) = Len(body) + Len(z)
        /\ \A j \in 1..Len(body) : u[j] = body[j]
    BY <1>4, <1>5, JoinIs
  <2>2. Len(z) \in Nat
    BY <1>4
  <2> QED
    BY <1>1, <2>1, <2>2
<1>7. PICK t : t = SubSeq(u, at + 1, at + n)
  OBVIOUS
<1>8. Taken(n, at) = t
  BY <1>3, <1>5, <1>7 DEF Taken, Join
<1>9. \A i \in (at + 1)..(at + n) : u[i] \in Byte
  BY <1>2, <1>6
<1>10. /\ t \in Seq(Byte) /\ Len(t) = n /\ \A j \in 1..n : t[j] = u[at + j]
  <2>1. t = [i \in 1..n |-> u[at + i]]
    BY <1>2, <1>6, <1>7
  <2>2. \A i \in 1..n : u[at + i] \in Byte
    BY <1>9
  <2> QED
    BY <2>1, <2>2
<1>11. \A j \in 1..n : t[j] = body[at + j]
  BY <1>2, <1>6, <1>10
<1> QED
  BY <1>1, <1>2, <1>8, <1>10, <1>11 DEF Segment

LEMMA NotPastEnd ==
    ASSUME body \in Seq(Byte), NEW n \in Nat, NEW at \in Nat, NEW more \in Nat,
           (at + n) + more <= Len(body)
    PROVE  ~PastEnd(n, at)
<1>1. PICK m \in Nat : m = Len(body)
  OBVIOUS
<1> QED
  BY <1>1 DEF PastEnd

\* What is written for a field is, at pos_, what is in the payload.
Lies(w, b, p) == p + Len(w) <= Len(b) /\ \A j \in 1..Len(w) : w[j] = b[p + j]

\* The same but for a flag, for which every byte but 0 is true.
LiesAs(w, b, p, f) ==
    /\ p + Len(w) <= Len(b)
    /\ \A j \in 1..Len(w) :
         w[j] # b[p + j] => Form(f) = "bool" /\ w[j] = 1 /\ b[p + j] # 0

LEMMA LiesLies ==
    ASSUME NEW w, NEW b, NEW p, NEW f, Lies(w, b, p)
    PROVE  LiesAs(w, b, p, f)
BY DEF Lies, LiesAs

LEMMA SegmentLies ==
    ASSUME NEW t, NEW b, NEW p, NEW n \in Nat, Segment(t, b, p, n)
    PROVE  Lies(t, b, p)
BY DEF Segment, Lies

\* What lies in the payload is what is taken from there.
LEMMA LiesTaken ==
    ASSUME NEW w \in Seq(Byte), NEW t, NEW b, NEW p, NEW n \in Nat,
           Segment(t, b, p, n), Lies(w, b, p), Len(w) = n
    PROVE  t = w
<1>1. t \in Seq(Byte) /\ Len(t) = n /\ \A j \in 1..n : t[j] = b[p + j]
  BY DEF Segment
<1>2. \A j \in 1..n : w[j] = b[p + j]
  BY DEF Lies
<1>3. \A j \in 1..Len(t) : t[j] = w[j]
  BY <1>1, <1>2
<1> QED
  BY <1>1, <1>3, SeqEqual

\* The bytes of a field of fixed size.
SizeOf(f) ==
    CASE Form(f) \in {"u8", "bool"} -> 1
      [] Form(f) = "u64" -> Bytes64
      [] OTHER -> BytesId

FixedForms == {"u8", "bool", "u64", "id"}

LEMMA FixedForm == ASSUME NEW f, Form(f) \notin {"string", "blob"} PROVE Form(f) \in FixedForms
BY FormIs DEF Forms, FixedForms

LEMMA SizeIs == ASSUME NEW f PROVE SizeOf(f) \in Nat /\ SizeOf(f) > 0
BY WidthsAre DEF SizeOf

\* The sizes the reader asks for are the ones the writer uses.
LEMMA FixedSize ==
    ASSUME NEW f, Form(f) \in FixedForms, NEW v, Holds(f, v)
    PROVE  Len(WriteField(f, v)) = SizeOf(f)
<1>1. CASE Form(f) = "u8"
  <2>1. WriteField(f, v) = <<v>> /\ SizeOf(f) = 1
    BY <1>1, HoldsU8 DEF SizeOf
  <2> QED
    BY <2>1
<1>2. CASE Form(f) = "bool"
  <2>1. WriteField(f, v) = (IF v THEN <<1>> ELSE <<0>>) /\ SizeOf(f) = 1
    BY <1>2, HoldsBool DEF SizeOf
  <2>2. WriteField(f, v) = <<1>> \/ WriteField(f, v) = <<0>>
    BY <2>1
  <2> QED
    BY <2>1, <2>2
<1>3. CASE Form(f) = "u64"
  <2>1. WriteField(f, v) = LittleEndian(v, Bytes64) /\ SizeOf(f) = Bytes64 /\ v \in Nat
    BY <1>3, HoldsU64 DEF SizeOf, FitsIn
  <2> QED
    BY <2>1, LittleEndianIs, WidthsAre
<1>4. CASE Form(f) = "id"
  BY <1>4, HoldsId DEF SizeOf
<1> QED
  BY <1>1, <1>2, <1>3, <1>4 DEF FixedForms

\* What is made of the bytes of a fixed field holds in it, and is written as
\* the bytes it was read from.
LEMMA FixedReads ==
    ASSUME NEW f, Form(f) \in FixedForms, NEW t, NEW b \in Seq(Byte), NEW p \in Nat,
           Segment(t, b, p, SizeOf(f))
    PROVE  /\ Holds(f, FixedValue(f, t))
           /\ LiesAs(WriteField(f, FixedValue(f, t)), b, p, f)
<1>0. /\ t \in Seq(Byte) /\ Len(t) = SizeOf(f) /\ p + SizeOf(f) <= Len(b)
      /\ \A j \in 1..SizeOf(f) : t[j] = b[p + j]
  BY DEF Segment
<1>1. Lies(t, b, p)
  BY SizeIs, SegmentLies
<1>2. LiesAs(t, b, p, f)
  BY <1>1, LiesLies
<1>3. CASE Form(f) = "u8"
  <2>0. SizeOf(f) = 1 /\ FixedValue(f, t) = t[1]
    BY <1>3 DEF SizeOf, FixedValue
  <2>1. t[1] \in Byte
    BY <1>0, <2>0
  <2>2. t = <<t[1]>>
    BY <1>0, <2>0
  <2>3. Holds(f, t[1]) /\ WriteField(f, t[1]) = <<t[1]>>
    BY <1>3, <2>1, HoldsU8
  <2> QED
    BY <1>2, <2>0, <2>2, <2>3
<1>4. CASE Form(f) = "bool"
  <2>0. SizeOf(f) = 1
    BY <1>4 DEF SizeOf
  <2>5. FixedValue(f, t) = (t[1] # 0)
    BY <1>4 DEF FixedValue
  <2>1. t[1] = b[p + 1] /\ p + 1 <= Len(b)
    BY <1>0, <2>0
  <2>2. Holds(f, FixedValue(f, t))
    BY <1>4, <2>5, HoldsBool
  <2>3. CASE t[1] = 0
    <3>1. WriteField(f, FixedValue(f, t)) = <<0>>
      BY <1>4, <2>5, <2>3, HoldsBool
    <3>4. PICK o : o = <<0>>
      OBVIOUS
    <3>2. Len(o) = 1 /\ o[1] = 0
      BY <3>4
    <3>3. LiesAs(o, b, p, f)
      <4>1. o[1] = b[p + 1] /\ p + 1 <= Len(b)
        BY <2>1, <2>3, <3>2
      <4>2. ASSUME NEW j \in 1..Len(o) PROVE o[j] = b[p + j]
        <5>1. j = 1
          BY <3>2
        <5> QED
          BY <4>1, <5>1
      <4> QED
        BY <3>2, <4>1, <4>2 DEF LiesAs
    <3> QED
      BY <2>2, <3>1, <3>3, <3>4
  <2>4. CASE t[1] # 0
    <3>1. WriteField(f, FixedValue(f, t)) = <<1>>
      BY <1>4, <2>5, <2>4, HoldsBool
    <3>4. PICK o : o = <<1>>
      OBVIOUS
    <3>2. Len(o) = 1 /\ o[1] = 1
      BY <3>4
    <3>3. LiesAs(o, b, p, f)
      BY <1>4, <2>1, <2>4, <3>2 DEF LiesAs
    <3> QED
      BY <2>2, <3>1, <3>3, <3>4
  <2> QED
    BY <2>3, <2>4
<1>5. CASE Form(f) = "u64"
  <2>1. Len(t) = Bytes64 /\ FixedValue(f, t) = Number(t)
    BY <1>0, <1>5 DEF SizeOf, FixedValue
  <2>2. FitsIn(Number(t), Bytes64) /\ LittleEndian(Number(t), Bytes64) = t
    BY <1>0, <2>1, LittleEndianOfNumber
  <2> QED
    BY <1>2, <1>5, <2>1, <2>2, HoldsU64
<1>6. CASE Form(f) = "id"
  <2>1. Len(t) = BytesId /\ FixedValue(f, t) = t
    BY <1>0, <1>6 DEF SizeOf, FixedValue
  <2> QED
    BY <1>0, <1>2, <1>6, <2>1, HoldsId
<1> QED
  BY <1>3, <1>4, <1>5, <1>6 DEF FixedForms

\* A fixed field that was written is read as it was.
LEMMA FixedReadsBack ==
    ASSUME NEW f, Form(f) \in FixedForms, NEW v, Holds(f, v), NEW t, NEW b, NEW p,
           Segment(t, b, p, SizeOf(f)), Lies(WriteField(f, v), b, p)
    PROVE  FixedValue(f, t) = v
<1>1. WriteField(f, v) \in Seq(Byte) /\ Len(WriteField(f, v)) = SizeOf(f)
  BY FixedSize, WritesBytes
<1>2. t = WriteField(f, v)
  BY <1>1, SizeIs, LiesTaken
<1>3. CASE Form(f) = "u8"
  <2>1. t = <<v>> /\ FixedValue(f, t) = t[1]
    BY <1>2, <1>3, HoldsU8 DEF FixedValue
  <2> QED
    BY <2>1
<1>4. CASE Form(f) = "bool"
  <2>1. v \in BOOLEAN /\ t = (IF v THEN <<1>> ELSE <<0>>)
    BY <1>2, <1>4, HoldsBool
  <2>2. FixedValue(f, t) = (t[1] # 0)
    BY <1>4 DEF FixedValue
  <2>3. CASE v = TRUE
    <3>1. t[1] = 1
      BY <2>1, <2>3
    <3>2. (t[1] # 0) = TRUE
      BY <3>1
    <3> QED
      BY <2>2, <2>3, <3>2
  <2>4. CASE v = FALSE
    <3>1. t[1] = 0
      BY <2>1, <2>4
    <3>2. (t[1] # 0) = FALSE
      BY <3>1
    <3> QED
      BY <2>2, <2>4, <3>2
  <2> QED
    BY <2>1, <2>3, <2>4
<1>5. CASE Form(f) = "u64"
  <2>1. t = LittleEndian(v, Bytes64) /\ FitsIn(v, Bytes64) /\ FixedValue(f, t) = Number(t)
    BY <1>2, <1>5, HoldsU64 DEF FixedValue
  <2> QED
    BY <2>1, NumberOfLittleEndian, WidthsAre
<1>6. CASE Form(f) = "id"
  BY <1>2, <1>6, HoldsId DEF FixedValue
<1> QED
  BY <1>3, <1>4, <1>5, <1>6 DEF FixedForms

LEMMA LiesJoin ==
    ASSUME NEW s \in Seq(Byte), NEW t \in Seq(Byte), NEW b \in Seq(Byte), NEW p \in Nat
    PROVE  Lies(Join(s, t), b, p) <=> Lies(s, b, p) /\ Lies(t, b, p + Len(s))
<1>1. PICK n \in Nat, m \in Nat, l \in Nat : n = Len(s) /\ m = Len(t) /\ l = Len(b)
  OBVIOUS
<1>2. PICK u : u = Join(s, t)
  OBVIOUS
<1>3. /\ Len(u) = n + m
      /\ \A j \in 1..n : u[j] = s[j]
      /\ \A j \in 1..m : u[n + j] = t[j]
  BY <1>1, <1>2, JoinIs
<1>4. ASSUME Lies(u, b, p)
      PROVE  Lies(s, b, p) /\ Lies(t, b, p + n)
  <2>1. p + (n + m) <= l /\ \A j \in 1..(n + m) : u[j] = b[p + j]
    BY <1>1, <1>3, <1>4 DEF Lies
  <2>2. ASSUME NEW j \in 1..n PROVE s[j] = b[p + j]
    <3>1. j \in 1..(n + m)
      OBVIOUS
    <3> QED
      BY <1>3, <2>1, <3>1
  <2>3. ASSUME NEW j \in 1..m PROVE t[j] = b[(p + n) + j]
    <3>1. n + j \in 1..(n + m) /\ p + (n + j) = (p + n) + j
      OBVIOUS
    <3>2. u[n + j] = b[(p + n) + j]
      BY <2>1, <3>1
    <3> QED
      BY <1>3, <3>2
  <2>4. p + n <= l /\ (p + n) + m <= l
    BY <2>1
  <2> QED
    BY <1>1, <2>2, <2>3, <2>4 DEF Lies
<1>5. ASSUME Lies(s, b, p), Lies(t, b, p + n)
      PROVE  Lies(u, b, p)
  <2>1. /\ (p + n) + m <= l
        /\ \A j \in 1..n : s[j] = b[p + j]
        /\ \A j \in 1..m : t[j] = b[(p + n) + j]
    BY <1>1, <1>5 DEF Lies
  <2>2. ASSUME NEW j \in 1..(n + m) PROVE u[j] = b[p + j]
    <3>1. CASE j <= n
      BY <1>3, <2>1, <3>1
    <3>2. CASE j > n
      <4>1. PICK i \in 1..m : j = n + i
        <5>1. j - n \in 1..m /\ j = n + (j - n)
          BY <3>2
        <5> QED
          BY <5>1
      <4>2. p + j = (p + n) + i
        BY <4>1
      <4>3. u[j] = t[i] /\ t[i] = b[(p + n) + i]
        BY <1>3, <2>1, <4>1
      <4> QED
        BY <4>2, <4>3
    <3> QED
      BY <3>1, <3>2
  <2>3. p + (n + m) <= l
    BY <2>1
  <2> QED
    BY <1>1, <1>3, <2>2, <2>3 DEF Lies
<1> QED
  BY <1>1, <1>2, <1>4, <1>5

\* A length and as many bytes are a text, and are written as they were read.
LEMMA TextReads ==
    ASSUME NEW f, Form(f) \in {"string", "blob"}, NEW b \in Seq(Byte), NEW p \in Nat,
           NEW q \in Nat, q = p + Bytes32, NEW t, NEW x, Segment(t, b, p, Bytes32),
           Segment(x, b, q, Number(t))
    PROVE  /\ Holds(f, x) /\ Lies(WriteField(f, x), b, p)
           /\ Len(WriteField(f, x)) = Bytes32 + Number(t)
<1>1. t \in Seq(Byte) /\ Len(t) = Bytes32 /\ Bytes32 \in Nat
  BY WidthsAre DEF Segment
<1>2. FitsIn(Number(t), Bytes32) /\ LittleEndian(Number(t), Bytes32) = t
  BY <1>1, LittleEndianOfNumber
<1>3. Number(t) \in Nat
  BY <1>2 DEF FitsIn
<1>4. x \in Seq(Byte) /\ Len(x) = Number(t)
  BY DEF Segment
<1>5. Holds(f, x)
  BY <1>2, <1>4, HoldsText
<1>6. Counted(x) = Join(t, x)
  BY <1>2, <1>4 DEF Counted, Join
<1>7. WriteField(f, x) = Join(t, x)
  BY <1>6, TextWritten
<1>8. Lies(t, b, p) /\ Lies(x, b, p + Len(t))
  <2>1. Lies(t, b, p) /\ Lies(x, b, q)
    BY <1>1, <1>3, SegmentLies
  <2> QED
    BY <1>1, <2>1
<1>9. Lies(Join(t, x), b, p)
  BY <1>1, <1>4, <1>8, LiesJoin
<1>10. Len(Join(t, x)) = Bytes32 + Number(t)
  <2>1. Len(Join(t, x)) = Len(t) + Len(x)
    BY <1>1, <1>4, JoinIs
  <2> QED
    BY <1>1, <1>4, <2>1
<1> QED
  BY <1>5, <1>7, <1>9, <1>10

\* The text v is at p in b, its bytes at q.
TextAt(v, b, p, q) ==
    /\ v \in Seq(Byte) /\ Len(v) \in Nat /\ q + Len(v) <= Len(b)
    /\ \A t : Segment(t, b, p, Bytes32) => Number(t) = Len(v)
    /\ \A x : Segment(x, b, q, Len(v)) => x = v

\* A text that was written is where its length says.
LEMMA TextReadsBack ==
    ASSUME NEW f, Form(f) \in {"string", "blob"}, NEW v, Holds(f, v),
           NEW b \in Seq(Byte), NEW p \in Nat, Lies(WriteField(f, v), b, p),
           NEW q \in Nat, q = p + Bytes32
    PROVE  TextAt(v, b, p, q)
<1>1. v \in Seq(Byte) /\ FitsIn(Len(v), Bytes32) /\ Len(v) \in Nat
  BY TextHeld DEF FitsIn
<1>2. PICK h : h = LittleEndian(Len(v), Bytes32)
  OBVIOUS
<1>3. h \in Seq(Byte) /\ Len(h) = Bytes32 /\ Bytes32 \in Nat
  BY <1>1, <1>2, LittleEndianIs, WidthsAre
<1>4. Counted(v) = Join(h, v)
  BY <1>2 DEF Counted, Join
<1>5. Lies(Join(h, v), b, p)
  BY <1>4, TextWritten
<1>6. Lies(h, b, p) /\ Lies(v, b, q)
  <2>1. Lies(h, b, p) /\ Lies(v, b, p + Len(h))
    BY <1>1, <1>3, <1>5, LiesJoin
  <2> QED
    BY <1>3, <2>1
<1>7. q + Len(v) <= Len(b)
  BY <1>6 DEF Lies
<1>8. ASSUME NEW t, Segment(t, b, p, Bytes32)
      PROVE  Number(t) = Len(v)
  <2>1. t = h
    BY <1>3, <1>6, <1>8, LiesTaken
  <2> QED
    BY <1>1, <1>2, <1>3, <2>1, NumberOfLittleEndian
<1>9. ASSUME NEW x, Segment(x, b, q, Len(v))
      PROVE  x = v
  BY <1>1, <1>6, <1>9, LiesTaken
<1> QED
  BY <1>1, <1>7, <1>8, <1>9 DEF TextAt

-----------------------------------------------------------------------------
(* The fields read so far.                                                 *)

Holding == Nat \cup BOOLEAN \cup Seq(Byte)
Entry == FieldNames \X Holding

LEMMA HoldsHolding == ASSUME NEW f, NEW v, Holds(f, v) PROVE v \in Holding
<1>1. CASE Form(f) = "u8"
  <2>1. v \in Nat
    BY <1>1, HoldsU8, ByteIs
  <2> QED
    BY <2>1, Zenon DEF Holding
<1>2. CASE Form(f) = "bool"
  <2>1. v \in BOOLEAN
    BY <1>2, HoldsBool
  <2> QED
    BY <2>1, Zenon DEF Holding
<1>3. CASE Form(f) = "u64"
  <2>1. v \in Nat
    BY <1>3, HoldsU64 DEF FitsIn
  <2> QED
    BY <2>1, Zenon DEF Holding
<1>4. CASE Form(f) = "id"
  <2>1. v \in Seq(Byte)
    BY <1>4, HoldsId
  <2> QED
    BY <2>1, Zenon DEF Holding
<1>5. CASE Form(f) \in {"string", "blob"}
  <2>1. v \in Seq(Byte)
    BY <1>5, TextHeld
  <2> QED
    BY <2>1, Zenon DEF Holding
<1> QED
  BY <1>1, <1>2, <1>3, <1>4, <1>5, FormIs DEF Forms

\* fs holds the first fields of k, each with a value of its form.
Log(fs, k) ==
    /\ fs \in Seq(Entry) /\ Len(fs) <= Len(ReadOrder(k))
    /\ \A i \in 1..Len(fs) : fs[i][1] = ReadOrder(k)[i] /\ Holds(fs[i][1], fs[i][2])

\* The field that is read next, with its value.
NextField(fs, k, f, x) ==
    /\ Len(fs) < Len(ReadOrder(k)) /\ f = ReadOrder(k)[Len(fs) + 1]
    /\ Holds(f, x)

LEMMA LogGrows ==
    ASSUME NEW fs, NEW k, NEW f, NEW x, Log(fs, k), NextField(fs, k, f, x)
    PROVE  /\ Log(Append(fs, <<f, x>>), k)
           /\ Len(Append(fs, <<f, x>>)) = Len(fs) + 1
           /\ Append(fs, <<f, x>>)[Len(fs) + 1] = <<f, x>>
           /\ \A i \in 1..Len(fs) : Append(fs, <<f, x>>)[i] = fs[i]
<1>1. fs \in Seq(Entry)
  BY DEF Log
<1>2. PICK n \in Nat, m \in Nat : n = Len(fs) /\ m = Len(ReadOrder(k))
  BY <1>1, OrderLength
<1>3. n < m /\ f = ReadOrder(k)[n + 1] /\ Holds(f, x)
  BY <1>2 DEF NextField
<1>4. f \in FieldNames
  BY <1>2, <1>3, OrderIs
<1>5. x \in Holding
  BY <1>3, HoldsHolding
<1>6. PICK e : e = <<f, x>>
  OBVIOUS
<1>7. e \in Entry /\ e[1] = f /\ e[2] = x
  BY <1>4, <1>5, <1>6 DEF Entry
<1>8. PICK gs : gs = Append(fs, e)
  OBVIOUS
<1>9. /\ gs \in Seq(Entry) /\ Len(gs) = n + 1 /\ gs[n + 1] = e
      /\ \A i \in 1..n : gs[i] = fs[i]
  BY <1>1, <1>2, <1>7, <1>8, AppendProperties
<1>10. \A i \in 1..n : fs[i][1] = ReadOrder(k)[i] /\ Holds(fs[i][1], fs[i][2])
  BY <1>2 DEF Log
<1>11. ASSUME NEW i \in 1..(n + 1)
       PROVE  gs[i][1] = ReadOrder(k)[i] /\ Holds(gs[i][1], gs[i][2])
  <2>1. CASE i = n + 1
    BY <1>3, <1>7, <1>9, <2>1
  <2>2. CASE i # n + 1
    BY <1>9, <1>10, <2>2
  <2> QED
    BY <2>1, <2>2
<1>12. n + 1 <= m
  BY <1>3
<1>13. Log(gs, k)
  BY <1>2, <1>9, <1>11, <1>12 DEF Log
<1> QED
  BY <1>2, <1>6, <1>8, <1>9, <1>13

\* What the fields read so far are written as.
Logged(fs) == [i \in 1..Len(fs) |-> WriteField(fs[i][1], fs[i][2])]

\* The bytes w are the first ones of b, but for the flag of a message.
Agrees(w, b, k) ==
    \A j \in 1..Len(w) : w[j] # b[j] => k = "message" /\ w[j] = 1 /\ b[j] # 0

Canonical(fs, b, p, k) ==
    \E g : /\ Buffers(g, Logged(fs), Len(fs))
           /\ Len(g[Len(fs)]) = p /\ Agrees(g[Len(fs)], b, k)

LEMMA EmptyCanonical ==
    ASSUME NEW b, NEW k
    PROVE  Log(<<>>, k) /\ Canonical(<<>>, b, 0, k)
<1>1. PICK fs : fs = <<>>
  OBVIOUS
<1>2. fs \in Seq(Entry) /\ Len(fs) = 0
  BY <1>1
<1>3. Log(fs, k)
  BY <1>2, OrderLength DEF Log
<1>4. PICK g : g = [i \in 0..0 |-> <<>>]
  OBVIOUS
<1>5. g \in [0..0 -> Seq(Byte)] /\ g[0] = <<>> /\ Len(g[0]) = 0
  BY <1>4
<1>6. Buffers(g, Logged(fs), 0)
  BY <1>5 DEF Buffers
<1>7. Agrees(g[0], b, k)
  BY <1>5 DEF Agrees
<1>8. Canonical(fs, b, 0, k)
  BY <1>2, <1>5, <1>6, <1>7 DEF Canonical
<1> QED
  BY <1>1, <1>3, <1>8

\* A field that is written as the bytes it was read from keeps them canonical.
LEMMA CanonicalGrows ==
    ASSUME NEW k \in Kinds, NEW fs, NEW b \in Seq(Byte), NEW p \in Nat, NEW f, NEW x,
           Log(fs, k), NextField(fs, k, f, x), Canonical(fs, b, p, k),
           LiesAs(WriteField(f, x), b, p, f)
    PROVE  Canonical(Append(fs, <<f, x>>), b, p + Len(WriteField(f, x)), k)
<1>0. PICK n \in Nat : n = Len(fs)
  BY DEF Log
<1>1. PICK gs : gs = Append(fs, <<f, x>>)
  OBVIOUS
<1>2. /\ Len(gs) = n + 1 /\ gs[n + 1] = <<f, x>> /\ \A i \in 1..n : gs[i] = fs[i]
  BY <1>0, <1>1, LogGrows
<1>3. PICK w : w = WriteField(f, x)
  OBVIOUS
<1>4. w \in Seq(Byte)
  BY <1>3, WritesBytes DEF NextField
<1>5. PICK m \in Nat : m = Len(w)
  BY <1>4
<1>6. PICK g : Buffers(g, Logged(fs), n) /\ Len(g[n]) = p /\ Agrees(g[n], b, k)
  BY <1>0 DEF Canonical
<1>7. g \in [0..n -> Seq(Byte)] /\ g[0] = <<>>
      /\ \A i \in 1..n : g[i] = Join(g[i - 1], Logged(fs)[i])
  BY <1>6 DEF Buffers
<1>8. (\A i \in 1..n : Logged(gs)[i] = Logged(fs)[i]) /\ Logged(gs)[n + 1] = w
  <2>1. ASSUME NEW i \in 1..n PROVE Logged(gs)[i] = Logged(fs)[i]
    <3>1. i \in 1..Len(gs) /\ i \in 1..Len(fs) /\ gs[i] = fs[i]
      BY <1>0, <1>2
    <3> QED
      BY <3>1 DEF Logged
  <2>2. n + 1 \in 1..Len(gs)
    BY <1>2
  <2>3. gs[n + 1][1] = f /\ gs[n + 1][2] = x
    BY <1>2
  <2>4. Logged(gs)[n + 1] = WriteField(gs[n + 1][1], gs[n + 1][2])
    BY <2>2 DEF Logged
  <2> QED
    BY <1>3, <2>1, <2>3, <2>4
<1>9. PICK u : u = Join(g[n], w)
  OBVIOUS
<1>10. g[n] \in Seq(Byte)
  BY <1>7
<1>11. /\ u \in Seq(Byte) /\ Len(u) = p + m
       /\ \A j \in 1..p : u[j] = g[n][j]
       /\ \A j \in 1..m : u[p + j] = w[j]
  BY <1>4, <1>5, <1>6, <1>9, <1>10, JoinIs
<1>12. PICK h : h = [i \in 0..(n + 1) |-> IF i = n + 1 THEN u ELSE g[i]]
  OBVIOUS
<1>13. /\ h \in [0..(n + 1) -> Seq(Byte)] /\ h[n + 1] = u
       /\ \A i \in 0..n : h[i] = g[i]
  BY <1>7, <1>11, <1>12
<1>14. ASSUME NEW i \in 1..(n + 1)
       PROVE  h[i] = Join(h[i - 1], Logged(gs)[i])
  <2>1. CASE i = n + 1
    <3>1. i - 1 = n /\ n \in 0..n
      BY <2>1
    <3> QED
      BY <1>8, <1>9, <1>13, <2>1, <3>1
  <2>2. CASE i # n + 1
    <3>1. i \in 1..n /\ i \in 0..n /\ i - 1 \in 0..n
      BY <2>2
    <3>2. h[i] = g[i] /\ h[i - 1] = g[i - 1] /\ Logged(gs)[i] = Logged(fs)[i]
      BY <1>8, <1>13, <3>1
    <3>3. g[i] = Join(g[i - 1], Logged(fs)[i])
      BY <1>7, <3>1
    <3> QED
      BY <3>2, <3>3
  <2> QED
    BY <2>1, <2>2
<1>15. h[0] = <<>>
  BY <1>7, <1>13
<1>16. Buffers(h, Logged(gs), n + 1)
  BY <1>13, <1>14, <1>15 DEF Buffers
<1>17. Agrees(u, b, k)
  <2>1. \A j \in 1..p : g[n][j] # b[j] => k = "message" /\ g[n][j] = 1 /\ b[j] # 0
    BY <1>6 DEF Agrees
  <2>2. \A j \in 1..m : w[j] # b[p + j] => Form(f) = "bool" /\ w[j] = 1 /\ b[p + j] # 0
    BY <1>3, <1>5 DEF LiesAs
  <2>3. Form(f) = "bool" => k = "message"
    <3>1. n + 1 \in 1..Len(ReadOrder(k)) /\ f = ReadOrder(k)[n + 1]
      BY <1>0, OrderLength DEF NextField
    <3> QED
      BY <3>1, FlagOfMessage
  <2>4. ASSUME NEW j \in 1..(p + m), u[j] # b[j]
        PROVE  k = "message" /\ u[j] = 1 /\ b[j] # 0
    <3>1. CASE j <= p
      <4>1. j \in 1..p
        BY <3>1
      <4> QED
        BY <1>11, <2>1, <2>4, <4>1
    <3>2. CASE j > p
      <4>1. PICK i \in 1..m : j = p + i
        <5>1. j - p \in 1..m /\ j = p + (j - p)
          BY <3>2
        <5> QED
          BY <5>1
      <4>2. u[j] = w[i]
        BY <1>11, <4>1
      <4> QED
        BY <2>2, <2>3, <2>4, <4>1, <4>2
    <3> QED
      BY <3>1, <3>2
  <2> QED
    BY <1>11, <2>4 DEF Agrees
<1>18. Canonical(gs, b, p + m, k)
  BY <1>2, <1>11, <1>13, <1>16, <1>17 DEF Canonical
<1> QED
  BY <1>1, <1>3, <1>5, <1>18

\* The bytes b are those of v, and the fields read so far are the ones of v.
Faithful(fs, b, p, k, v) ==
    /\ Writable(k, v) /\ b = Written(k, v)[Len(ReadOrder(k))]
    /\ p = Len(Written(k, v)[Len(fs)])
    /\ \A i \in 1..Len(fs) : fs[i][2] = v[ReadOrder(k)[i]]

\* What Encode returns.
LEMMA EncodeIs == ASSUME NEW k, NEW v PROVE Encode(k, v) = Written(k, v)[Len(ReadOrder(k))]
BY SameOrder DEF Encode

LEMMA EncodeBytes ==
    ASSUME NEW k, NEW v, Writable(k, v)
    PROVE  Encode(k, v) \in Seq(Byte)
<1>1. Buffers(Written(k, v), PartsOf(k, v), Len(ReadOrder(k)))
  BY WrittenIs
<1>2. PICK w \in Nat : w = Len(ReadOrder(k))
  BY OrderLength
<1>3. Written(k, v)[w] \in Seq(Byte)
  BY <1>1, <1>2 DEF Buffers
<1> QED
  BY <1>2, <1>3, EncodeIs

LEMMA EmptyFaithful ==
    ASSUME NEW k, NEW v, Writable(k, v)
    PROVE  Faithful(<<>>, Encode(k, v), 0, k, v)
<1>1. Written(k, v)[0] = <<>>
  BY WrittenIs DEF Buffers
<1>2. PICK fs : fs = <<>>
  OBVIOUS
<1>3. Len(fs) = 0
  BY <1>2
<1>4. Len(Written(k, v)[Len(fs)]) = 0
  BY <1>1, <1>3
<1>5. Faithful(fs, Encode(k, v), 0, k, v)
  BY <1>3, <1>4, EncodeIs DEF Faithful
<1> QED
  BY <1>2, <1>5

\* The next field of v lies at pos_, and after it comes the one behind it.
LEMMA FaithfulNext ==
    ASSUME NEW k, NEW fs, NEW b, NEW p, NEW v, NEW f,
           Log(fs, k), Faithful(fs, b, p, k, v),
           Len(fs) < Len(ReadOrder(k)), f = ReadOrder(k)[Len(fs) + 1]
    PROVE  /\ Holds(f, v[f]) /\ Lies(WriteField(f, v[f]), b, p)
           /\ Len(Written(k, v)[Len(fs) + 1]) = p + Len(WriteField(f, v[f]))
<1>1. PICK n \in Nat, N \in Nat : n = Len(fs) /\ N = Len(ReadOrder(k))
  BY OrderLength DEF Log
<1>2. PICK g : g = Written(k, v)
  OBVIOUS
<1>3. Writable(k, v) /\ b = g[N] /\ p = Len(g[n])
  BY <1>1, <1>2 DEF Faithful
<1>4. Buffers(g, PartsOf(k, v), N)
  BY <1>1, <1>2, <1>3, WrittenIs
<1>5. n + 1 \in 1..N /\ n \in 0..N /\ n + 1 \in 0..N /\ (n + 1) - 1 = n
  BY <1>1
<1>6. \A i \in 1..N : PartsOf(k, v)[i] \in Seq(Byte)
  BY <1>1, <1>3, PartsAreBytes
<1>7. Holds(f, v[f]) /\ PartsOf(k, v)[n + 1] = WriteField(f, v[f])
  <2>1. PartsOf(k, v)[n + 1] = WriteField(ReadOrder(k)[n + 1], v[ReadOrder(k)[n + 1]])
    BY <1>1, <1>3, <1>5, PartsAreBytes
  <2>2. Holds(ReadOrder(k)[n + 1], v[ReadOrder(k)[n + 1]])
    BY <1>1, <1>3, <1>5 DEF Writable
  <2> QED
    BY <1>1, <2>1, <2>2
<1>8. PICK w : w = WriteField(f, v[f])
  OBVIOUS
<1>9. w \in Seq(Byte) /\ g[n] \in Seq(Byte) /\ g[n + 1] = Join(g[n], w)
  <2>1. g \in [0..N -> Seq(Byte)] /\ \A i \in 1..N : g[i] = Join(g[i - 1], PartsOf(k, v)[i])
    BY <1>4 DEF Buffers
  <2> QED
    BY <1>5, <1>6, <1>7, <1>8, <2>1
<1>10. PICK m \in Nat, l \in Nat : m = Len(w) /\ l = Len(g[n]) /\ l = p
  BY <1>3, <1>9
<1>11. /\ Len(g[n + 1]) = l + m /\ \A j \in 1..m : g[n + 1][l + j] = w[j]
  <2>1. /\ Len(Join(g[n], w)) = Len(g[n]) + Len(w)
        /\ \A j \in 1..Len(w) : Join(g[n], w)[Len(g[n]) + j] = w[j]
    BY <1>9, JoinIs
  <2> QED
    BY <1>9, <1>10, <2>1
<1>12. Starts(g[n + 1], b)
  BY <1>3, <1>4, <1>5, <1>6, BuffersGrow
<1>13. l + m <= Len(b) /\ \A j \in 1..(l + m) : g[n + 1][j] = b[j]
  BY <1>11, <1>12 DEF Starts
<1>14. ASSUME NEW j \in 1..m PROVE w[j] = b[l + j]
  <2>1. l + j \in 1..(l + m)
    OBVIOUS
  <2> QED
    BY <1>11, <1>13, <2>1
<1>15. Lies(w, b, p)
  BY <1>10, <1>13, <1>14 DEF Lies
<1> QED
  BY <1>1, <1>2, <1>7, <1>8, <1>10, <1>11, <1>15

LEMMA FaithfulGrows ==
    ASSUME NEW k, NEW fs, NEW b, NEW p, NEW v, NEW f,
           Log(fs, k), Faithful(fs, b, p, k, v),
           Len(fs) < Len(ReadOrder(k)), f = ReadOrder(k)[Len(fs) + 1]
    PROVE  Faithful(Append(fs, <<f, v[f]>>), b, p + Len(WriteField(f, v[f])), k, v)
<1>1. PICK n \in Nat : n = Len(fs)
  BY DEF Log
<1>2. /\ Holds(f, v[f]) /\ Len(Written(k, v)[n + 1]) = p + Len(WriteField(f, v[f]))
  BY <1>1, FaithfulNext
<1>3. NextField(fs, k, f, v[f])
  BY <1>2 DEF NextField
<1>4. PICK gs : gs = Append(fs, <<f, v[f]>>)
  OBVIOUS
<1>5. /\ Len(gs) = n + 1 /\ gs[n + 1] = <<f, v[f]>> /\ \A i \in 1..n : gs[i] = fs[i]
  BY <1>1, <1>3, <1>4, LogGrows
<1>6. Writable(k, v) /\ b = Written(k, v)[Len(ReadOrder(k))]
      /\ \A i \in 1..n : fs[i][2] = v[ReadOrder(k)[i]]
  BY <1>1 DEF Faithful
<1>7. ASSUME NEW i \in 1..(n + 1) PROVE gs[i][2] = v[ReadOrder(k)[i]]
  <2>1. CASE i = n + 1
    BY <1>1, <1>5, <2>1
  <2>2. CASE i # n + 1
    BY <1>5, <1>6, <2>2
  <2> QED
    BY <2>1, <2>2
<1>8. Faithful(gs, b, p + Len(WriteField(f, v[f])), k, v)
  BY <1>2, <1>5, <1>6, <1>7 DEF Faithful
<1> QED
  BY <1>4, <1>8

-----------------------------------------------------------------------------
(* The inductive invariant.  What was read is canonical at every point of  *)
(* the payload, not only at its end, and what an encoder of this program   *)
(* wrote is read field by field at the offsets at which it was written.    *)

CodecSound ==
    /\ kind \in Kinds /\ body \in Seq(Byte) /\ pos \in Nat /\ pos <= Len(body)
    /\ verdict = "idle" => pos = 0 /\ fields = <<>>
    /\ Log(fields, kind) /\ Canonical(fields, body, pos, kind)
    /\ verdict = "done" => Len(fields) = Len(ReadOrder(kind)) /\ pos = Len(body)
    /\ intact => verdict \in {"idle", "reading", "done"}
    /\ intact /\ verdict # "idle" => Faithful(fields, body, pos, kind, value)

LEMMA CodecInitSound == CodecInit => CodecSound
<1> SUFFICES ASSUME CodecInit
             PROVE  CodecSound
  OBVIOUS
<1>1. /\ kind = "message" /\ body = <<>> /\ pos = 0 /\ fields = <<>>
      /\ verdict = "idle"
  BY DEF CodecInit
<1>2. kind \in Kinds /\ body \in Seq(Byte) /\ pos \in Nat /\ pos <= Len(body)
  BY <1>1 DEF Kinds
<1>3. Log(fields, kind) /\ Canonical(fields, body, pos, kind)
  BY <1>1, EmptyCanonical
<1> QED
  BY <1>1, <1>2, <1>3 DEF CodecSound

\* The bytes that reach the reader are bytes.
LEMMA AlteredBytes ==
    ASSUME NEW b \in Seq(Byte), NEW c \in Altered(b)
    PROVE  c \in Seq(Byte)
<1>1. ASSUME NEW n \in 0..(Len(b) - 1), c = SubSeq(b, 1, n)
      PROVE  c \in Seq(Byte)
  <2>1. Len(b) \in Nat
    OBVIOUS
  <2>2. n \in Int /\ \A i \in 1..n : b[i] \in Byte
    BY <2>1
  <2> QED
    BY <1>1, <2>2, SubSeqProperties
<1>2. ASSUME NEW x \in Byte, c = Append(b, x)
      PROVE  c \in Seq(Byte)
  BY <1>2, AppendProperties
<1>3. ASSUME NEW i \in DOMAIN b, NEW x \in Byte, c = [b EXCEPT ![i] = x]
      PROVE  c \in Seq(Byte)
  <2>1. i \in 1..Len(b)
    OBVIOUS
  <2> QED
    BY <1>3, <2>1, ExceptSeq
<1> QED
  BY <1>1, <1>2, <1>3 DEF Altered

LEMMA ArriveSound ==
    ASSUME CodecSound, NEW k \in Kinds, NEW v \in Values[k], Arrive(k, v)
    PROVE  CodecSound'
<1>1. PICK e : e = Encode(k, v)
  OBVIOUS
<1>2. Writable(k, v)
  BY ValuesWritable
<1>3. e \in Seq(Byte)
  BY <1>1, <1>2, EncodeBytes
<1>4. pos = 0 /\ fields = <<>>
  BY DEF CodecSound, Arrive
<1>5. PICK b \in Seq(Byte), checked \in BOOLEAN :
        Open(k, v, e, b, checked) /\ (b = e => checked)
  <2>1. CASE Open(k, v, e, e, TRUE)
    BY <1>3, <2>1
  <2>2. CASE \E c \in Altered(e), checked \in BOOLEAN :
               c # e /\ Open(k, v, e, c, checked)
    <3>1. PICK c \in Altered(e), checked \in BOOLEAN : c # e /\ Open(k, v, e, c, checked)
      BY <2>2
    <3>2. c \in Seq(Byte)
      BY <1>3, <3>1, AlteredBytes
    <3> QED
      BY <3>1, <3>2
  <2>3. CASE \E c \in Foreign : Open(k, v, e, c, TRUE)
    <3>1. PICK c \in Foreign : Open(k, v, e, c, TRUE)
      BY <2>3
    <3>2. c \in Seq(Byte)
      BY <3>1, ForeignAssumption
    <3> QED
      BY <3>1, <3>2
  <2> QED
    BY <1>1, <2>1, <2>2, <2>3 DEF Arrive
<1>6. /\ kind' = k /\ value' = v /\ body' = b /\ intact' = (b = e)
      /\ verdict' = (IF checked THEN "reading" ELSE "checksum_mismatch")
      /\ pos' = pos /\ fields' = fields
  BY <1>5 DEF Open
<1>7. pos' = 0 /\ fields' = <<>> /\ verdict' \in {"reading", "checksum_mismatch"}
  BY <1>4, <1>6
<1>8. intact' => b = e /\ verdict' = "reading"
  BY <1>5, <1>6
<1>9. Log(fields', kind') /\ Canonical(fields', body', pos', kind')
  BY <1>6, <1>7, EmptyCanonical
<1>10. intact' => Faithful(fields', body', pos', kind', value')
  <2>1. Faithful(<<>>, e, 0, k, v)
    BY <1>1, <1>2, EmptyFaithful
  <2> QED
    BY <1>6, <1>7, <1>8, <2>1
<1>11. /\ kind' \in Kinds /\ body' \in Seq(Byte) /\ pos' \in Nat /\ pos' <= Len(body')
  <2>1. Len(b) \in Nat
    BY <1>5
  <2> QED
    BY <1>5, <1>6, <1>7, <2>1
<1> QED
  BY <1>7, <1>8, <1>9, <1>10, <1>11 DEF CodecSound

LEMMA ExpectEndSound ==
    ASSUME CodecSound, ExpectEnd
    PROVE  CodecSound'
<1>1. /\ kind' = kind /\ value' = value /\ intact' = intact /\ body' = body
      /\ pos' = pos /\ fields' = fields /\ verdict = "reading"
      /\ Len(fields) = Len(ReadOrder(kind))
      /\ verdict' = (IF pos = Len(body) THEN "done" ELSE "trailing_garbage")
  BY DEF ExpectEnd, AtEnd
<1>2. intact => pos = Len(body)
  BY <1>1 DEF CodecSound, Faithful
<1>3. verdict' \in {"done", "trailing_garbage"} /\ (verdict' = "done" => pos = Len(body))
      /\ (intact => verdict' = "done")
  BY <1>1, <1>2
<1>4. intact' => Faithful(fields', body', pos', kind', value')
  BY <1>1 DEF CodecSound
<1>5. Log(fields', kind') /\ Canonical(fields', body', pos', kind')
  BY <1>1 DEF CodecSound
<1>6. kind' \in Kinds /\ body' \in Seq(Byte) /\ pos' \in Nat /\ pos' <= Len(body')
  BY <1>1 DEF CodecSound
<1> QED
  BY <1>1, <1>3, <1>4, <1>5, <1>6 DEF CodecSound

LEMMA OpenShortSound ==
    ASSUME CodecSound, OpenShort
    PROVE  CodecSound'
<1>1. /\ kind' = kind /\ intact' = FALSE /\ body' = body /\ value' = value
      /\ pos' = pos /\ fields' = fields /\ verdict' = "malformed"
  BY DEF OpenShort
<1>2. Log(fields', kind') /\ Canonical(fields', body', pos', kind')
  BY <1>1 DEF CodecSound
<1>3. kind' \in Kinds /\ body' \in Seq(Byte) /\ pos' \in Nat /\ pos' <= Len(body')
  BY <1>1 DEF CodecSound
<1> QED
  BY <1>1, <1>2, <1>3 DEF CodecSound

\* A read that is refused leaves the reader where it was.
LEMMA ThrowSound ==
    ASSUME CodecSound, verdict = "reading", ~intact,
           NEW error \in {"truncation", "malformed"}, Throw(error)
    PROVE  CodecSound'
<1>1. /\ kind' = kind /\ value' = value /\ intact' = intact /\ body' = body
      /\ pos' = pos /\ fields' = fields /\ verdict' = error
  BY DEF Throw
<1>2. Log(fields', kind') /\ Canonical(fields', body', pos', kind')
  BY <1>1 DEF CodecSound
<1>3. kind' \in Kinds /\ body' \in Seq(Byte) /\ pos' \in Nat /\ pos' <= Len(body')
  BY <1>1 DEF CodecSound
<1>4. ~intact' /\ verdict' # "idle" /\ verdict' # "done"
  BY <1>1
<1> QED
  BY <1>2, <1>3, <1>4 DEF CodecSound

\* A field is read as it lies in the payload.
LEMMA ReadSound ==
    ASSUME CodecSound, verdict = "reading", NEW f, NEW x, NextField(fields, kind, f, x),
           LiesAs(WriteField(f, x), body, pos, f), intact => x = value[f],
           Read(f, x, pos + Len(WriteField(f, x)))
    PROVE  CodecSound'
<1>1. /\ kind' = kind /\ value' = value /\ intact' = intact /\ body' = body
      /\ verdict' = verdict /\ fields' = Append(fields, <<f, x>>)
      /\ pos' = pos + Len(WriteField(f, x))
  BY DEF Read
<1>2. /\ kind \in Kinds /\ body \in Seq(Byte) /\ pos \in Nat
      /\ Log(fields, kind) /\ Canonical(fields, body, pos, kind)
  BY DEF CodecSound
<1>3. Log(fields', kind')
  BY <1>1, <1>2, LogGrows
<1>4. Canonical(fields', body', pos', kind')
  BY <1>1, <1>2, CanonicalGrows
<1>5. ASSUME intact
      PROVE  Faithful(fields', body', pos', kind', value')
  <2>1. Faithful(fields, body, pos, kind, value) /\ x = value[f]
    BY <1>5 DEF CodecSound
  <2>2. Len(fields) < Len(ReadOrder(kind)) /\ f = ReadOrder(kind)[Len(fields) + 1]
    BY DEF NextField
  <2>3. Faithful(Append(fields, <<f, value[f]>>), body,
                 pos + Len(WriteField(f, value[f])), kind, value)
    BY <1>2, <2>1, <2>2, FaithfulGrows
  <2> QED
    BY <1>1, <2>1, <2>3
<1>6. pos' \in Nat /\ pos' <= Len(body)
  <2>1. WriteField(f, x) \in Seq(Byte)
    BY WritesBytes DEF NextField
  <2>2. Len(WriteField(f, x)) \in Nat
    BY <2>1
  <2> QED
    BY <1>1, <1>2, <2>2 DEF LiesAs
<1> QED
  BY <1>1, <1>2, <1>3, <1>4, <1>5, <1>6 DEF CodecSound

\* What is at pos_ when the bytes are as they were encoded.
LEMMA IntactNext ==
    ASSUME CodecSound, verdict = "reading", intact, NEW f,
           Len(fields) < Len(ReadOrder(kind)), f = ReadOrder(kind)[Len(fields) + 1]
    PROVE  Holds(f, value[f]) /\ Lies(WriteField(f, value[f]), body, pos)
<1>1. Faithful(fields, body, pos, kind, value) /\ Log(fields, kind)
  BY DEF CodecSound
<1> QED
  BY <1>1, FaithfulNext

LEMMA FixedSound ==
    ASSUME CodecSound, verdict = "reading", NEW f, Form(f) \in FixedForms,
           Len(fields) < Len(ReadOrder(kind)), f = ReadOrder(kind)[Len(fields) + 1],
           ReadFixed(f, SizeOf(f))
    PROVE  CodecSound'
<1>1. body \in Seq(Byte) /\ pos \in Nat /\ Len(body) \in Nat /\ SizeOf(f) \in Nat
  BY SizeIs DEF CodecSound
<1>2. CASE PastEnd(SizeOf(f), pos)
  <2>1. ASSUME intact PROVE FALSE
    <3>1. Holds(f, value[f]) /\ Lies(WriteField(f, value[f]), body, pos)
      BY <2>1, IntactNext
    <3>2. pos + SizeOf(f) <= Len(body)
      BY <3>1, FixedSize DEF Lies
    <3> QED
      BY <1>1, <1>2, <3>2 DEF PastEnd
  <2>2. Throw("truncation")
    BY <1>2 DEF ReadFixed
  <2> QED
    BY <2>1, <2>2, ThrowSound
<1>3. CASE ~PastEnd(SizeOf(f), pos)
  <2>1. PICK t : t = Taken(SizeOf(f), pos)
    OBVIOUS
  <2>2. Segment(t, body, pos, SizeOf(f))
    BY <1>1, <1>3, <2>1, TakenIs
  <2>3. PICK x : x = FixedValue(f, t)
    OBVIOUS
  <2>4. Holds(f, x) /\ LiesAs(WriteField(f, x), body, pos, f)
    BY <1>1, <2>2, <2>3, FixedReads
  <2>5. Len(WriteField(f, x)) = SizeOf(f)
    BY <2>4, FixedSize
  <2>6. Read(f, x, pos + SizeOf(f))
    BY <1>3, <2>1, <2>3 DEF ReadFixed
  <2>7. ASSUME intact PROVE x = value[f]
    <3>1. Holds(f, value[f]) /\ Lies(WriteField(f, value[f]), body, pos)
      BY <2>7, IntactNext
    <3> QED
      BY <2>2, <2>3, <3>1, FixedReadsBack
  <2>8. NextField(fields, kind, f, x)
    BY <2>4 DEF NextField
  <2>9. Read(f, x, pos + Len(WriteField(f, x)))
    BY <2>5, <2>6
  <2> QED
    BY <2>4, <2>7, <2>8, <2>9, ReadSound
<1> QED
  BY <1>2, <1>3

LEMMA TextSound ==
    ASSUME CodecSound, verdict = "reading", NEW f, Form(f) \in {"string", "blob"},
           Len(fields) < Len(ReadOrder(kind)), f = ReadOrder(kind)[Len(fields) + 1],
           ReadString(f) \/ ReadBlob(f)
    PROVE  CodecSound'
<1>1. /\ body \in Seq(Byte) /\ pos \in Nat /\ Len(body) \in Nat
      /\ Bytes32 \in Nat /\ Bytes64 \in Nat
  BY WidthsAre DEF CodecSound
<1>5. PICK start \in Nat : start = pos + Bytes32
  BY <1>1
<1>6. ASSUME intact
      PROVE  Holds(f, value[f]) /\ Lies(WriteField(f, value[f]), body, pos)
  BY <1>6, IntactNext
<1>2. ASSUME intact
      PROVE  /\ Len(value[f]) \in Nat /\ start + Len(value[f]) <= Len(body)
             /\ \A t : Segment(t, body, pos, Bytes32) => Number(t) = Len(value[f])
             /\ \A x : Segment(x, body, start, Len(value[f])) => x = value[f]
  <2>1. TextAt(value[f], body, pos, start)
    BY <1>1, <1>2, <1>5, <1>6, TextReadsBack
  <2> QED
    BY <2>1 DEF TextAt
<1>3. CASE PastEnd(Bytes32, pos)
  <2>1. ASSUME intact PROVE FALSE
    <3>1. PICK l \in Nat : l = Len(value[f]) /\ start + l <= Len(body)
      BY <1>2, <2>1
    <3>2. (pos + Bytes32) + l <= Len(body)
      BY <1>5, <3>1
    <3> QED
      BY <1>1, <1>3, <3>2, NotPastEnd
  <2>2. Throw("truncation")
    BY <1>3 DEF ReadString, ReadBlob
  <2> QED
    BY <2>1, <2>2, ThrowSound
<1>4. CASE ~PastEnd(Bytes32, pos)
  <2>1. PICK t : t = Taken(Bytes32, pos)
    OBVIOUS
  <2>2. Segment(t, body, pos, Bytes32)
    BY <1>1, <1>4, <2>1, TakenIs
  <2>3. PICK n \in Nat : n = Number(t)
    <3>1. t \in Seq(Byte)
      BY <2>2 DEF Segment
    <3>2. Number(t) \in Nat
      BY <3>1, LittleEndianOfNumber DEF FitsIn
    <3> QED
      BY <3>2
  <2>5. intact => n = Len(value[f]) /\ start + n <= Len(body)
    BY <1>2, <2>2, <2>3
  <2>6. CASE PastEnd(n, start) \/ n > Len(body) + Bytes64
    <3>1. ASSUME intact PROVE FALSE
      BY <1>1, <2>5, <2>6, <3>1 DEF PastEnd
    <3>2. PastEnd(n, start)
      BY <1>1, <2>6 DEF PastEnd
    <3>3. Throw("truncation") \/ Throw("malformed")
      BY <1>4, <2>1, <2>3, <1>5, <3>2 DEF ReadString, ReadBlob
    <3> QED
      BY <3>1, <3>3, ThrowSound
  <2>7. CASE ~PastEnd(n, start) /\ ~(n > Len(body) + Bytes64)
    <3>1. PICK x : x = Taken(n, start)
      OBVIOUS
    <3>2. Segment(x, body, start, n)
      BY <1>1, <2>7, <3>1, TakenIs
    <3>3. Segment(x, body, start, Number(t))
      BY <2>3, <3>2
    <3>4. /\ Holds(f, x) /\ Lies(WriteField(f, x), body, pos)
          /\ Len(WriteField(f, x)) = Bytes32 + Number(t)
      BY <1>1, <1>5, <2>2, <3>3, TextReads
    <3>5. Read(f, x, start + n)
      BY <1>4, <2>1, <2>3, <1>5, <2>7, <3>1 DEF ReadString, ReadBlob
    <3>6. start + n = pos + Len(WriteField(f, x))
      BY <1>1, <1>5, <2>3, <3>4
    <3>7. LiesAs(WriteField(f, x), body, pos, f)
      BY <3>4, LiesLies
    <3>8. ASSUME intact PROVE x = value[f]
      <4>1. Segment(x, body, start, Len(value[f]))
        BY <2>5, <3>2, <3>8
      <4> QED
        BY <1>2, <3>8, <4>1
    <3>9. NextField(fields, kind, f, x)
      BY <3>4 DEF NextField
    <3>10. Read(f, x, pos + Len(WriteField(f, x)))
      BY <3>5, <3>6
    <3> QED
      BY <3>7, <3>8, <3>9, <3>10, ReadSound
  <2> QED
    BY <2>6, <2>7
<1> QED
  BY <1>3, <1>4

LEMMA ReadNextSound ==
    ASSUME CodecSound, ReadNext
    PROVE  CodecSound'
<1>1. PICK f : f = ReadOrder(kind)[Len(fields) + 1]
  OBVIOUS
<1>2. verdict = "reading" /\ Len(fields) < Len(ReadOrder(kind))
  BY DEF ReadNext
<1>3. CASE Form(f) \in {"string", "blob"}
  <2>1. ReadString(f) \/ ReadBlob(f)
    BY <1>1, <1>3 DEF ReadNext
  <2> QED
    BY <1>1, <1>2, <1>3, <2>1, TextSound
<1>4. CASE Form(f) \notin {"string", "blob"}
  <2>1. Form(f) \in FixedForms
    BY <1>4, FixedForm
  <2>2. ReadFixed(f, SizeOf(f))
    <3>1. CASE Form(f) \in {"u8", "bool"}
      BY <1>1, <3>1 DEF ReadNext, SizeOf
    <3>2. CASE Form(f) = "u64"
      BY <1>1, <3>2 DEF ReadNext, SizeOf
    <3>3. CASE Form(f) = "id"
      BY <1>1, <3>3 DEF ReadNext, SizeOf
    <3> QED
      BY <2>1, <3>1, <3>2, <3>3 DEF FixedForms
  <2> QED
    BY <1>1, <1>2, <2>1, <2>2, FixedSound
<1> QED
  BY <1>3, <1>4

LEMMA CodecStepSound == CodecSound /\ [CodecNext]_codecVars => CodecSound'
<1> SUFFICES ASSUME CodecSound, [CodecNext]_codecVars
             PROVE  CodecSound'
  OBVIOUS
<1>1. CASE OpenShort
  BY <1>1, OpenShortSound
<1>2. ASSUME NEW k \in Kinds, NEW v \in Values[k], Arrive(k, v)
      PROVE  CodecSound'
  BY <1>2, ArriveSound
<1>3. CASE ReadNext
  BY <1>3, ReadNextSound
<1>4. CASE ExpectEnd
  BY <1>4, ExpectEndSound
<1>5. CASE UNCHANGED codecVars
  <2>1. /\ kind' = kind /\ value' = value /\ intact' = intact /\ body' = body
        /\ pos' = pos /\ fields' = fields /\ verdict' = verdict
    BY <1>5 DEF codecVars
  <2> QED
    BY <2>1 DEF CodecSound
<1> QED
  BY <1>1, <1>2, <1>3, <1>4, <1>5 DEF CodecNext

-----------------------------------------------------------------------------
(* The theorems.                                                           *)

\* The position of BinReader never passes the end of the payload, so that the
\* unsigned subtraction in string() never wraps and no byte of the checksum is
\* taken for a field: whatever the bytes and the lengths in them are.
THEOREM ReadsStayInside == CodecSpec => []NeverPastEnd
<1>1. CodecSound => NeverPastEnd
  BY DEF CodecSound, NeverPastEnd
<1> QED
  BY <1>1, CodecInitSound, CodecStepSound, PTL DEF CodecSpec

\* decode_message and decode_fence accept what encode_message and encode_fence
\* wrote and give back every field as it was, for texts and payloads of any
\* length that a u32 counts and all numbers of a u64.
THEOREM DecodeInvertsEncode == CodecSpec => []RoundTrip
<1>1. ASSUME CodecSound
      PROVE  RoundTrip
  <2> SUFFICES ASSUME intact
               PROVE  /\ verdict \in {"idle", "reading", "done"}
                      /\ \A i \in DOMAIN fields : fields[i][2] = value[fields[i][1]]
    BY DEF RoundTrip
  <2>1. verdict \in {"idle", "reading", "done"}
    BY <1>1 DEF CodecSound
  <2>2. CASE verdict = "idle"
    <3>1. fields = <<>>
      BY <1>1, <2>2 DEF CodecSound
    <3> QED
      BY <2>1, <3>1
  <2>3. CASE verdict # "idle"
    <3>1. Faithful(fields, body, pos, kind, value) /\ Log(fields, kind)
      BY <1>1, <2>3 DEF CodecSound
    <3>2. DOMAIN fields = 1..Len(fields)
      BY <3>1 DEF Log
    <3>3. \A i \in 1..Len(fields) : fields[i][1] = ReadOrder(kind)[i]
      BY <3>1 DEF Log
    <3>4. \A i \in 1..Len(fields) : fields[i][2] = value[ReadOrder(kind)[i]]
      BY <3>1 DEF Faithful
    <3> QED
      BY <2>1, <3>2, <3>3, <3>4
  <2> QED
    BY <2>2, <2>3
<1> QED
  BY <1>1, CodecInitSound, CodecStepSound, PTL DEF CodecSpec

\* The value that decode returns is made of the fields in the order read.
LEMMA FieldOfIs ==
    ASSUME Log(fields, kind), NEW i \in 1..Len(fields)
    PROVE  FieldOf(ReadOrder(kind)[i]) = fields[i][2]
<1>1. /\ DOMAIN fields = 1..Len(fields) /\ Len(fields) \in Nat
      /\ Len(fields) <= Len(ReadOrder(kind))
  BY DEF Log
<1>2. \A j \in 1..Len(fields) : fields[j][1] = ReadOrder(kind)[j]
  BY DEF Log
<1>3. \A j \in 1..Len(fields) : j \in 1..Len(ReadOrder(kind))
  BY <1>1, OrderLength
<1>4. PICK c : c = CHOOSE j \in DOMAIN fields : fields[j][1] = ReadOrder(kind)[i]
  OBVIOUS
<1>5. c \in 1..Len(fields) /\ fields[c][1] = ReadOrder(kind)[i]
  BY <1>1, <1>2, <1>4
<1>6. c = i
  BY <1>2, <1>3, <1>5, OrderOnce
<1> QED
  BY <1>4, <1>6 DEF FieldOf

\* "Strict deterministic codec": bytes that decode accepts are the bytes that
\* encode writes for what was read, but for the flag ok, whoever wrote them.
THEOREM AcceptedIsCanonical == CodecSpec => []AcceptsCanonical
<1>1. ASSUME CodecSound
      PROVE  AcceptsCanonical
  <2> SUFFICES ASSUME verdict = "done", NEW read, NEW again,
                      read = [f \in ToSet(ReadOrder(kind)) |-> FieldOf(f)],
                      again = Encode(kind, read)
               PROVE  /\ Len(again) = Len(body)
                      /\ \A i \in DOMAIN body :
                           again[i] # body[i] =>
                             kind = "message" /\ again[i] = 1 /\ body[i] # 0
    BY DEF AcceptsCanonical
  <2>1. /\ body \in Seq(Byte) /\ Log(fields, kind)
        /\ Canonical(fields, body, pos, kind)
        /\ Len(fields) = Len(ReadOrder(kind)) /\ pos = Len(body)
    BY <1>1 DEF CodecSound
  <2>2. PICK n \in Nat : n = Len(fields) /\ n = Len(ReadOrder(kind))
    BY <2>1, OrderLength
  <2>3. PICK g : Buffers(g, Logged(fields), n) /\ Len(g[n]) = pos /\ Agrees(g[n], body, kind)
    BY <2>1, <2>2 DEF Canonical
  <2>4. ASSUME NEW i \in 1..n
        PROVE  read[ReadOrder(kind)[i]] = fields[i][2]
    <3>1. ReadOrder(kind)[i] \in ToSet(ReadOrder(kind))
      <4>1. i \in DOMAIN ReadOrder(kind)
        BY <2>2, OrderDomain
      <4> QED
        BY <4>1 DEF ToSet
    <3>2. read[ReadOrder(kind)[i]] = FieldOf(ReadOrder(kind)[i])
      BY <3>1
    <3> QED
      BY <2>1, <2>2, <3>2, FieldOfIs
  <2>5. \A i \in 1..n : fields[i][1] = ReadOrder(kind)[i] /\ Holds(fields[i][1], fields[i][2])
    BY <2>1, <2>2 DEF Log
  <2>6. Writable(kind, read)
    BY <2>2, <2>4, <2>5 DEF Writable
  <2>7. Buffers(Written(kind, read), PartsOf(kind, read), n)
    BY <2>2, <2>6, WrittenIs
  <2>8. ASSUME NEW i \in 1..n
        PROVE  PartsOf(kind, read)[i] = Logged(fields)[i]
    <3>1. PartsOf(kind, read)[i] = WriteField(ReadOrder(kind)[i], read[ReadOrder(kind)[i]])
      BY <2>2, <2>6, PartsAreBytes
    <3>2. Logged(fields)[i] = WriteField(fields[i][1], fields[i][2])
      BY <2>2 DEF Logged
    <3> QED
      BY <2>4, <2>5, <3>1, <3>2
  <2>9. Written(kind, read)[n] = g[n]
    BY <2>3, <2>7, <2>8, BuffersUnique
  <2>10. again = g[n]
    BY <2>2, <2>9, EncodeIs
  <2>11. Len(again) = Len(body)
    BY <2>1, <2>3, <2>10
  <2>12. DOMAIN body = 1..Len(body)
    BY <2>1
  <2>13. \A i \in 1..Len(again) :
           again[i] # body[i] => kind = "message" /\ again[i] = 1 /\ body[i] # 0
    BY <2>3, <2>10 DEF Agrees
  <2> QED
    BY <2>11, <2>12, <2>13
<1> QED
  BY <1>1, CodecInitSound, CodecStepSound, PTL DEF CodecSpec

=============================================================================
