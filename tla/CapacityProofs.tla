--------------------------- MODULE CapacityProofs ---------------------------
(***************************************************************************)
(* Proofs about the capacity accountant, for every set of locations, every *)
(* finite set of owners and every width of the counters.                   *)
(***************************************************************************)
EXTENDS Capacity, Sums, TLAPS

-----------------------------------------------------------------------------
(* Arithmetic of unsigned counters.                                        *)

LEMMA Division ==
    ASSUME NEW W \in Nat \ {0}, NEW x \in Int
    PROVE  x \div W \in Int /\ x = W * (x \div W) + (x % W)
OBVIOUS

LEMMA RemainderUnique ==
    ASSUME NEW W \in Nat \ {0}, NEW q \in Int, NEW r \in 0..(W - 1),
           NEW x \in Int, x = W * q + r
    PROVE  x % W = r
OBVIOUS

LEMMA Distribute ==
    ASSUME NEW W \in Int, NEW q \in Int, NEW p \in Int, NEW r \in Int
    PROVE  W * q + (W * p + r) = W * (q + p) + r
OBVIOUS

\* Wrapping before an addition makes no difference after it.
LEMMA WrappedSum ==
    ASSUME NEW W \in Nat \ {0}, NEW x \in Int, NEW y \in Int, NEW n \in Int,
           y = x % W
    PROVE  (y + n) % W = (x + n) % W
<1>1. PICK r \in 0..(W - 1) : r = (y + n) % W
  OBVIOUS
<1>2. PICK q \in Int : x = W * q + y
  BY Division
<1>3. PICK p \in Int : y + n = W * p + r
  <2> DEFINE z == y + n
  <2>1. z \in Int /\ z % W = r
    BY <1>1
  <2> HIDE DEF z
  <2>2. z \div W \in Int /\ z = W * (z \div W) + (z % W)
    BY <2>1, Division
  <2>3. z = W * (z \div W) + r
    BY <2>1, <2>2, Zenon
  <2> QED
    BY <2>2, <2>3 DEF z
<1>4. x + n = W * (q + p) + r
  <2>1. W * q \in Int /\ W * p \in Int
    OBVIOUS
  <2>2. x + n = W * q + (W * p + r)
    BY <1>2, <1>3, <2>1
  <2> QED
    BY <2>2, Distribute
<1>5. (x + n) % W = r
  <2> DEFINE z == x + n
  <2>1. z \in Int /\ q + p \in Int /\ z = W * (q + p) + r
    BY <1>4
  <2> HIDE DEF z
  <2>2. z % W = r
    BY <2>1, RemainderUnique
  <2> QED
    BY <2>2 DEF z
<1> QED
  BY <1>1, <1>5

\* A counter never leaves its width, and wrapping changes no number that
\* fits.
LEMMA WrappedWord ==
    /\ \A x \in Int : Wrapped(x) \in Words
    /\ \A x \in Words : Wrapped(x) = x
BY WordAssumption DEF Wrapped, Words

-----------------------------------------------------------------------------
(* What the owners hold.                                                   *)

\* Typed books have a finite total, which bounds every entry.
LEMMA HeldType ==
    ASSUME CapacityTypeOK, NEW l \in Locations
    PROVE  Held(l) \in Nat /\ \A o \in Owners : held[l][o] <= Held(l)
<1>1. held[l] \in [Owners -> Nat]
  BY WordAssumption DEF CapacityTypeOK, Words
<1> QED
  BY <1>1, OwnersAssumption, SumNat DEF Held

\* Changing one entry changes the total of its location by as much and no
\* other total.
LEMMA HeldUpdate ==
    ASSUME CapacityTypeOK, NEW l \in Locations, NEW o \in Owners,
           NEW n \in Words, held' = [held EXCEPT ![l][o] = n]
    PROVE  /\ held' \in [Locations -> [Owners -> Words]]
           /\ Held(l)' = (Held(l) - held[l][o]) + n
           /\ \A m \in Locations \ {l} : Held(m)' = Held(m)
<1>1. held[l] \in [Owners -> Nat] /\ n \in Nat
  BY WordAssumption DEF CapacityTypeOK, Words
<1>2. /\ held' \in [Locations -> [Owners -> Words]]
      /\ held'[l] = [held[l] EXCEPT ![o] = n]
      /\ \A m \in Locations \ {l} : held'[m] = held[m]
  BY DEF CapacityTypeOK
<1>3. SumFunction([held[l] EXCEPT ![o] = n]) = (SumFunction(held[l]) - held[l][o]) + n
  BY <1>1, OwnersAssumption, SumUpdate
<1> QED
  BY <1>2, <1>3 DEF Held

\* A reservation or a release, the two ways an entry and its total change
\* together: by the same amount, upwards within what is left or downwards
\* within what is held.
Charged(l, n, o) ==
    /\ n \in Int
    /\ held[l][o] + n \in Words
    /\ n <= Wrapped(limits[l] - used[l]) \/ n <= 0
    /\ held' = [held EXCEPT ![l][o] = held[l][o] + n]
    /\ used' = [used EXCEPT ![l] = Wrapped(used[l] + n)]
    /\ UNCHANGED limits

LEMMA ReserveCharges ==
    ASSUME CapacityTypeOK, NEW l \in Locations, NEW n \in Words,
           NEW o \in Owners, Reserve(l, n, o)
    PROVE  Charged(l, n, o)
BY WordAssumption DEF Reserve, CanReserve, Charged, CapacityTypeOK, Words

LEMMA ReleaseCharges ==
    ASSUME CapacityTypeOK, NEW l \in Locations, NEW n \in Words,
           NEW o \in Owners, Release(l, n, o)
    PROVE  Charged(l, -n, o)
<1>1. /\ held[l][o] \in Words /\ used[l] \in Words /\ WordSize \in Nat
      /\ n \in Nat /\ n <= held[l][o]
  BY WordAssumption DEF Release, CanRelease, CapacityTypeOK, Words
<1>2. /\ -n \in Int /\ held[l][o] + (-n) \in Words /\ -n <= 0
      /\ held[l][o] - n = held[l][o] + (-n)
      /\ used[l] - n = used[l] + (-n)
  BY <1>1 DEF Words
<1>3. /\ held' = [held EXCEPT ![l][o] = held[l][o] - n]
      /\ used' = [used EXCEPT ![l] = Wrapped(used[l] - n)]
      /\ UNCHANGED limits
  BY DEF Release, CapacityTypeOK
<1> QED
  BY <1>2, <1>3 DEF Charged

\* Every step charges an owner, or changes nothing but limits.
LEMMA CapacityStep ==
    ASSUME CapacityTypeOK, [CapacityNext]_capacityVars
    PROVE  \/ \E l \in Locations, n \in Int, o \in Owners : Charged(l, n, o)
           \/ \E l \in Locations, n \in Words : SetLimit(l, n)
           \/ UNCHANGED capacityVars
<1> DEFINE Goal == \E l \in Locations, n \in Int, o \in Owners : Charged(l, n, o)
<1>1. Words \subseteq Int /\ \A n \in Words : -n \in Int
  BY WordAssumption DEF Words
<1>2. ASSUME NEW l \in Locations, NEW n \in Words, NEW o \in Owners,
             Reserve(l, n, o) \/ Release(l, n, o)
      PROVE  Goal
  BY <1>1, <1>2, ReserveCharges, ReleaseCharges
<1>3. ASSUME NEW l \in Locations, NEW n \in Words, NEW o \in Owners,
             Adjust(l, n, o) \/ Adjust(l, -n, o)
      PROVE  Goal
  <2>1. n \in Nat /\ -(-n) = n
    BY WordAssumption DEF Words
  <2>2. Adjust(l, n, o) => Reserve(l, n, o)
    BY <2>1 DEF Adjust
  <2>3. CASE Adjust(l, -n, o) /\ n = 0
    <3>1. -n = n /\ -n >= 0
      BY <2>1, <2>3
    <3>2. Reserve(l, -n, o)
      BY <2>3, <3>1 DEF Adjust
    <3>3. Reserve(l, n, o)
      BY <3>1, <3>2, Zenon
    <3> QED
      BY <1>2, <3>3
  <2>4. CASE Adjust(l, -n, o) /\ n # 0
    <3>1. ~(-n >= 0)
      BY <2>1, <2>4
    <3>2. Release(l, -(-n), o)
      BY <2>4, <3>1 DEF Adjust
    <3> QED
      BY <1>2, <2>1, <3>2
  <2> QED
    BY <1>2, <1>3, <2>2, <2>3, <2>4
<1> QED
  BY <1>2, <1>3 DEF CapacityNext

-----------------------------------------------------------------------------
(* The theorems.                                                           *)

LEMMA TypeStep ==
    ASSUME CapacityTypeOK, [CapacityNext]_capacityVars
    PROVE  CapacityTypeOK'
<1>1. ASSUME NEW l \in Locations, NEW n \in Int, NEW o \in Owners,
             Charged(l, n, o)
      PROVE  CapacityTypeOK'
  <2>1. held[l][o] + n \in Words /\ held' = [held EXCEPT ![l][o] = held[l][o] + n]
    BY <1>1 DEF Charged
  <2> HIDE DEF Words
  <2>2. held' \in [Locations -> [Owners -> Words]]
    BY <2>1, HeldUpdate
  <2>3. used[l] + n \in Int
    BY WordAssumption DEF CapacityTypeOK, Words
  <2>4. Wrapped(used[l] + n) \in Words
    BY <2>3, WrappedWord
  <2>5. used' = [used EXCEPT ![l] = Wrapped(used[l] + n)] /\ limits' = limits
    BY <1>1 DEF Charged
  <2> QED
    BY <2>2, <2>4, <2>5 DEF CapacityTypeOK
<1>2. ASSUME NEW l \in Locations, NEW n \in Words, SetLimit(l, n)
      PROVE  CapacityTypeOK'
  BY <1>2 DEF SetLimit, CapacityTypeOK
<1>3. CASE UNCHANGED capacityVars
  BY <1>3 DEF capacityVars, CapacityTypeOK
<1> QED
  BY <1>1, <1>2, <1>3, CapacityStep

\* reserve, release, adjust and set_limit keep every counter of the accountant
\* within its width.
THEOREM CapacityTypeCorrect == CapacitySpec => []CapacityTypeOK
<1>1. ASSUME NEW initial \in [Locations -> Words], CapacityInit(initial)
      PROVE  CapacityTypeOK
  BY <1>1, WordAssumption DEF CapacityInit, CapacityTypeOK, Words
<1>2. CapacityTypeOK /\ [CapacityNext]_capacityVars => CapacityTypeOK'
  BY TypeStep
<1>3. (\E initial \in [Locations -> Words] : CapacityInit(initial))
        => CapacityTypeOK
  BY <1>1
<1> QED
  BY <1>2, <1>3, PTL DEF CapacitySpec

LEMMA ConservationStep ==
    ASSUME CapacityTypeOK, UsageConserved, [CapacityNext]_capacityVars
    PROVE  UsageConserved'
<1>1. ASSUME NEW l \in Locations, NEW n \in Int, NEW o \in Owners,
             Charged(l, n, o)
      PROVE  UsageConserved'
  <2> DEFINE h == held[l][o] + n
  <2>1. h \in Words /\ held' = [held EXCEPT ![l][o] = h]
    BY <1>1 DEF Charged
  <2>2. held[l][o] \in Nat /\ used[l] \in Nat /\ Held(l) \in Nat
    BY HeldType, WordAssumption DEF CapacityTypeOK, Words
  <2>3. h = held[l][o] + n
    OBVIOUS
  <2> HIDE DEF h
  <2>4. /\ Held(l)' = (Held(l) - held[l][o]) + h
        /\ \A m \in Locations \ {l} : Held(m)' = Held(m)
    BY <2>1, HeldUpdate
  <2>5. Held(l)' = Held(l) + n
    BY <2>2, <2>3, <2>4
  <2>6. /\ used'[l] = Wrapped(used[l] + n)
        /\ \A m \in Locations \ {l} : used'[m] = used[m]
    BY <1>1 DEF Charged, CapacityTypeOK
  <2>7. used[l] = Held(l) % WordSize
    BY DEF UsageConserved, Wrapped
  <2>8. (used[l] + n) % WordSize = (Held(l) + n) % WordSize
    BY <2>2, <2>7, WordAssumption, WrappedSum
  <2>9. used'[l] = Wrapped(Held(l)')
    BY <2>5, <2>6, <2>8 DEF Wrapped
  <2> QED
    BY <2>4, <2>6, <2>9 DEF UsageConserved, Wrapped
<1>2. CASE UNCHANGED <<used, held>>
  BY <1>2 DEF UsageConserved, Held, Wrapped
<1> QED
  BY <1>1, <1>2, CapacityStep DEF SetLimit, capacityVars

\* Conservation of capacity: used_ is, up to its width, what the entries of
\* held_ add up to, after any calls of reserve, release, adjust and set_limit.
THEOREM Conservation == CapacitySpec => []UsageConserved
<1>1. ASSUME NEW initial \in [Locations -> Words], CapacityInit(initial)
      PROVE  UsageConserved
  <2>1. ASSUME NEW l \in Locations
        PROVE  used[l] = 0 /\ held[l] = [o \in Owners |-> 0]
    BY <1>1 DEF CapacityInit
  <2>2. ASSUME NEW l \in Locations
        PROVE  Held(l) = 0
    BY <2>1, OwnersAssumption, SumZero DEF Held
  <2>3. Wrapped(0) = 0
    BY WordAssumption DEF Wrapped
  <2> QED
    BY <2>1, <2>2, <2>3 DEF UsageConserved
<1>2. CapacityTypeOK /\ UsageConserved /\ [CapacityNext]_capacityVars
        => UsageConserved'
  BY ConservationStep
<1>3. (\E initial \in [Locations -> Words] : CapacityInit(initial))
        => UsageConserved
  BY <1>1
<1> QED
  BY <1>2, <1>3, CapacityTypeCorrect, PTL DEF CapacitySpec

LEMMA BooksStep ==
    ASSUME CapacityTypeOK, [CapacityNext]_capacityVars,
           NEW l \in Locations, BooksSound(l), used[l] <= limits'[l]
    PROVE  BooksSound(l)'
<1>1. ASSUME NEW m \in Locations, NEW n \in Int, NEW o \in Owners,
             Charged(m, n, o)
      PROVE  BooksSound(l)'
  <2> DEFINE h == held[m][o] + n
  <2>1. h \in Words /\ held' = [held EXCEPT ![m][o] = h]
    BY <1>1 DEF Charged
  <2>2. h = held[m][o] + n
    OBVIOUS
  <2> HIDE DEF h
  <2>3. /\ Held(m)' = (Held(m) - held[m][o]) + h
        /\ \A k \in Locations \ {m} : Held(k)' = Held(k)
    BY <2>1, HeldUpdate
  <2>4. /\ used'[m] = Wrapped(used[m] + n)
        /\ \A k \in Locations \ {m} : used'[k] = used[k]
    BY <1>1 DEF Charged, CapacityTypeOK
  <2>5. CASE l # m
    BY <2>3, <2>4, <2>5 DEF BooksSound
  <2>6. CASE l = m
    <3>1. /\ held[l][o] \in Nat /\ used[l] \in Nat /\ limits[l] \in Nat
          /\ limits[l] \in Words /\ h \in Nat /\ WordSize \in Nat
          /\ Held(l) \in Nat /\ held[l][o] <= Held(l)
      BY <2>1, HeldType, WordAssumption DEF CapacityTypeOK, Words
    <3>2. Held(l)' = Held(l) + n /\ Held(l) + n >= 0
      BY <2>2, <2>3, <2>6, <3>1
    <3>3. used[l] = Held(l) /\ Held(l) <= limits[l]
      BY DEF BooksSound
    <3>4. limits[l] - used[l] \in Words
      BY <3>1, <3>3 DEF Words
    <3>5. n <= limits[l] - used[l] \/ n <= 0
      BY <1>1, <2>6, <3>4, WrappedWord DEF Charged
    <3>6. used[l] + n \in Words /\ used[l] + n <= limits[l]
      BY <3>1, <3>2, <3>3, <3>5 DEF Words
    <3>7. used'[l] = used[l] + n
      BY <2>4, <2>6, <3>6, WrappedWord
    <3> QED
      BY <1>1, <3>2, <3>3, <3>6, <3>7 DEF BooksSound, Charged
  <2> QED
    BY <2>5, <2>6
<1>2. CASE UNCHANGED <<used, held>>
  BY <1>2 DEF BooksSound, Held
<1> QED
  BY <1>1, <1>2, CapacityStep DEF SetLimit, capacityVars

\* No overcommit and no leak: reserve, release, adjust and a set_limit that is
\* not below the usage keep the usage of a location the sum of what is held
\* there and within its limit.
THEOREM BooksStaySound == CapacitySpec => SoundBooksStaySound
<1>1. CapacityTypeOK /\ [CapacityNext]_capacityVars =>
        [\A l \in Locations :
           BooksSound(l) /\ used[l] <= limits'[l]
             => BooksSound(l)']_capacityVars
  BY BooksStep
<1> QED
  BY <1>1, CapacityTypeCorrect, PTL DEF CapacitySpec, SoundBooksStaySound

=============================================================================
