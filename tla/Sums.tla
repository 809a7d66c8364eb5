-------------------------------- MODULE Sums --------------------------------
(***************************************************************************)
(* Facts about SumFunction of the community module Functions: it is well   *)
(* defined over a finite domain, it is a natural number when the summands  *)
(* are, and changing one summand changes the sum by as much.  The byte     *)
(* counts of capacity accounting and of compositions are such sums.        *)
(*                                                                         *)
(* SumFunction is a recursive function over the subsets of the domain, so  *)
(* the facts are shown by induction over finite sets, in the form that no  *)
(* set of subsets without a smallest counterexample has one.               *)
(***************************************************************************)
EXTENDS Functions, FiniteSetTheorems, TLAPS

\* Induction over the subsets of a finite set, for a set of good subsets.
LEMMA SubsetInduction ==
    ASSUME NEW S, IsFiniteSet(S), NEW Good,
           \A T \in SUBSET S :
             (\A U \in SUBSET T : U # T => U \in Good) => T \in Good
    PROVE  \A T \in SUBSET S : T \in Good
<1> DEFINE Bad == {T \in SUBSET S : T \notin Good}
           R == StrictSubsetOrdering(S)
<1> SUFFICES ASSUME Bad # {}
             PROVE  FALSE
  OBVIOUS
<1>1. IsWellFoundedOn(R, SUBSET S)
  <2>1. IsWellFoundedOn(R, FiniteSubsetsOf(S))
    BY FS_StrictSubsetOrderingWellFounded, Zenon
  <2>2. FiniteSubsetsOf(S) = SUBSET S
    BY FS_FiniteSubsetsOfFinite, Zenon
  <2> QED
    BY <2>1, <2>2
<1>2. Bad \subseteq SUBSET S
  OBVIOUS
<1>3. \E T \in Bad : \A U \in Bad : ~(<<U, T>> \in R)
  <2> HIDE DEF Bad, R
  <2> QED
    BY <1>1, <1>2, WFMin
<1>4. PICK T \in Bad : \A U \in Bad : ~(<<U, T>> \in R)
  BY <1>3
<1>5. ASSUME NEW U \in SUBSET T, U # T
      PROVE  U \in Good
  <2>1. <<U, T>> \in R
    BY <1>5 DEF StrictSubsetOrdering
  <2> QED
    BY <1>4, <1>5, <2>1
<1> QED
  BY <1>5

-----------------------------------------------------------------------------
(* The recursive function behind SumFunction.                              *)

\* The element that is added last.
Last(s) == CHOOSE x \in s : TRUE

\* g gives every subset of S the sum of f over it, in the order of Last.
Sums(f, g, S) ==
    g = [s \in SUBSET S |->
           IF s = {} THEN 0 ELSE f[Last(s)] + g[s \ {Last(s)}]]

\* SumFunction is the value of such a function.
LEMMA SumIsChosen ==
    ASSUME NEW f
    PROVE  SumFunction(f) = (CHOOSE g : Sums(f, g, DOMAIN f))[DOMAIN f]
BY DEF SumFunction, SumFunctionOnSet, FoldFunctionOnSet, MapThenFoldSet,
   Sums, Last

LEMMA LastMember == ASSUME NEW s, s # {} PROVE Last(s) \in s
BY DEF Last

\* What such a function satisfies.
LEMMA SumsEquation ==
    ASSUME NEW f, NEW g, NEW S, Sums(f, g, S), NEW s \in SUBSET S
    PROVE  /\ s = {} => g[s] = 0
           /\ s # {} => g[s] = f[Last(s)] + g[s \ {Last(s)}]
BY DEF Sums

\* Two such functions agree where both are defined.
LEMMA SumsUnique ==
    ASSUME NEW S, IsFiniteSet(S), NEW f, NEW T, NEW U, NEW g, NEW h,
           Sums(f, g, T), Sums(f, h, U), S \subseteq T, S \subseteq U
    PROVE  \A s \in SUBSET S : g[s] = h[s]
<1> DEFINE Good == {s \in SUBSET S : g[s] = h[s]}
<1>1. ASSUME NEW s \in SUBSET S,
             \A t \in SUBSET s : t # s => t \in Good
      PROVE  s \in Good
  <2>1. s \in SUBSET T /\ s \in SUBSET U
    OBVIOUS
  <2>2. CASE s = {}
    BY <2>1, <2>2, SumsEquation
  <2>3. CASE s # {}
    <3>1. s \ {Last(s)} \in SUBSET s /\ s \ {Last(s)} # s
      BY <2>3, LastMember
    <3>2. g[s \ {Last(s)}] = h[s \ {Last(s)}]
      BY <1>1, <3>1
    <3>3. /\ g[s] = f[Last(s)] + g[s \ {Last(s)}]
          /\ h[s] = f[Last(s)] + h[s \ {Last(s)}]
      BY <2>1, <2>3, SumsEquation
    <3> QED
      BY <3>2, <3>3
  <2> QED
    BY <2>2, <2>3
<1> HIDE DEF Good
<1>2. \A s \in SUBSET S : s \in Good
  BY <1>1, SubsetInduction
<1> QED
  BY <1>2 DEF Good

\* Such a function exists.
LEMMA SumsExist ==
    ASSUME NEW S, IsFiniteSet(S), NEW f
    PROVE  \E g : Sums(f, g, S)
<1> DEFINE Good == {T \in SUBSET S : \E g : Sums(f, g, T)}
<1>1. ASSUME NEW T \in SUBSET S,
             \A U \in SUBSET T : U # T => U \in Good
      PROVE  T \in Good
  <2> DEFINE H(U) == CHOOSE g : Sums(f, g, U)
             V == T \ {Last(T)}
             g == [s \in SUBSET T |->
                     IF s # T THEN H(s)[s]
                     ELSE IF T = {} THEN 0 ELSE f[Last(T)] + H(V)[V]]
  <2>1. ASSUME NEW U \in SUBSET T, U # T
        PROVE  Sums(f, H(U), U)
    BY <1>1, <2>1
  <2>2. IsFiniteSet(T)
    BY FS_Subset
  <2>3. ASSUME NEW s \in SUBSET T
        PROVE  g[s] = IF s = {} THEN 0 ELSE f[Last(s)] + g[s \ {Last(s)}]
    <3> HIDE DEF H
    <3>1. CASE s = {}
      <4>1. CASE T = {}
        BY <3>1, <4>1
      <4>2. CASE T # {}
        <5>1. s # T /\ s \in SUBSET s
          BY <3>1, <4>2
        <5>2. H(s)[s] = 0
          BY <2>1, <3>1, <5>1, SumsEquation
        <5> QED
          BY <3>1, <5>1, <5>2
      <4> QED
        BY <4>1, <4>2
    <3>2. CASE s # {} /\ s = T
      <4>1. V \in SUBSET T /\ V # T
        BY <3>2, LastMember
      <4>2. g[V] = H(V)[V]
        BY <4>1
      <4> QED
        BY <3>2, <4>2
    <3>3. CASE s # {} /\ s # T
      <4> DEFINE r == s \ {Last(s)}
      <4>1. r \in SUBSET s /\ r # s /\ r \in SUBSET T /\ r # T
        BY <3>3, LastMember
      <4>2. IsFiniteSet(r)
        BY <2>2, <4>1, FS_Subset
      <4>3. Sums(f, H(s), s) /\ Sums(f, H(r), r)
        BY <2>1, <3>3, <4>1
      <4>4. H(s)[r] = H(r)[r]
        <5> HIDE DEF r
        <5>1. r \subseteq s /\ r \subseteq r /\ r \in SUBSET r
          BY <4>1
        <5>2. \A t \in SUBSET r : H(s)[t] = H(r)[t]
          BY <4>2, <4>3, <5>1, SumsUnique
        <5> QED
          BY <5>1, <5>2
      <4>5. H(s)[s] = f[Last(s)] + H(s)[r]
        BY <3>3, <4>3, SumsEquation
      <4>6. g[s] = H(s)[s] /\ g[r] = H(r)[r]
        BY <3>3, <4>1
      <4> QED
        BY <3>3, <4>4, <4>5, <4>6
    <3> QED
      BY <3>1, <3>2, <3>3
  <2>4. DOMAIN g = SUBSET T /\ g = [s \in SUBSET T |-> g[s]]
    OBVIOUS
  <2> HIDE DEF g
  <2>5. Sums(f, g, T)
    BY <2>3, <2>4 DEF Sums
  <2> QED
    BY <2>5
<1> HIDE DEF Good
<1>2. \A T \in SUBSET S : T \in Good
  BY <1>1, SubsetInduction
<1> QED
  BY <1>2 DEF Good

\* SumFunction has the value every such function gives the whole domain.
LEMMA SumValue ==
    ASSUME NEW S, IsFiniteSet(S), NEW f, DOMAIN f = S, NEW g, Sums(f, g, S)
    PROVE  SumFunction(f) = g[S]
<1> DEFINE h == CHOOSE c : Sums(f, c, S)
<1>1. Sums(f, h, S)
  BY SumsExist
<1>2. SumFunction(f) = h[S]
  BY SumIsChosen
<1> HIDE DEF h
<1>3. \A s \in SUBSET S : h[s] = g[s]
  BY <1>1, SumsUnique
<1> QED
  BY <1>2, <1>3

-----------------------------------------------------------------------------
(* What a sum over a finite domain is.                                     *)

\* Every partial sum of natural numbers is one.
LEMMA SumsNat ==
    ASSUME NEW S, IsFiniteSet(S), NEW f \in [S -> Nat], NEW g, Sums(f, g, S)
    PROVE  \A s \in SUBSET S : g[s] \in Nat
<1> DEFINE Good == {s \in SUBSET S : g[s] \in Nat}
<1>1. ASSUME NEW s \in SUBSET S,
             \A t \in SUBSET s : t # s => t \in Good
      PROVE  s \in Good
  <2>1. CASE s = {}
    <3>1. g[s] = 0
      BY <2>1, SumsEquation
    <3> QED
      BY <3>1
  <2>2. CASE s # {}
    <3>1. s \ {Last(s)} \in SUBSET s /\ s \ {Last(s)} # s /\ Last(s) \in S
      BY <2>2, LastMember
    <3>2. g[s \ {Last(s)}] \in Nat /\ f[Last(s)] \in Nat
      BY <1>1, <3>1
    <3>3. g[s] = f[Last(s)] + g[s \ {Last(s)}]
      BY <2>2, SumsEquation
    <3> QED
      BY <3>2, <3>3
  <2> QED
    BY <2>1, <2>2
<1> HIDE DEF Good
<1>2. \A s \in SUBSET S : s \in Good
  BY <1>1, SubsetInduction
<1> QED
  BY <1>2 DEF Good

\* Any element may be taken out of a partial sum, not just the last one.
LEMMA SumsRemove ==
    ASSUME NEW S, IsFiniteSet(S), NEW f \in [S -> Nat], NEW g, Sums(f, g, S)
    PROVE  \A s \in SUBSET S : \A x \in s : g[s] = f[x] + g[s \ {x}]
<1> DEFINE Good == {s \in SUBSET S : \A x \in s : g[s] = f[x] + g[s \ {x}]}
<1>1. ASSUME NEW s \in SUBSET S,
             \A t \in SUBSET s : t # s => t \in Good
      PROVE  s \in Good
  <2> SUFFICES ASSUME NEW x \in s
               PROVE  g[s] = f[x] + g[s \ {x}]
    OBVIOUS
  <2> DEFINE y == Last(s)
  <2>1. y \in s
    BY LastMember
  <2>2. g[s] = f[y] + g[s \ {y}]
    BY SumsEquation
  <2> HIDE DEF y
  <2>3. CASE x = y
    BY <2>2, <2>3
  <2>4. CASE x # y
    <3>1. s \ {y} \in Good /\ s \ {x} \in Good
      BY <1>1, <2>1
    <3>2. x \in s \ {y} /\ y \in s \ {x}
      BY <2>1, <2>4
    <3>3. /\ g[s \ {y}] = f[x] + g[(s \ {y}) \ {x}]
          /\ g[s \ {x}] = f[y] + g[(s \ {x}) \ {y}]
      BY <3>1, <3>2
    <3>4. (s \ {y}) \ {x} = (s \ {x}) \ {y}
      OBVIOUS
    <3>5. f[x] \in Nat /\ f[y] \in Nat /\ g[(s \ {x}) \ {y}] \in Nat
      <4>1. \A t \in SUBSET S : g[t] \in Nat
        BY SumsNat
      <4> QED
        BY <2>1, <4>1
    <3>6. /\ g[s] = f[y] + (f[x] + g[(s \ {x}) \ {y}])
          /\ f[x] + g[s \ {x}] = f[x] + (f[y] + g[(s \ {x}) \ {y}])
      BY <2>2, <3>3, <3>4, Zenon
    <3>7. \A i, j, k \in Nat : i + (j + k) = j + (i + k)
      OBVIOUS
    <3> QED
      BY <3>5, <3>6, <3>7
  <2> QED
    BY <2>3, <2>4
<1> HIDE DEF Good
<1>2. \A s \in SUBSET S : s \in Good
  BY <1>1, SubsetInduction
<1> QED
  BY <1>2 DEF Good

\* Partial sums over elements on which two functions agree are equal.
LEMMA SumsAgree ==
    ASSUME NEW S, IsFiniteSet(S), NEW f, NEW h, NEW g, NEW k,
           Sums(f, g, S), Sums(h, k, S), NEW T \in SUBSET S,
           \A x \in T : f[x] = h[x]
    PROVE  g[T] = k[T]
<1> DEFINE Good == {s \in SUBSET T : g[s] = k[s]}
<1>1. ASSUME NEW s \in SUBSET T,
             \A t \in SUBSET s : t # s => t \in Good
      PROVE  s \in Good
  <2>1. CASE s = {}
    BY <2>1, SumsEquation
  <2>2. CASE s # {}
    <3>1. s \ {Last(s)} \in SUBSET s /\ s \ {Last(s)} # s /\ Last(s) \in T
      BY <2>2, LastMember
    <3>2. /\ g[s \ {Last(s)}] = k[s \ {Last(s)}]
          /\ f[Last(s)] = h[Last(s)]
      BY <1>1, <3>1
    <3>3. /\ g[s] = f[Last(s)] + g[s \ {Last(s)}]
          /\ k[s] = h[Last(s)] + k[s \ {Last(s)}]
      BY <2>2, SumsEquation
    <3> QED
      BY <3>2, <3>3
  <2> QED
    BY <2>1, <2>2
<1> HIDE DEF Good
<1>2. IsFiniteSet(T)
  BY FS_Subset
<1>3. \A s \in SUBSET T : s \in Good
  BY <1>1, <1>2, SubsetInduction
<1> QED
  BY <1>3 DEF Good

\* A sum of natural numbers is one, and no summand exceeds it.
LEMMA SumNat ==
    ASSUME NEW S, IsFiniteSet(S), NEW f \in [S -> Nat]
    PROVE  /\ SumFunction(f) \in Nat
           /\ \A x \in S : f[x] <= SumFunction(f)
<1>1. PICK g : Sums(f, g, S)
  BY SumsExist
<1>2. SumFunction(f) = g[S]
  BY <1>1, SumValue
<1>3. \A s \in SUBSET S : g[s] \in Nat
  BY <1>1, SumsNat
<1>4. ASSUME NEW x \in S
      PROVE  f[x] <= SumFunction(f)
  <2>1. g[S] = f[x] + g[S \ {x}]
    BY <1>1, SumsRemove
  <2>2. f[x] \in Nat /\ g[S \ {x}] \in Nat
    BY <1>3
  <2> QED
    BY <1>2, <2>1, <2>2
<1> QED
  BY <1>2, <1>3, <1>4

\* Nothing adds up to nothing.
LEMMA SumZero ==
    ASSUME NEW S, IsFiniteSet(S)
    PROVE  SumFunction([x \in S |-> 0]) = 0
<1> DEFINE f == [x \in S |-> 0]
           g == [s \in SUBSET S |-> 0]
<1>1. ASSUME NEW s \in SUBSET S, s # {}
      PROVE  f[Last(s)] + g[s \ {Last(s)}] = 0
  BY <1>1, LastMember
<1>2. Sums(f, g, S)
  BY <1>1 DEF Sums
<1>3. DOMAIN f = S /\ g[S] = 0
  OBVIOUS
<1> HIDE DEF f, g
<1> QED
  BY <1>2, <1>3, SumValue DEF f

\* Changing one summand changes the sum by as much.
LEMMA SumUpdate ==
    ASSUME NEW S, IsFiniteSet(S), NEW f \in [S -> Nat], NEW x \in S,
           NEW n \in Nat
    PROVE  SumFunction([f EXCEPT ![x] = n]) = (SumFunction(f) - f[x]) + n
<1> DEFINE h == [f EXCEPT ![x] = n]
<1>1. h \in [S -> Nat] /\ h[x] = n /\ \A y \in S \ {x} : h[y] = f[y]
  OBVIOUS
<1> HIDE DEF h
<1>2. PICK g : Sums(f, g, S)
  BY SumsExist
<1>3. PICK k : Sums(h, k, S)
  BY SumsExist
<1>4. SumFunction(f) = g[S] /\ SumFunction(h) = k[S]
  BY <1>1, <1>2, <1>3, SumValue
<1>5. g[S] = f[x] + g[S \ {x}] /\ k[S] = h[x] + k[S \ {x}]
  <2>1. g[S] = f[x] + g[S \ {x}]
    BY <1>2, SumsRemove
  <2>2. k[S] = h[x] + k[S \ {x}]
    BY <1>1, <1>3, SumsRemove
  <2> QED
    BY <2>1, <2>2
<1>6. g[S \ {x}] = k[S \ {x}]
  <2>1. S \ {x} \in SUBSET S /\ \A y \in S \ {x} : f[y] = h[y]
    BY <1>1
  <2> QED
    BY <1>2, <1>3, <2>1, SumsAgree
<1>7. g[S \ {x}] \in Nat /\ f[x] \in Nat
  BY <1>2, SumsNat
<1>8. SumFunction(h) = (SumFunction(f) - f[x]) + n
  BY <1>1, <1>4, <1>5, <1>6, <1>7
<1> QED
  BY <1>8 DEF h

=============================================================================
