------------------------------ MODULE Capacity ------------------------------
(***************************************************************************)
(* CapacityAccountant of capacity.hpp and capacity.cpp: byte reservations  *)
(* of owners against a limit per residency location.  Counters are         *)
(* unsigned words, so subtraction and addition are taken modulo WordSize.  *)
(***************************************************************************)
EXTENDS Integers, FiniteSets, Functions

CONSTANTS
    Locations,      \* residency locations
    Owners,         \* those who reserve (instance ids in the coordinator)
    WordSize        \* number of values of a counter (2^64 in the code)

VARIABLES
    limits,         \* limits_: location -> bytes
    used,           \* used_: location -> bytes
    held            \* held_: location -> owner -> bytes, 0 when absent

capacityVars == <<limits, used, held>>

Words == 0..(WordSize - 1)

ASSUME WordAssumption == WordSize \in Nat \ {0}

ASSUME OwnersAssumption == IsFiniteSet(Owners)

CapacityTypeOK ==
    /\ limits \in [Locations -> Words]
    /\ used \in [Locations -> Words]
    /\ held \in [Locations -> [Owners -> Words]]

\* CapacityAccountant(limits): nothing is held under the given limits.
CapacityInit(initial) ==
    /\ limits = initial
    /\ used = [l \in Locations |-> 0]
    /\ held = [l \in Locations |-> [o \in Owners |-> 0]]

\* The value an unsigned counter takes.
Wrapped(x) == x % WordSize

\* Fault: reserve() without the double-reservation check.
CanReserveTwice(l, n, o) == n <= Wrapped(limits[l] - used[l])

\* Fault: reserve() that compares with the limit and not with what is left.
CanReserveUpToLimit(l, n, o) ==
    /\ held[l][o] = 0
    /\ n <= limits[l]

\* reserve() does not throw.  The difference wraps when used exceeds limit.
CanReserve(l, n, o) ==
    /\ held[l][o] = 0
    /\ n <= Wrapped(limits[l] - used[l])

Reserve(l, n, o) ==
    /\ CanReserve(l, n, o)
    /\ held' = [held EXCEPT ![l][o] = n]
    /\ used' = [used EXCEPT ![l] = Wrapped(@ + n)]
    /\ UNCHANGED limits

\* Fault: release() without the underflow check.
CanReleaseAnything(l, n, o) == held[l][o] # 0

\* release() does not throw.
CanRelease(l, n, o) ==
    /\ held[l][o] # 0
    /\ n <= held[l][o]

Release(l, n, o) ==
    /\ CanRelease(l, n, o)
    /\ held' = [held EXCEPT ![l][o] = @ - n]
    /\ used' = [used EXCEPT ![l] = Wrapped(@ - n)]
    /\ UNCHANGED limits

\* adjust(): a reservation or a release by the sign of delta.
Adjust(l, delta, o) ==
    IF delta >= 0 THEN Reserve(l, delta, o) ELSE Release(l, -delta, o)

SetLimit(l, n) ==
    /\ limits' = [limits EXCEPT ![l] = n]
    /\ UNCHANGED <<used, held>>

CapacityNext ==
    \E l \in Locations :
      \/ \E n \in Words, o \in Owners : Reserve(l, n, o)
      \/ \E n \in Words, o \in Owners : Release(l, n, o)
      \/ \E n \in Words, o \in Owners : Adjust(l, n, o) \/ Adjust(l, -n, o)
      \/ \E n \in Words : SetLimit(l, n)

CapacitySpec ==
    /\ \E initial \in [Locations -> Words] : CapacityInit(initial)
    /\ [][CapacityNext]_capacityVars

-----------------------------------------------------------------------------
\* What the owners hold at a location, counted without a limit of width.
Held(l) == SumFunction(held[l])

\* Conservation: the bytes in use at a location are, up to the width of the
\* counter, exactly what its owners hold, however reservations, partial
\* releases and limit changes interleave.
UsageConserved == \A l \in Locations : used[l] = Wrapped(Held(l))

\* The books of a location are sound: what its owners hold has not wrapped
\* around the counter and fits the limit.
BooksSound(l) == used[l] = Held(l) /\ Held(l) <= limits[l]

\* No overcommit, no leak and return to baseline: no reservation, release,
\* adjustment or change of a limit makes sound books unsound, except for a
\* set_limit below the current usage; reserve then computes limit - used modulo
\* the word and lets the counter wrap.
SoundBooksStaySound ==
    [][\A l \in Locations :
         BooksSound(l) /\ used[l] <= limits'[l] => BooksSound(l)']_capacityVars

=============================================================================
