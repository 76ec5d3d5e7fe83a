----------------------------- MODULE OrderedMap -----------------------------
(***************************************************************************)
(* What the processor's maps share: addresses, which are unsigned and wrap,  *)
(* and std::map, a function from some of them that knows their order.        *)
(***************************************************************************)
EXTENDS Integers

CONSTANTS
    Modulus, \* 2^w, for the width w of AddressType
    Entries, \* EntryType
    MaxStores \* bound: calls of StoreRange, Store or Clear

ASSUME OrderedMapAssumption == Modulus \in Nat \ {0} /\ MaxStores \in Nat

Addresses == 0 .. Modulus - 1
End == Modulus      \* map_.end(), above every key
NotFound == <<>>    \* false

Least(S) == CHOOSE x \in S : \A y \in S : x <= y
Greatest(S) == CHOOSE x \in S : \A y \in S : x >= y
LowerBound(m, a) == Least({k \in DOMAIN m : k >= a} \cup {End})
UpperBound(m, a) == Least({k \in DOMAIN m : k > a} \cup {End})

\* std::map::insert, which leaves a key that is there alone.
Insert(m, k, v) == [x \in DOMAIN m \cup {k} |-> IF x \in DOMAIN m THEN m[x] ELSE v]

\* The highest address of a range; the addition may wrap.
High(base, size) == (base + size - 1) % Modulus

\* The addresses of a range that a map should have kept, which does not wrap.
Extent(r) == r.base .. r.base + r.size - 1
=============================================================================
