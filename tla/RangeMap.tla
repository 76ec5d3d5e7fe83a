------------------------------ MODULE RangeMap ------------------------------
(***************************************************************************)
(* The processor's RangeMap and AddressMap.  A RangeMap keeps ranges that    *)
(* may not overlap, each under its highest address, and finds the one an     *)
(* address is in or above; an AddressMap keeps addresses, and finds the      *)
(* highest not above one.  Addresses are unsigned and wrap.                  *)
(***************************************************************************)
EXTENDS OrderedMap, FiniteSets

VARIABLES
    map,      \* RangeMap's map_: highest address -> base and entry
    points,   \* AddressMap's map_: address -> entry
    ranges,   \* history: the ranges a store should have kept
    marks,    \* history: the addresses, likewise
    stores

mapVars == <<map, points, ranges, marks, stores>>

MapInit == map = <<>> /\ points = <<>> /\ ranges = {} /\ marks = {} /\ stores = 0

-----------------------------------------------------------------------------
(* RangeMap *)

\* BUG (mutant): a range above that begins in the new one is not seen.
RefusesBelow(base, size) ==
    LET high == High(base, size) IN
    \/ size <= 0 \/ high < base
    \/ LowerBound(map, base) # LowerBound(map, high)

\* Empty or wrapping ranges, and those that overlap another.
Refuses(base, size) ==
    LET high == High(base, size)
        above == LowerBound(map, high)
    IN  \/ size <= 0 \/ high < base
        \/ LowerBound(map, base) # above
        \/ above # End /\ map[above].base <= high

StoreRange(base, size, value) ==
    /\ map' = IF Refuses(base, size) THEN map
              ELSE Insert(map, High(base, size), [base |-> base, entry |-> value])
    /\ UNCHANGED points

At(key) == [base |-> map[key].base, size |-> key - map[key].base + 1,
            entry |-> map[key].entry]

RetrieveRange(a) ==
    LET key == LowerBound(map, a) IN
    IF key = End \/ a < map[key].base THEN NotFound ELSE At(key)

\* upper_bound, and one back, unless that is the beginning.
RetrieveNearestRange(a) ==
    IF RetrieveRange(a) # NotFound THEN RetrieveRange(a)
    ELSE LET before == {k \in DOMAIN map : k < UpperBound(map, a)} IN
         IF before = {} THEN NotFound ELSE At(Greatest(before))

RetrieveRangeAtIndex(index) ==
    IF index >= Cardinality(DOMAIN map) THEN NotFound
    ELSE At(CHOOSE k \in DOMAIN map : Cardinality({j \in DOMAIN map : j < k}) = index)

-----------------------------------------------------------------------------
(* AddressMap *)

Store(a, value) ==
    /\ points' = Insert(points, a, value)
    /\ UNCHANGED map

Retrieve(a) ==
    LET before == {k \in DOMAIN points : k < UpperBound(points, a)} IN
    IF before = {} THEN NotFound
    ELSE [address |-> Greatest(before), entry |-> points[Greatest(before)]]

\* Clear, of either map.
Clear == map' = <<>> /\ points' = <<>>

-----------------------------------------------------------------------------
(* Any calls; the history keeps what the first of several conflicting calls put in. *)

Keeps(r) ==
    /\ r.size > 0 /\ r.base + r.size <= Modulus
    /\ \A q \in ranges : Extent(q) \cap Extent(r) = {}

MapNext ==
    /\ stores < MaxStores /\ stores' = stores + 1
    /\ \/ \E base, size \in Addresses, value \in Entries :
            LET r == [base |-> base, size |-> size, entry |-> value] IN
            /\ StoreRange(base, size, value)
            /\ ranges' = IF Keeps(r) THEN ranges \cup {r} ELSE ranges
            /\ UNCHANGED marks
       \/ \E a \in Addresses, value \in Entries :
            /\ Store(a, value)
            /\ marks' = IF \E m \in marks : m.address = a THEN marks
                        ELSE marks \cup {[address |-> a, entry |-> value]}
            /\ UNCHANGED ranges
       \/ Clear /\ ranges' = {} /\ marks' = {}

MapSpec == MapInit /\ [][MapNext]_mapVars

-----------------------------------------------------------------------------
(* Properties *)

\* The ranges below an address that end last.
Nearest(a) == {r \in ranges : /\ r.base + r.size <= a
                              /\ \A q \in ranges : q.base + q.size <= a => q.base <= r.base}

\* What a set of ranges that do not overlap would answer: the range an address is in,
\* and the nearest below when it is in none.
RangesAnswer(a) ==
    LET in == {r \in ranges : a \in Extent(r)} IN
    /\ RetrieveRange(a) \in IF in = {} THEN {NotFound} ELSE in
    /\ RetrieveNearestRange(a) \in IF in # {} THEN in
                                   ELSE IF Nearest(a) # {} THEN Nearest(a) ELSE {NotFound}

\* What a set of addresses would answer: the highest not above one.
MarksAnswer(a) ==
    LET below == {m \in marks : m.address <= a} IN
    Retrieve(a) \in IF below = {} THEN {NotFound}
                    ELSE {m \in below : \A n \in below : n.address <= m.address}

\* The ranges by index, from the lowest address up.
IndexAgrees ==
    LET indices == 0 .. Cardinality(DOMAIN map) - 1 IN
    /\ {RetrieveRangeAtIndex(i) : i \in indices} = ranges
    /\ \A i, j \in indices : i < j => RetrieveRangeAtIndex(i).base < RetrieveRangeAtIndex(j).base

\* Every lookup by address answers as the sets of the ranges and addresses that should
\* have been kept would, so a store also refuses what it should and nothing else.
AddressesAgree == \A a \in Addresses : RangesAnswer(a) /\ MarksAnswer(a)

\* Every lookup does.
LookupsAgree == AddressesAgree /\ IndexAgrees
=============================================================================
