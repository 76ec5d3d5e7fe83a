-------------------------- MODULE ContainedRangeMap --------------------------
(***************************************************************************)
(* The processor's ContainedRangeMap: ranges that may contain each other but *)
(* not overlap otherwise, kept as a tree.  A node holds its children under   *)
(* their highest addresses; a range is stored below the smallest that        *)
(* contains it, and takes over the children it contains.                     *)
(***************************************************************************)
EXTENDS OrderedMap, FiniteSets, TLC

VARIABLES
    root,   \* the map_ of the outermost object: highest address -> child
    ranges, \* history: the ranges a store should have kept
    stores

vars == <<root, ranges, stores>>

Init == root = <<>> /\ ranges = {} /\ stores = 0

\* The elements of a map under some of its keys.
Part(m, S) == [k \in DOMAIN m \cap S |-> m[k]]

\* BUG (mutant): the end of the new range is not compared.
CrossesAtBase(m, base, high) ==
    LET b == LowerBound(m, base) IN b # End /\ base > m[b].base

\* A new range partly in a child: it begins in one, or ends in one that goes on.
Crosses(m, base, high) ==
    LET b == LowerBound(m, base)
        h == LowerBound(m, high)
    IN  \/ b # End /\ base > m[b].base
        \/ h # End /\ high >= m[h].base /\ high < h

\* BUG (mutant): the child at the high end is left where it is.
StoredKeepingLast(m, base, high, entry) ==
    LET over == {k \in DOMAIN m : k >= LowerBound(m, base) /\ k < LowerBound(m, high)}
    IN  (high :> [base |-> base, entry |-> entry, map |-> Part(m, over)])
          @@ Part(m, DOMAIN m \ over)

\* A node m with the new range as its child, and over it the children it contains.
Stored(m, base, high, entry) ==
    LET h == LowerBound(m, high)
        over == {k \in DOMAIN m : /\ k >= LowerBound(m, base)
                                  /\ k < h \/ (k = h /\ high >= m[h].base)}
    IN  (high :> [base |-> base, entry |-> entry, map |-> Part(m, over)])
          @@ Part(m, DOMAIN m \ over)

RECURSIVE StoreRange(_, _, _, _)
StoreRange(m, base, size, entry) ==
    LET high == High(base, size)
        b == LowerBound(m, base)
        inside == b = LowerBound(m, high) /\ b # End /\ base >= m[b].base
    IN  IF size <= 0 \/ high < base THEN m
        ELSE IF inside
        THEN IF m[b].base = base /\ b = high THEN m
             ELSE [m EXCEPT ![b].map = StoreRange(@, base, size, entry)]
        ELSE IF Crosses(m, base, high) THEN m
        ELSE Stored(m, base, high, entry)

RECURSIVE RetrieveRange(_, _)
RetrieveRange(m, a) ==
    LET key == LowerBound(m, a) IN
    IF key = End \/ a < m[key].base THEN NotFound
    ELSE LET below == RetrieveRange(m[key].map, a) IN
         IF below = NotFound THEN <<m[key].entry>> ELSE below

Clear == root' = <<>>

-----------------------------------------------------------------------------

\* Apart, or one strictly in the other.
Nest(q, r) ==
    \/ Extent(q) \cap Extent(r) = {}
    \/ Extent(q) # Extent(r) /\ (Extent(q) \subseteq Extent(r) \/ Extent(r) \subseteq Extent(q))

Keeps(r) ==
    r.size > 0 /\ r.base + r.size <= Modulus /\ \A q \in ranges : Nest(q, r)

Next ==
    \/ /\ stores < MaxStores /\ stores' = stores + 1
       /\ \E base, size \in Addresses, entry \in Entries :
            LET r == [base |-> base, size |-> size, entry |-> entry] IN
            /\ root' = StoreRange(root, base, size, entry)
            /\ ranges' = IF Keeps(r) THEN ranges \cup {r} ELSE ranges
    \/ Clear /\ ranges' = {} /\ UNCHANGED stores

Spec == Init /\ [][Next]_vars

-----------------------------------------------------------------------------
(* Properties *)

\* "Pass the new range on to the child"; "a more-specific descendant": in whatever
\* order the ranges came, an address is answered with the entry of the smallest range
\* kept that it is in; so a store also refuses exactly what would cross or repeat one.
InnermostAnswers ==
    \A a \in Addresses :
        LET in == {r \in ranges : a \in Extent(r)} IN
        RetrieveRange(root, a) =
            IF in = {} THEN NotFound
            ELSE <<(CHOOSE r \in in : \A q \in in : Extent(r) \subseteq Extent(q)).entry>>
=============================================================================
