----------------------------- MODULE SymbolFile -----------------------------
(***************************************************************************)
(* What the processor makes of a symbol file: BasicSourceLineResolver loads   *)
(* the records that Module has written into maps, and looks addresses up.    *)
(***************************************************************************)
EXTENDS OrderedMap, SequencesExt

\* RangeMap and AddressMap, on any contents.
Map(m) == INSTANCE RangeMap WITH map <- m, points <- m, ranges <- {}, marks <- {}, stores <- 0

StoredRange(m, base, size, value) ==
    IF Map(m)!Refuses(base, size) THEN m
    ELSE Insert(m, High(base, size), [base |-> base, entry |-> value])

\* FUNC records and the line records below them.
LinesOf(f) == FoldLeft(LAMBDA m, l : StoredRange(m, l.address, l.size, l.number), <<>>, f.lines)
FunctionsOf(file) == FoldLeft(LAMBDA m, f : StoredRange(m, f.address, f.size, f), <<>>, file)

\* PUBLIC records, but for those at address 0.
PublicsOf(addresses) == [a \in addresses \ {0} |-> a]

\* STACK CFI INIT and STACK CFI records of the entries; of several changes at one
\* address, in different entries, the last counts.
InitialRules(entries) ==
    FoldLeft(LAMBDA m, e : StoredRange(m, e.base, e.size, e.initial), <<>>, entries)
DeltaRules(entries) ==
    FoldLeft(LAMBDA m, e : [a \in DOMAIN m \cup DOMAIN e.changes |->
                               IF a \in DOMAIN e.changes THEN e.changes[a] ELSE m[a]],
             <<>>, entries)

\* BUG (mutant): a public symbol is found also beyond a function that lies in between.
LookupAddressPastFunctions(functionMap, publicMap, a) ==
    LET near == Map(functionMap)!RetrieveNearestRange(a)
        symbol == Map(publicMap)!Retrieve(a)
        found == near # NotFound /\ a >= near.base /\ a - near.base < near.size
        at == IF found THEN Map(LinesOf(near.entry))!RetrieveRange(a) ELSE NotFound
    IN  [function |-> IF found THEN <<near.entry.name>> ELSE <<>>,
         line |-> IF at = NotFound THEN <<>> ELSE <<at.entry>>,
         public |-> IF ~found /\ symbol # NotFound THEN <<symbol.address>> ELSE <<>>]

\* LookupAddress: the function an address is in, and the line; else the nearest public
\* symbol below, unless a function lies in between.
LookupAddress(functionMap, publicMap, a) ==
    LET near == Map(functionMap)!RetrieveNearestRange(a)
        symbol == Map(publicMap)!Retrieve(a)
        found == near # NotFound /\ a >= near.base /\ a - near.base < near.size
        at == IF found THEN Map(LinesOf(near.entry))!RetrieveRange(a) ELSE NotFound
    IN  [function |-> IF found THEN <<near.entry.name>> ELSE <<>>,
         line |-> IF at = NotFound THEN <<>> ELSE <<at.entry>>,
         public |-> IF /\ ~found /\ symbol # NotFound
                       /\ near # NotFound => symbol.address > near.base
                    THEN <<symbol.address>> ELSE <<>>]
=============================================================================
