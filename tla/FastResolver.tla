---------------------------- MODULE FastResolver ----------------------------
(***************************************************************************)
(* ModuleSerializer lays the maps of a loaded module out in one block of     *)
(* memory, and FastSourceLineResolver finds things in it where they lie:     *)
(* binary search in arrays of keys, offsets in place of pointers.            *)
(*                                                                           *)
(* Memory is a sequence of cells of the size of u_int32_t; an address takes  *)
(* two.  A pointer counts cells from the beginning of the block.             *)
(***************************************************************************)
EXTENDS SymbolFile

CONSTANTS
    Text(_), \* the characters of a string, without its end
    TextEnd  \* the end

AddressSize == 2
Words(a) == <<a, 0>>
String(x) == Text(x) \o <<TextEnd>>

\* A cell, or what happens to lie beyond the block.
Cell(mem, p) == IF p + 1 \in DOMAIN mem THEN mem[p + 1] ELSE 0

\* strlen, and the characters.
Length(mem, p) == Least({k \in 0..Len(mem) : Cell(mem, p + k) = TextEnd} \cup {Len(mem)})
Characters(mem, p) == SubSeq(mem, p + 1, p + Length(mem, p))

-----------------------------------------------------------------------------
(* map_serializers: the number of nodes, the offsets of the values from the beginning of
   the map, the keys, and the values, each in the order of the keys. *)

\* BUG (mutant): the keys are left out.
FirstValueAtKeys(nodes) == 1 + nodes

\* Where the values begin.
FirstValue(nodes) == 1 + nodes * (1 + AddressSize)

SizeOfMap(m, Size(_)) ==
    FirstValue(Cardinality(DOMAIN m)) + MapThenSumSet(LAMBDA k : Size(m[k]), DOMAIN m)

WriteMap(m, Write(_)) ==
    LET keys == SetToSortSeq(DOMAIN m, LAMBDA j, k : j < k)
        values == [i \in DOMAIN keys |-> Write(m[keys[i]])]
        Offset(i) == FirstValue(Len(keys)) + Len(FlattenSeq(SubSeq(values, 1, i - 1)))
    IN  <<Len(keys)>> \o [i \in DOMAIN keys |-> Offset(i)]
          \o FlattenSeq([i \in DOMAIN keys |-> Words(keys[i])]) \o FlattenSeq(values)

\* RangeMapSerializer: each range with its base.
SizeOfRanges(m, Size(_)) == SizeOfMap(m, LAMBDA r : AddressSize + Size(r.entry))
WriteRanges(m, Write(_)) == WriteMap(m, LAMBDA r : Words(r.base) \o Write(r.entry))

\* ContainedRangeMapSerializer: base, size of the entry, entry, and the children.
RECURSIVE SizeOfNode(_)
SizeOfNode(node) ==
    AddressSize + 1 + Len(String(node.entry)) + SizeOfMap(node.map, SizeOfNode)

RECURSIVE WriteNode(_)
WriteNode(node) ==
    Words(node.base) \o <<Len(String(node.entry))>> \o String(node.entry)
      \o WriteMap(node.map, WriteNode)

\* The root has no entry.
SizeOfTree(m) == AddressSize + 1 + SizeOfMap(m, SizeOfNode)
WriteTree(m) == Words(0) \o <<0>> \o WriteMap(m, WriteNode)

\* SimpleSerializer<Line>, <Function>: address, size, file and number; name, address, size,
\* size of the parameters, and the map of the lines.
LineSize == 2 * AddressSize + 2
WriteLine(number) == Words(0) \o Words(0) \o <<0, number>>

SizeOfFunction(f) == Len(Text(f.name)) + 1 + 2 * AddressSize + 1
                     + SizeOfRanges(f.lines, LAMBDA l : LineSize)
WriteFunction(f) == String(f.name) \o Words(f.address) \o Words(f.size) \o <<0>>
                    \o WriteRanges(f.lines, WriteLine)

-----------------------------------------------------------------------------
(* ModuleSerializer: the sizes of the maps, the maps, and a 0.  A module is a record of its
   maps, but for the files, and with one of the maps of Windows frame information; of a
   public symbol and of frame information only the text is kept. *)

Total(sizes) ==
    LET upTo[i \in 0..Len(sizes)] == IF i = 0 THEN 0 ELSE upTo[i - 1] + sizes[i]
    IN  upTo[Len(sizes)]

\* Maps and ranges of strings.
SizeOfStrings(m) == SizeOfMap(m, LAMBDA x : Len(String(x)))
WriteStrings(m) == WriteMap(m, String)
SizeOfStringRanges(m) == SizeOfRanges(m, LAMBDA x : Len(String(x)))
WriteStringRanges(m) == WriteRanges(m, String)

MapSizes(module) ==
    <<SizeOfRanges(module.functions, SizeOfFunction), SizeOfStrings(module.publics),
      SizeOfTree(module.frames), SizeOfStringRanges(module.initial),
      SizeOfStrings(module.deltas)>>

WriteModule(module) ==
    MapSizes(module)
      \o WriteRanges(module.functions, WriteFunction) \o WriteStrings(module.publics)
      \o WriteTree(module.frames) \o WriteStringRanges(module.initial)
      \o WriteStrings(module.deltas) \o <<0>>

\* What is allocated for it.
SizeOfModule(module) == LET sizes == MapSizes(module) IN Len(sizes) + Total(sizes) + 1

\* FastSourceLineResolver's LoadMapFromMemory: where each map begins.
MapAt(mem, i) == 5 + Total(SubSeq(mem, 1, i - 1))

-----------------------------------------------------------------------------
(* StaticMap, at a pointer *)

NodesOf(mem, at) == Cell(mem, at)
KeyAt(mem, at, i) == Cell(mem, at + 1 + NodesOf(mem, at) + AddressSize * i)
ValueAt(mem, at, i) == at + Cell(mem, at + 1 + i)

\* lower_bound and upper_bound as indices, by halves; past is what is added to the index of
\* a key that is found, 0 or 1.
Bound(mem, at, key, past) ==
    LET nodes == NodesOf(mem, at)
        search[begin \in 0..nodes, end \in 0..nodes] ==
            LET middle == begin + (end - begin) \div 2
                other == KeyAt(mem, at, middle)
            IN  IF begin >= end THEN begin
                ELSE IF key = other THEN middle + past
                ELSE IF key < other THEN search[begin, middle]
                ELSE search[middle + 1, end]
    IN  search[0, nodes]

-----------------------------------------------------------------------------
(* StaticRangeMap, StaticAddressMap and StaticContainedRangeMap, at a pointer.  An entry
   found is the pointer to it. *)

RangeAt(mem, at, i) ==
    LET value == ValueAt(mem, at, i)
        base == Cell(mem, value)
    IN  [base |-> base, size |-> KeyAt(mem, at, i) - base + 1, entry |-> value + AddressSize]

StaticRange(mem, at, a) ==
    LET i == Bound(mem, at, a, 0) IN
    IF i = NodesOf(mem, at) \/ a < Cell(mem, ValueAt(mem, at, i)) THEN NotFound
    ELSE RangeAt(mem, at, i)

StaticNearestRange(mem, at, a) ==
    LET i == Bound(mem, at, a, 1) IN
    IF StaticRange(mem, at, a) # NotFound THEN StaticRange(mem, at, a)
    ELSE IF i = 0 THEN NotFound ELSE RangeAt(mem, at, i - 1)

StaticRangeAtIndex(mem, at, i) ==
    IF i >= NodesOf(mem, at) THEN NotFound ELSE RangeAt(mem, at, i)

StaticRetrieve(mem, at, a) ==
    LET i == Bound(mem, at, a, 1) IN
    IF i = 0 THEN NotFound
    ELSE [address |-> KeyAt(mem, at, i - 1), entry |-> ValueAt(mem, at, i - 1)]

\* The map of a node is behind its entry.
ChildrenAt(mem, node) == node + AddressSize + 1 + Cell(mem, node + AddressSize)

RECURSIVE StaticInnermost(_, _, _)
StaticInnermost(mem, node, a) ==
    LET at == ChildrenAt(mem, node)
        i == Bound(mem, at, a, 0)
        child == ValueAt(mem, at, i)
    IN  IF i = NodesOf(mem, at) \/ a < Cell(mem, child) THEN NotFound
        ELSE LET below == StaticInnermost(mem, child, a) IN
             IF below = NotFound THEN <<child + AddressSize + 1>> ELSE below

-----------------------------------------------------------------------------
(* FastSourceLineResolver *)

\* LookupAddress: the function an address is in, and the line; else the nearest public
\* symbol below, unless a function lies in between.  A function is copied from its text.
FastLookupAddress(mem, a) ==
    LET near == StaticNearestRange(mem, MapAt(mem, 1), a)
        symbol == StaticRetrieve(mem, MapAt(mem, 2), a)
        found == near # NotFound /\ a >= near.base /\ a - near.base < near.size
        linesAt == near.entry + Length(mem, near.entry) + 1 + 2 * AddressSize + 1
        at == IF found THEN StaticRange(mem, linesAt, a) ELSE NotFound
    IN  [function |-> IF found THEN Characters(mem, near.entry) ELSE <<>>,
         line |-> IF at = NotFound THEN <<>> ELSE <<Cell(mem, at.entry + LineSize - 1)>>,
         public |-> IF /\ ~found /\ symbol # NotFound
                       /\ near # NotFound => symbol.address > near.base
                    THEN <<symbol.address>> ELSE <<>>]

\* FindCFIFrameInfo: the initial rules, and then the changes from the beginning of their
\* range up to an address, as texts.
FastFindCFIFrameInfo(mem, a) ==
    LET range == StaticRange(mem, MapAt(mem, 4), a)
        at == MapAt(mem, 5)
        from == Bound(mem, at, range.base, 0)
        upTo == {i \in from .. NodesOf(mem, at) - 1 : KeyAt(mem, at, i) <= a}
    IN  IF range = NotFound THEN <<>>
        ELSE <<Characters(mem, range.entry)>>
             \o [i \in 1..Cardinality(upTo) |-> Characters(mem, ValueAt(mem, at, from + i - 1))]

-----------------------------------------------------------------------------
(* What the properties compare.  A module is made from the contents of a RangeMap and of an
   AddressMap: the ranges are functions and initial rules, the addresses begin lines, public
   symbols and changes of rules. *)

LinesFrom(points) ==
    LET starts == SetToSortSeq(DOMAIN points, LAMBDA j, k : j < k)
    IN  [i \in DOMAIN starts |-> [address |-> starts[i], size |-> 1, number |-> starts[i]]]

FunctionsFrom(ranges, points) ==
    [k \in DOMAIN ranges |->
        [base |-> ranges[k].base,
         entry |-> [name |-> ranges[k].entry, address |-> ranges[k].base,
                    size |-> k - ranges[k].base + 1, lines |-> LinesFrom(points)]]]

ModuleOf(ranges, points, tree) ==
    [functions |-> LET functions == FunctionsFrom(ranges, points)
                   IN  [k \in DOMAIN functions |->
                           [functions[k] EXCEPT !.entry.lines = LinesOf(functions[k].entry)]],
     publics |-> points, frames |-> tree, initial |-> ranges, deltas |-> points]

\* "Verify the allocated memory size is equal to the size of data been written."
Fits(module) == Len(WriteModule(module)) = SizeOfModule(module)

\* An answer with a pointer to an entry, and one with the entry.
Same(mem, fast, answer) ==
    IF answer = NotFound THEN fast = NotFound
    ELSE /\ fast # NotFound
         /\ [fast EXCEPT !.entry = Characters(mem, @)] = [answer EXCEPT !.entry = Text(@)]

\* Everything that is found in the block is what the maps say.
ResolversAgree(ranges, points) ==
    LET module == ModuleOf(ranges, points, <<>>)
        mem == WriteModule(module)
        at == MapAt(mem, 4)
        functions == FunctionsFrom(ranges, points)
    IN  /\ Fits(module)
        /\ \A a \in Addresses :
              LET answer == LookupAddress(functions, points, a)
                  range == Map(ranges)!RetrieveRange(a)
                  starts == SetToSortSeq({k \in DOMAIN points : k >= range.base /\ k <= a},
                                         LAMBDA j, k : j < k)
              IN  /\ Same(mem, StaticRange(mem, at, a), range)
                  /\ Same(mem, StaticNearestRange(mem, at, a), Map(ranges)!RetrieveNearestRange(a))
                  /\ Same(mem, StaticRangeAtIndex(mem, at, a), Map(ranges)!RetrieveRangeAtIndex(a))
                  /\ Same(mem, StaticRetrieve(mem, MapAt(mem, 2), a), Map(points)!Retrieve(a))
                  /\ FastLookupAddress(mem, a) =
                       [answer EXCEPT !.function = IF @ = <<>> THEN <<>> ELSE Text(@[1])]
                  /\ FastFindCFIFrameInfo(mem, a) =
                       IF range = NotFound THEN <<>>
                       ELSE <<Text(range.entry)>>
                            \o [i \in DOMAIN starts |-> Text(points[starts[i]])]
=============================================================================
