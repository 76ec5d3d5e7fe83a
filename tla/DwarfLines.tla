----------------------------- MODULE DwarfLines -----------------------------
(***************************************************************************)
(* DWARF line numbers and functions, and their way into a symbol file.       *)
(* LineInfo turns the rows of a line number program into lines with a        *)
(* length, DwarfLineToModule drops those of code that the linker has dropped, *)
(* and DwarfCUToModule hands each function the lines it covers.              *)
(***************************************************************************)
EXTENDS SymbolFile

CONSTANTS
    MaxRows,     \* bound: rows of the line number program
    MaxFunctions \* bound: functions of the compilation unit

ASSUME DwarfLinesAssumption == MaxRows \in Nat /\ MaxFunctions \in Nat

VARIABLES
    phase,     \* "rows", "functions", "assign", "done", or "aborted" by an assertion
    row,       \* the row whose length is not known yet; none is <<>>
    omitted,   \* omitted_line_end_
    lines,     \* lines_ of the compilation unit
    functions, \* its functions, each with its lines
    func,      \* func_it and line_it, as positions
    line,
    current,
    program    \* history: what the rows say, line by line

lineVars == <<phase, row, omitted, lines, functions, func, line, current, program>>

LinesInit ==
    /\ phase = "rows" /\ row = <<>> /\ omitted = 0 /\ lines = <<>>
    /\ functions = <<>> /\ func = 0 /\ line = 0 /\ current = 0 /\ program = <<>>

-----------------------------------------------------------------------------
(* LineInfo::ReadLines and DwarfLineToModule::AddLine *)

\* A line of length 0 is none; one must not wrap; code at address 0, and what follows it
\* without a gap, has been dropped by the linker.
AddLine(address, length, number) ==
    LET size == IF (address + length) % Modulus < address THEN Modulus - address ELSE length
        drop == address = 0 \/ address = omitted
    IN  IF length = 0 THEN UNCHANGED <<lines, omitted>>
        ELSE /\ omitted' = IF drop THEN (address + size) % Modulus ELSE 0
             /\ lines' = IF drop THEN lines
                         ELSE Append(lines, [address |-> address, size |-> size,
                                             number |-> number])

\* A row gives its predecessor in the sequence a length; its own is known at the next
\* row, or at the end of the sequence.  In a sequence addresses do not decrease; the end
\* may be that of the address space.
ReadLines ==
    /\ phase = "rows"
    /\ \E a \in 0..Modulus, ends \in BOOLEAN :
         /\ IF row = <<>> THEN ~ends ELSE a >= row[1]
         /\ ~ends => Len(program) < MaxRows /\ a < Modulus
         /\ IF row = <<>> THEN UNCHANGED <<lines, omitted>>
            ELSE AddLine(row[1], (a - row[1]) % Modulus, Len(program))
         /\ row' = IF ends THEN <<>> ELSE <<a>>
         /\ program' = LET known == IF row = <<>> THEN program
                                    ELSE [program EXCEPT ![Len(program)].end = a]
                       IN  IF ends THEN known ELSE Append(known, [address |-> a, end |-> a])
    /\ UNCHANGED <<phase, functions, func, line, current>>

-----------------------------------------------------------------------------
(* DwarfCUToModule::AssignLinesToFunctions *)

Sorted(s) == \A i, j \in DOMAIN s : i < j => s[i].address <= s[j].address

\* FuncHandler::Finish has kept the functions that end above where they begin.
Functions == {f \in [address : Addresses, size : 1 .. Modulus - 1] : f.address + f.size < Modulus}

\* Both are put in order; a sort may leave equals in any.
SortBoth ==
    /\ phase = "rows" /\ row = <<>> /\ phase' = "assign"
    /\ \E n \in 0..MaxFunctions : \E fs \in [1..n -> Functions] :
         /\ Sorted(fs)
         /\ functions' = [i \in 1..n |-> [address |-> fs[i].address, size |-> fs[i].size,
                                          name |-> i, lines |-> <<>>]]
    /\ \E order \in Bijection(DOMAIN lines, DOMAIN lines) :
         /\ lines' = [i \in DOMAIN lines |-> lines[order[i]]]
         /\ Sorted(lines')
    /\ func' = 1 /\ line' = 1
    /\ current' = Least({functions'[i].address : i \in DOMAIN functions'}
                        \cup {lines'[i].address : i \in DOMAIN lines'} \cup {End})
    /\ UNCHANGED <<row, omitted, program>>

Within(item, a) == (a - item.address) % Modulus < item.size

\* The first item from i on that contains or starts after an address.
Skip(items, i, a) ==
    Least({j \in i .. Len(items) : a < items[j].address \/ Within(items[j], a)}
          \cup {Len(items) + 1})

Begun(items, i) == i <= Len(items) /\ current >= items[i].address
EndOf(item) == (item.address + item.size) % Modulus
Left(item) == (item.size - (current - item.address)) % Modulus

\* BUG (mutant): a line that begins inside a function is not waited for.
NextTransitionOfFunction ==
    LET f == functions[func]
        l == lines[line]
    IN  IF Begun(functions, func)
        THEN IF Begun(lines, line) THEN (current + Least({Left(f), Left(l)})) % Modulus
             ELSE EndOf(f)
        ELSE IF Begun(lines, line)
             THEN IF func <= Len(functions) /\ Within(l, f.address) THEN f.address ELSE EndOf(l)
             ELSE Least({functions[i].address : i \in {func} \cap DOMAIN functions}
                        \cup {lines[i].address : i \in {line} \cap DOMAIN lines})

\* Where it first changes whether the address is in a function or in a line.
NextTransition ==
    LET f == functions[func]
        l == lines[line]
    IN  IF Begun(functions, func)
        THEN IF Begun(lines, line) THEN (current + Least({Left(f), Left(l)})) % Modulus
             ELSE IF line <= Len(lines) /\ Within(f, l.address) THEN l.address ELSE EndOf(f)
        ELSE IF Begun(lines, line)
             THEN IF func <= Len(functions) /\ Within(l, f.address) THEN f.address ELSE EndOf(l)
             ELSE Least({functions[i].address : i \in {func} \cap DOMAIN functions}
                        \cup {lines[i].address : i \in {line} \cap DOMAIN lines})

\* "Assert the first invariant": neither iterator is at something that has ended.
FirstInvariant ==
    /\ Begun(functions, func) => Within(functions[func], current)
    /\ Begun(lines, line) => Within(lines[line], current)

\* One round of the loop.  A transition to 0 is the end of the address space.
AssignLines ==
    /\ phase = "assign" /\ (func <= Len(functions) \/ line <= Len(lines))
    /\ FirstInvariant
    /\ LET next == NextTransition IN
         /\ functions' = IF Begun(functions, func) /\ Begun(lines, line)
                         THEN [functions EXCEPT ![func].lines = Append(@,
                                 [address |-> current, size |-> (next - current) % Modulus,
                                  number |-> lines[line].number])]
                         ELSE functions
         /\ IF next = 0 THEN phase' = "done" /\ UNCHANGED <<func, line, current>>
            ELSE /\ func' = Skip(functions, func, next)
                 /\ line' = Skip(lines, line, next)
                 /\ phase' = IF next > current THEN "assign" ELSE "aborted"
                 /\ current' = next
    /\ UNCHANGED <<row, omitted, lines, program>>

AssertionFails == /\ phase = "assign" /\ (func <= Len(functions) \/ line <= Len(lines))
                  /\ ~FirstInvariant /\ phase' = "aborted"
                  /\ UNCHANGED <<row, omitted, lines, functions, func, line, current, program>>

Finish == /\ phase = "assign" /\ func > Len(functions) /\ line > Len(lines)
          /\ phase' = "done"
          /\ UNCHANGED <<row, omitted, lines, functions, func, line, current, program>>

LinesNext == ReadLines \/ SortBoth \/ AssignLines \/ AssertionFails \/ Finish

LinesSpec == LinesInit /\ [][LinesNext]_lineVars

-----------------------------------------------------------------------------
(* Properties *)

\* What rows and functions say, when neither overlap.
RowsAt(a) == {i \in DOMAIN program : program[i].address <= a /\ a < program[i].end}
FunctionsAt(a) == {i \in DOMAIN functions : /\ functions[i].address <= a
                                            /\ a < functions[i].address + functions[i].size}
WellFormed == \A a \in Addresses : Cardinality(RowsAt(a)) <= 1 /\ Cardinality(FunctionsAt(a)) <= 1

\* "If a line starts immediately after an omitted line, omit it too."
MayBeDropped(a) == \A b \in 0..a : RowsAt(b) # {}

Answers(functionMap, publicMap, a, public) ==
    LET found == LookupAddress(functionMap, publicMap, a)
        between == {i \in DOMAIN functions : functions[i].address \in public..a}
    IN  IF FunctionsAt(a) # {}
        THEN /\ \A i \in FunctionsAt(a) : found.function = <<functions[i].name>>
             /\ IF found.line = <<>> THEN RowsAt(a) = {} \/ MayBeDropped(a)
                ELSE found.line[1] \in RowsAt(a)
             /\ found.public = <<>>
        ELSE /\ found.function = <<>> /\ found.line = <<>>
             /\ found.public = IF public # 0 /\ public <= a /\ between = {}
                               THEN <<public>> ELSE <<>>

\* The passage through both programs: the processor finds for every address the function
\* and the line that the DWARF data give it, and in no function the public symbol below,
\* whatever the gaps and overhangs of lines and functions.  When they
\* overlap, "we don't worry too much about what result we produce in that case, just as
\* long as we don't hang or crash": no assertion of the pass fails.
LinesSurvive ==
    /\ phase # "aborted"
    /\ phase = "done" /\ WellFormed =>
         LET functionMap == FunctionsOf(functions)
         IN  \A public \in Addresses :
               LET publicMap == PublicsOf({public})
               IN  \A a \in Addresses : Answers(functionMap, publicMap, a, public)
=============================================================================
