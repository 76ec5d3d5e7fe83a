----------------------------- MODULE SymbolRules -----------------------------
(***************************************************************************)
(* From DWARF call frame information, through the symbol file, to the rules  *)
(* that a stack walker applies: DwarfCFI, and what the processor finds.      *)
(***************************************************************************)
EXTENDS DwarfCFI, SymbolFile

\* Entries describe code, none of which goes beyond the last address.
ASSUME SymbolRulesAssumption == \A fde \in FDEs : fde.base + fde.size <= Modulus

\* FindCFIFrameInfo, for an address of the module.
RulesFor(a) ==
    LET inits == InitialRules(entries)
        range == Map(inits)!RetrieveRange(a)
    IN  IF range = NotFound THEN Nothing
        ELSE FindCFIFrameInfo(range.entry, DeltaRules(entries), range.base, a)

\* CFIFrameInfo::FindCallerRegs needs the CFA and the return address, and a value for every
\* name that an expression cites: those of the registers, and in the other rules the CFA.
Usable(found) ==
    /\ {CFA, ReturnAddress} \subseteq DOMAIN found
    /\ \A c \in DOMAIN found : found[c][2] \in Registers \cup (IF c = CFA THEN {} ELSE {CFA})

-----------------------------------------------------------------------------
(* Properties *)

\* What a rule of DWARF's means.
Meaning(c, rule) ==
    CASE rule[1] = "same" -> <<"value", c>>
      [] rule[1] = "register" -> <<"value", rule[2]>>
      [] rule[1] = "offset" -> <<"saved", rule[2], rule[3]>>
      [] rule[1] = "sum" -> <<"sum", rule[2], rule[3]>>

\* The rules of a row that the records express as what they mean: not "undefined", nor an
\* expression, nor one that cites the register of the return address, whose name there is
\* ".ra", a value that the walker does not know.
Expressed(c, rule) == Translatable(rule) /\ Translated(c, rule) = Meaning(c, rule)

\* Whenever a walker can use the records for an address, the rules it applies mean what the
\* row of DWARF's table says, and a register that the row has no rule for is unchanged,
\* whatever sequence of instructions described the row, in whatever of several entries; and
\* it can when the row has a CFA, all of its rules can be expressed, and the return address
\* is not restored to a register.
RulesSurvive ==
    at = "idle" => \A a \in DOMAIN table :
        LET row == table[a]
            found == RulesFor(a)
        IN  /\ Usable(found) =>
                  /\ \A c \in DOMAIN row : Translatable(row[c]) => found[c] = Meaning(c, row[c])
                  /\ \A c \in DOMAIN found \ DOMAIN row : found[c] = <<"value", c>>
            /\ /\ CFA \in DOMAIN row /\ \A c \in DOMAIN row : Expressed(c, row[c])
               /\ ReturnAddress \in DOMAIN row
               => Usable(found)
=============================================================================
