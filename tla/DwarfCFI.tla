------------------------------ MODULE DwarfCFI ------------------------------
(***************************************************************************)
(* DWARF call frame information and its way into a symbol file.              *)
(* CallFrameInfo runs the instructions of an entry (first its CIE's, then    *)
(* those of the FDE) and reports every change of a register's rule;          *)
(* DwarfCFIToModule collects the reports as an initial set of rules and the  *)
(* changes at later addresses, which is what STACK CFI records hold.         *)
(***************************************************************************)
EXTENDS Integers, Sequences

CONSTANTS
    Registers,     \* columns of the table of rules
    ReturnAddress, \* the one of the return address
    Offsets,       \* operands of instructions
    Kinds,         \* of the rules that instructions set for registers
    FDEs,          \* what FDEs may cover, as base and size
    MaxInstructions, \* bound: instructions, all entries together
    Overrun        \* may an entry's instructions go on to addresses beyond it?

CFA == ".cfa" \* Handler::kCFARegister, a column like the others in a set of rules

ASSUME DwarfCFIAssumption ==
    /\ ReturnAddress \in Registers /\ {CFA, ".ra"} \cap Registers = {}
    /\ FDEs \subseteq [base : Nat, size : Nat] /\ MaxInstructions \in Nat

VARIABLES
    at,       \* what runs: "idle", between entries, "cie" or "fde"
    entry,    \* base and size of the current FDE
    address,  \* State's address_
    rules,    \* rules_: column -> rule
    cieRules, \* cie_rules_
    saved,    \* saved_rules_
    initial,  \* the StackFrameEntry: initial_rules, column -> expression
    changes,  \* rule_changes, address -> (column -> expression)
    entries,  \* the module's stack_frame_entries_
    table,    \* history: address -> the rules of its row in the table DWARF describes
    steps

reader == <<at, entry, address, rules, cieRules, saved>>
translator == <<initial, changes, entries>>
cfiVars == <<reader, translator, table, steps>>

Nothing == [c \in {} |-> <<>>]
Override(f, g) == [x \in DOMAIN f \cup DOMAIN g |-> IF x \in DOMAIN g THEN g[x] ELSE f[x]]
One(c, rule) == [d \in {c} |-> rule]
Latest(S) == CHOOSE x \in S : \A y \in S : x >= y
Top(s) == s[Len(s)]

CFIInit ==
    /\ at = "idle" /\ entry = [base |-> 0, size |-> 0] /\ address = 0
    /\ rules = Nothing /\ cieRules = Nothing /\ saved = <<>>
    /\ initial = Nothing /\ changes = Nothing /\ entries = <<>>
    /\ table = Nothing /\ steps = 0

-----------------------------------------------------------------------------
(* DwarfCFIToModule *)

\* The return address has a name of its own, which the processor knows no value of.
RegisterName(c) == IF c = ReturnAddress THEN ".ra" ELSE c

Same == <<"same">>

\* "Undefined" and DWARF expressions are reported to the user, and nothing else.
Translatable(rule) == rule[1] \notin {"undefined", "expression"}

\* The postfix expression of a rule for column c: a value, a saved value, a sum.
Translated(c, rule) ==
    CASE rule[1] = "same" -> <<"value", RegisterName(c)>>
      [] rule[1] = "register" -> <<"value", RegisterName(rule[2])>>
      [] rule[1] = "offset" -> <<"saved", RegisterName(rule[2]), rule[3]>>
      [] rule[1] = "sum" -> <<"sum", RegisterName(rule[2]), rule[3]>>

\* Record, for the columns of the partial function reported.
Record(reported) ==
    LET columns == {c \in DOMAIN reported : Translatable(reported[c])}
        said == [c \in columns |-> Translated(c, reported[c])]
    IN  IF address = entry.base
        THEN initial' = Override(initial, said) /\ UNCHANGED changes
        ELSE /\ changes' = IF columns = {} THEN changes
                           ELSE Override(changes, One(address,
                                  IF address \in DOMAIN changes
                                  THEN Override(changes[address], said) ELSE said))
             /\ UNCHANGED initial

\* BUG (mutant): rules without a change at the base are taken from the last entry.
EntryKeepsRules ==
    /\ at = "idle"
    /\ \E fde \in FDEs :
         /\ \A i \in 1..Len(entries) : entries[i].base + entries[i].size <= fde.base
         /\ entry' = fde /\ address' = fde.base
    /\ at' = "cie" /\ saved' = <<>>
    /\ initial' = One(ReturnAddress, <<"value", ReturnAddress>>) /\ changes' = Nothing
    /\ UNCHANGED <<rules, cieRules, entries, table, steps>>

\* CallFrameInfo::Start comes to an FDE and asks Entry, which wants them all and
\* begins with the rule that the return address is in its register.
Entry ==
    /\ at = "idle"
    /\ \E fde \in FDEs :
         /\ \A i \in 1..Len(entries) : entries[i].base + entries[i].size <= fde.base
         /\ entry' = fde /\ address' = fde.base
    /\ at' = "cie" /\ rules' = Nothing /\ cieRules' = Nothing /\ saved' = <<>>
    /\ initial' = One(ReturnAddress, <<"value", ReturnAddress>>) /\ changes' = Nothing
    /\ UNCHANGED <<entries, table, steps>>

EndEntry ==
    /\ entries' = Append(entries, [base |-> entry.base, size |-> entry.size,
                                   initial |-> initial, changes |-> changes])
    /\ at' = "idle"
    /\ UNCHANGED <<entry, address, rules, cieRules, saved, initial, changes, steps>>

-----------------------------------------------------------------------------
(* CallFrameInfo::State *)

\* The row of the table is complete for every address up to the next.
RowsUpTo(next) ==
    table' = Override(table, [a \in {b \in address .. next - 1 : b < entry.base + entry.size}
                                |-> rules])

\* DW_CFA_advance_loc* and DW_CFA_set_loc; a table's rows are in order.
Advance ==
    \E next \in UNION {fde.base .. fde.base + fde.size : fde \in FDEs} :
        /\ address < next
        /\ Overrun \/ next < entry.base + entry.size
        /\ address' = next /\ RowsUpTo(next)
        /\ UNCHANGED <<at, entry, rules, cieRules, saved, translator>>

\* DoRule, and the same for the CFA: every rule that is set is reported.
DoRule(c, rule) ==
    /\ rules' = Override(rules, One(c, rule)) /\ Record(One(c, rule))
    /\ UNCHANGED <<at, entry, address, cieRules, saved, entries, table>>

HasCFA == CFA \in DOMAIN rules

\* SetBaseRegister and SetOffset do nothing to an expression, which is reported again.
DefCFA ==
    \/ \E r \in Registers, n \in Offsets : DoRule(CFA, <<"sum", r, n>>)
    \/ DoRule(CFA, <<"expression">>)
    \/ /\ HasCFA
       /\ \/ rules[CFA][1] = "expression" /\ DoRule(CFA, rules[CFA])
          \/ /\ rules[CFA][1] = "sum"
             /\ \/ \E r \in Registers : DoRule(CFA, <<"sum", r, rules[CFA][3]>>)
                \/ \E n \in Offsets : DoRule(CFA, <<"sum", rules[CFA][2], n>>)

RegisterRules ==
    {<<"undefined">>, Same, <<"expression">>} \cup {<<"register", r>> : r \in Registers}
    \cup (IF HasCFA THEN {<<kind, CFA, n>> : kind \in {"offset", "sum"}, n \in Offsets} ELSE {})

SetRule == \E r \in Registers, rule \in RegisterRules : rule[1] \in Kinds /\ DoRule(r, rule)

\* A register that the CIE has no rule for is taken to be unchanged.
DoRestore ==
    /\ at = "fde"
    /\ \E r \in Registers : DoRule(r, IF r \in DOMAIN cieRules THEN cieRules[r] ELSE Same)

RememberState ==
    /\ saved' = Append(saved, rules)
    /\ UNCHANGED <<at, entry, address, rules, cieRules, translator, table>>

\* BUG (mutant): registers without a rule in the new set keep what was said of them.
TransitionToCommon(new) ==
    [c \in {d \in DOMAIN rules : d \in DOMAIN new /\ new[d] # rules[d]} |-> new[c]]

\* RuleMap::HandleTransitionTo: what differs is reported, what is no longer there as
\* unchanged.  "NEW_RULES has entry ..., but this RuleMap doesn't.  This shouldn't be
\* possible".
TransitionTo(new) ==
    [c \in {d \in DOMAIN rules : d \notin DOMAIN new \/ new[d] # rules[d]} |->
        IF c \in DOMAIN new THEN new[c] ELSE Same]

RestoreState ==
    /\ saved # <<>> /\ (HasCFA => CFA \in DOMAIN Top(saved))
    /\ Record(TransitionTo(Top(saved)))
    /\ rules' = Top(saved)
    /\ saved' = SubSeq(saved, 1, Len(saved) - 1)
    /\ UNCHANGED <<at, entry, address, cieRules, entries, table>>

DoInstruction ==
    /\ at \in {"cie", "fde"}
    /\ steps < MaxInstructions /\ steps' = steps + 1
    /\ Advance \/ DefCFA \/ SetRule \/ DoRestore \/ RememberState \/ RestoreState

\* The end of InterpretCIE.
CIEEnds ==
    /\ at = "cie" /\ at' = "fde" /\ cieRules' = rules
    /\ UNCHANGED <<entry, address, rules, saved, translator, table, steps>>

\* The end of InterpretFDE.
FDEEnds == at = "fde" /\ RowsUpTo(entry.base + entry.size) /\ EndEntry

\* An instruction that is incomplete, unknown or lacks what it needs: what was
\* reported of the entry stays.
Fails == at \in {"cie", "fde"} /\ EndEntry /\ UNCHANGED table

CFINext == Entry \/ DoInstruction \/ CIEEnds \/ FDEEnds \/ Fails

CFISpec == CFIInit /\ [][CFINext]_cfiVars

-----------------------------------------------------------------------------
(* What a reader of the records finds *)

\* BUG (mutant): the changes at the address itself are left out.
FindCFIFrameInfoBefore(first, deltas, base, a) ==
    LET upTo(c) == {b \in DOMAIN deltas : b >= base /\ b < a /\ c \in DOMAIN deltas[b]}
        columns == DOMAIN first
                   \cup UNION {DOMAIN deltas[b] : b \in {d \in DOMAIN deltas : d >= base /\ d < a}}
    IN  [c \in columns |-> IF upTo(c) = {} THEN first[c] ELSE deltas[Latest(upTo(c))][c]]

\* BasicSourceLineResolver's FindCFIFrameInfo: the initial rules, and on top of them
\* the changes from the beginning of their range up to an address, in order.
FindCFIFrameInfo(first, deltas, base, a) ==
    LET upTo(c) == {b \in DOMAIN deltas : b >= base /\ b <= a /\ c \in DOMAIN deltas[b]}
        columns == DOMAIN first
                   \cup UNION {DOMAIN deltas[b] : b \in {d \in DOMAIN deltas : d >= base /\ d <= a}}
    IN  [c \in columns |-> IF upTo(c) = {} THEN first[c] ELSE deltas[Latest(upTo(c))][c]]

-----------------------------------------------------------------------------
(* Properties *)

Columns == Registers \cup {CFA}
Rules == {<<"same">>, <<"undefined">>, <<"expression">>}
         \cup {<<"register", r>> : r \in Registers}
         \cup {<<kind, c, n>> : kind \in {"offset", "sum"}, c \in Columns, n \in Offsets}
RuleMaps == UNION {[C -> Rules] : C \in SUBSET Columns}

CFITypeOK ==
    /\ at \in {"idle", "cie", "fde"}
    /\ entry.base \in Nat /\ entry.size \in Nat /\ address \in Nat
    /\ rules \in RuleMaps /\ cieRules \in RuleMaps /\ saved \in Seq(RuleMaps)
    /\ DOMAIN initial \subseteq Columns /\ DOMAIN changes \subseteq Nat
    /\ \A a \in DOMAIN changes : DOMAIN changes[a] \subseteq Columns
    /\ steps \in Nat

\* HandleTransitionTo asserts that "there's no way to remove entries" between a state
\* and one saved before, and would loop for ever on one that had more: every saved set
\* has a rule only where those saved later, and the current one, have.
SavedAreSmaller ==
    /\ \A i, j \in 1..Len(saved) : i <= j => DOMAIN saved[i] \subseteq DOMAIN saved[j]
    /\ \A i \in 1..Len(saved) : DOMAIN saved[i] \subseteq DOMAIN rules

\* What the records say of the current address are the rules the interpreter has, as far as
\* they can be said at all, and of the columns it has no rule for, that they are
\* unchanged: nothing is reported too seldom, in particular by
\* DW_CFA_restore_state, which changes many rules at once.
ReportsKeepUp ==
    at # "idle" =>
        LET found == FindCFIFrameInfo(initial, changes, entry.base, address) IN
        /\ \A c \in DOMAIN rules : Translatable(rules[c]) =>
              c \in DOMAIN found /\ found[c] = Translated(c, rules[c])
        /\ \A c \in DOMAIN found \ DOMAIN rules :
              found[c] \in {Translated(c, Same), <<"value", ReturnAddress>>}
=============================================================================
