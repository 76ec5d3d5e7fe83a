-------------------------- MODULE PostfixEvaluator --------------------------
(***************************************************************************)
(* The processor's PostfixEvaluator: a program is a sequence of tokens, a    *)
(* token a literal, an identifier or an operator.  Values are unsigned and   *)
(* wrap; a program may dereference words of a memory region and assign to    *)
(* the variables of a dictionary.                                            *)
(***************************************************************************)
EXTENDS Integers, Sequences, SequencesExt

CONSTANT Modulus \* 2^w, for the width w of ValueType

Lit(n) == [value |-> n]
Id(s) == [name |-> s]

\* The identifiers that begin with a dollar.
Variables == {"$ip", "$sp", "$fp", "$lr", "$T0"}

Binary == {"+", "-"}
Apply(op, x, y) == IF op = "+" THEN (x + y) % Modulus ELSE (x - y) % Modulus

\* PopValue of what an element of the stack stands for: one value, or none.
ValueOf(dictionary, x) ==
    IF "value" \in DOMAIN x THEN <<x.value>>
    ELSE IF x.name \in DOMAIN dictionary THEN <<dictionary[x.name]>> ELSE <<>>

\* The values of the n topmost elements, or fewer if one has none.
Popped(m, n) ==
    IF Len(m.stack) < n THEN <<>>
    ELSE ValueOf(m.dictionary, m.stack[Len(m.stack) - n + 1])
           \o (IF n = 1 THEN <<>> ELSE ValueOf(m.dictionary, Last(m.stack)))

PushValue(m, n, x) ==
    [m EXCEPT !.stack = Append(SubSeq(@, 1, Len(@) - n), Lit(x))]

Fail(m) == [m EXCEPT !.ok = FALSE]

Operate(m, op) ==
    LET v == Popped(m, 2) IN
    IF Len(v) < 2 THEN Fail(m) ELSE PushValue(m, 2, Apply(op, v[1], v[2]))

Dereference(m, memory) ==
    LET v == Popped(m, 1) IN
    IF v = <<>> \/ (v # <<>> /\ v[1] \notin DOMAIN memory) THEN Fail(m)
    ELSE PushValue(m, 1, memory[v[1]])

\* Only an identifier with a dollar is assigned to.
Assign(m) ==
    LET v == Popped(m, 1)
        left == IF Len(m.stack) < 2 THEN Lit(0) ELSE m.stack[Len(m.stack) - 1]
    IN  IF v = <<>> \/ "name" \notin DOMAIN left THEN Fail(m)
        ELSE IF left.name \notin Variables THEN Fail(m)
        ELSE [m EXCEPT !.stack = SubSeq(@, 1, Len(@) - 2),
                       !.dictionary = [x \in DOMAIN @ \cup {left.name} |->
                                          IF x = left.name THEN v[1] ELSE @[x]],
                       !.assigned = @ \cup {left.name}]

\* EvaluateInternal, token by token until one fails.
EvaluateInternal(program, dictionary, memory) ==
    LET step(m, token) ==
            IF ~m.ok THEN m
            ELSE IF "name" \notin DOMAIN token THEN [m EXCEPT !.stack = Append(@, token)]
            ELSE IF token.name \in Binary THEN Operate(m, token.name)
            ELSE IF token.name = "^" THEN Dereference(m, memory)
            ELSE IF token.name = "=" THEN Assign(m)
            ELSE [m EXCEPT !.stack = Append(@, token)]
    IN  FoldLeft(step, [stack |-> <<>>, dictionary |-> dictionary, assigned |-> {},
                        ok |-> TRUE], program)

\* Evaluate: the dictionary it leaves, what was assigned, and whether it succeeded.
Evaluate(program, dictionary, memory) ==
    LET m == EvaluateInternal(program, dictionary, memory)
    IN  [dictionary |-> m.dictionary, assigned |-> m.assigned, ok |-> m.ok /\ m.stack = <<>>]

\* EvaluateForValue: one value, or none.
EvaluateForValue(program, dictionary, memory) ==
    LET m == EvaluateInternal(program, dictionary, memory)
    IN  IF m.ok /\ Len(m.stack) = 1 THEN ValueOf(m.dictionary, m.stack[1]) ELSE <<>>
=============================================================================
