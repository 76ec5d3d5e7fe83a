------------------------------ MODULE StackWalk ------------------------------
(***************************************************************************)
(* The processor's stack walkers.  First a thread of the crashing program    *)
(* runs: functions of several kinds call each other and leave frames in its  *)
(* memory.  Then Stackwalker::Walk finds the callers, with what the symbol   *)
(* files say of the functions, by the frame pointer, or by scanning.         *)
(***************************************************************************)
EXTENDS SymbolLoading, PostfixEvaluator

CONSTANTS
    Cpus,     \* those of "x86", "amd64", "arm" to try
    Code,     \* per CPU: its functions, in the order of their addresses
    StackTop, \* the address of the first return address on the stack
    Garbage,  \* what locals, arguments and saved registers may hold
    MaxCalls, \* bound: functions on the stack
    MaxWork,  \* bound: those, walks, INTERRUPTs and the program's loads together
    MaxFrames,    \* max_frames_
    ScanWords     \* kRASearchWords

VARIABLES
    cpu,
    memory,  \* the stack: address -> word
    regs,    \* the registers at the crash, "$ip", "$sp", "$fp" and, on ARM, "$lr"
    calls,   \* history: functions on the stack, outermost first, each with the stack
             \* pointer at its call
    pc,      \* "run", or the place in Walk
    stack,   \* stack->frames_, innermost first: valid registers, instruction, trust
    frame,   \* the frame at hand: <<>> or one
    noSymbols, \* no_symbol_modules_
    scan,    \* ScanForReturnAddress: where it is, where it ends, and what for
    walks, interrupts \* how often the thread was processed, and the supplier gave up

thread == <<cpu, memory, regs, calls>>
walking == <<pc, stack, frame, noSymbols, scan>>
vars == <<loading, thread, walking, walks, interrupts>>

MoreWork == Len(calls) + walks + interrupts + loads < MaxWork

-----------------------------------------------------------------------------
(* Code: the n-th function is at 2n and 2n + 1, and calls others from its end, so
   that the return address is the next one's. *)

Functions == Code[cpu]
W == IF cpu = "amd64" THEN 8 ELSE 4

ModuleAt(a) == IF a \div 2 \in DOMAIN Functions THEN Functions[a \div 2].module ELSE "none"
FunctionAt(a) == Functions[a \div 2]
InFunction(a) == FunctionAt(a).kind # "pad"

\* What the prologue leaves below the arguments, from the highest address down.
Prologue(f, ra, g, fp) ==
    LET local == [k \in 1 .. f.locals |-> g]
        saved == [k \in 1 .. f.saved |-> IF k = 2 THEN fp ELSE g]
    IN  CASE f.kind \in {"fp", "data", "cfi", "cfifp"} -> <<ra, fp>> \o local
          [] f.kind = "ebp" -> <<ra>> \o local \o saved
          [] f.kind = "esp" -> <<ra>> \o local \o [k \in 1 .. f.saved |-> g]
          [] f.kind = "leaf" -> <<>>  \* the return address stays in a register

\* The frame pointer: of the new frame, used for something else, or untouched.
FramePointer(f, args, g) ==
    CASE f.kind \in {"fp", "data", "cfifp"} -> args - 2 * W
      [] f.kind \in {"ebp", "cfi"} -> g
      [] f.kind \in {"esp", "leaf"} -> regs["$fp"]

\* A function is called, from the end of the one on top, or by the system.
Call(n, g) ==
    LET f == Functions[n]
        ra == IF calls = <<>> THEN 0 ELSE 2 * Last(calls).n + 2
        args == regs["$sp"] - W * f.params
        words == [k \in 1 .. f.params |-> g] \o Prologue(f, ra, g, regs["$fp"])
        sp == regs["$sp"] - W * Len(words)
    IN  /\ memory' = [a \in DOMAIN memory \cup {regs["$sp"] - W * k : k \in 1 .. Len(words)} |->
                         IF a \in DOMAIN memory THEN memory[a]
                         ELSE words[(regs["$sp"] - a) \div W]]
        /\ regs' = [r \in DOMAIN regs |->
                       CASE r = "$sp" -> sp [] r = "$fp" -> FramePointer(f, args, g)
                         [] r = "$lr" -> ra [] r = "$ip" -> 2 * n]
        /\ calls' = IF calls = <<>> THEN <<[n |-> n, sp |-> sp]>>
                    ELSE Append([calls EXCEPT ![Len(calls)].sp = args], [n |-> n, sp |-> sp])

Registers == IF cpu = "arm" THEN {"$ip", "$sp", "$fp", "$lr"} ELSE {"$ip", "$sp", "$fp"}

Init ==
    /\ LoadingInit
    /\ cpu \in Cpus
    /\ memory = <<>> /\ calls = <<>>
    /\ regs = [r \in Registers |-> IF r = "$sp" THEN StackTop + W ELSE 0]
    /\ pc = "run" /\ stack = <<>> /\ frame = <<>> /\ noSymbols = {} /\ scan = <<>>
    /\ walks = 0 /\ interrupts = 0

\* Calls of the code this CPU has; one that passes arguments on the stack is made
\* by a function whose rules know of it.
Run ==
    /\ pc = "run" /\ Len(calls) < MaxCalls
    /\ \E n \in DOMAIN Functions, g \in Garbage :
         /\ InFunction(2 * n)
         /\ calls = <<>> => Functions[n].params = 0 /\ Functions[n].kind # "leaf"
         /\ calls # <<>> =>
              LET caller == Functions[Last(calls).n] IN
              /\ caller.kind # "leaf"
              /\ caller.kind = "cfi" => Functions[n].params = 0
         /\ Call(n, g)
    /\ UNCHANGED <<loading, cpu, walking, walks, interrupts>>

Crash ==
    /\ pc = "run" /\ calls # <<>> /\ pc' = "idle"
    /\ Provide
    /\ UNCHANGED <<thread, stack, frame, noSymbols, scan, walks, interrupts>>

-----------------------------------------------------------------------------
(* Walk *)

Goto(l) == pc' = l

\* MinidumpProcessor makes a walker for the thread; GetContextFrame.
Begin ==
    /\ pc = "idle" /\ MoreWork /\ walks' = walks + 1
    /\ Goto("frame") /\ stack' = <<>> /\ noSymbols' = {} /\ scan' = <<>>
    /\ frame' = <<[regs |-> regs, instruction |-> regs["$ip"], trust |-> "context"]>>
    /\ UNCHANGED <<loading, thread, interrupts>>

Module == ModuleAt(frame[1].instruction)
Asks == Module # "none" /\ ~HasModule(Module) /\ Module \notin noSymbols

\* The module of the frame at hand has no symbols yet: they are asked for.
Resolve ==
    /\ pc = "frame" /\ Asks
    /\ \/ /\ symbols[Module] # "missing" /\ FetchForWalk(Module)
          /\ Goto("push") /\ UNCHANGED <<noSymbols, frame, interrupts>>
       \/ /\ symbols[Module] = "missing" /\ NothingForWalk(Module)
          /\ noSymbols' = noSymbols \cup {Module}
          /\ Goto("push") /\ UNCHANGED <<frame, interrupts>>
       \/ /\ MoreWork /\ interrupts' = interrupts + 1
          /\ Goto("interrupted") /\ frame' = <<>>
          /\ UNCHANGED <<loading, noSymbols>>
    /\ UNCHANGED <<thread, stack, scan, walks>>

\* FillSourceLineInfo, and the frame is added to the stack.
AddFrame ==
    /\ pc = "push" \/ (pc = "frame" /\ ~Asks)
    /\ stack' = Append(stack, frame[1])
    /\ Goto(IF Len(stack') > MaxFrames THEN "done" ELSE "caller")
    /\ frame' = <<>>
    /\ UNCHANGED <<loading, thread, noSymbols, scan, walks, interrupts>>

-----------------------------------------------------------------------------
(* GetCallerFrame *)

Callee == Last(stack)
HasInfo(f) == ModuleAt(f.instruction) \in DOMAIN loaded
Function == FunctionAt(Callee.instruction)
WindowsInfo == HasInfo(Callee) /\ Function.kind \in {"data", "ebp", "esp"}
CfiInfo == HasInfo(Callee) /\ Function.kind \in {"cfi", "cfifp", "leaf"}

\* A new frame, unless it is the end of the stack: no return address, or a stack
\* pointer that does not advance.
Accept(r, trust) ==
    LET old == Callee.regs["$sp"]
        ends == \/ r["$ip"] = 0
                \/ IF cpu = "arm" THEN r["$sp"] < old ELSE r["$sp"] <= old
    IN  /\ Goto(IF ends THEN "done" ELSE "frame")
        /\ frame' = IF ends THEN <<>>
                    ELSE <<[regs |-> r, instruction |-> r["$ip"] - 1, trust |-> trust]>>

\* ScanForReturnAddress, from an address, for the sake of one of its callers, and
\* with the registers so far.
StartScan(from, why, dictionary) ==
    /\ Goto("scan")
    /\ scan' = [at |-> from, end |-> from + ScanWords * W, why |-> why, from |-> from,
                dictionary |-> dictionary]
    /\ UNCHANGED frame

\* BUG (mutant): the function's own arguments, not those it passed.
CalleeParameterSizeOwn == IF HasInfo(Callee) THEN W * Function.params ELSE 0

\* The size of the arguments of the callee's callee, as far as it is known.
CalleeParameterSize ==
    IF Len(stack) < 2 THEN 0
    ELSE LET f == stack[Len(stack) - 1] IN
         IF HasInfo(f) THEN W * FunctionAt(f.instruction).params ELSE 0

RaSearchStart == Callee.regs["$sp"] + CalleeParameterSize
                   + W * (Function.locals + Function.saved)

Dictionary ==
    [x \in {"$fp", "$sp", ".cbCalleeParams", ".cbSavedRegs", ".raSearchStart"} |->
        CASE x = ".cbCalleeParams" -> CalleeParameterSize
          [] x = ".cbSavedRegs" -> W * Function.saved
          [] x = ".raSearchStart" -> RaSearchStart
          [] OTHER -> Callee.regs[x]]

\* The program string of the debugging information, or else one made up.
ProgramString ==
    CASE Function.kind = "data" ->
           <<Id("$T0"), Id("$fp"), Id("="), Id("$ip"), Id("$T0"), Lit(4), Id("+"), Id("^"), Id("="),
             Id("$fp"), Id("$T0"), Id("^"), Id("="), Id("$sp"), Id("$T0"), Lit(8), Id("+"), Id("=")>>
      [] Function.kind = "ebp" ->
           <<Id("$ip"), Id(".raSearchStart"), Id("^"), Id("="),
             Id("$fp"), Id("$sp"), Id(".cbCalleeParams"), Id("+"), Id(".cbSavedRegs"), Id("+"),
             Lit(8), Id("-"), Id("^"), Id("="),
             Id("$sp"), Id(".raSearchStart"), Lit(4), Id("+"), Id("=")>>
      [] Function.kind = "esp" ->
           <<Id("$ip"), Id(".raSearchStart"), Id("^"), Id("="),
             Id("$sp"), Id(".raSearchStart"), Lit(4), Id("+"), Id("=")>>

\* A frame pointer that does not point into the stack is looked for from the highest
\* place where it may have been saved down, as far as there is memory.
Recover(d, offset) ==
    LET low == Callee.regs["$sp"] + CalleeParameterSize
        places == {low + W * k : k \in 0 .. Function.saved + offset}
        good == {p \in places : /\ \A q \in places : q >= p => q \in DOMAIN memory
                                /\ memory[p] \in DOMAIN memory}
    IN  IF Function.kind = "esp" \/ d["$fp"] \in DOMAIN memory \/ good = {} THEN d
        ELSE [d EXCEPT !["$fp"] = memory[Max(good)]]

\* The frame that the dictionary stands for.
AcceptWindows(d, offset, trust) ==
    LET e == IF d["$ip"] # 0 \/ d["$fp"] # 0 THEN Recover(d, offset) ELSE d
    IN  Accept([r \in {"$ip", "$sp", "$fp"} |-> e[r]], trust)

GetCallerByWindowsFrameInfo ==
    LET result == Evaluate(ProgramString, Dictionary, memory)
        d == result.dictionary
    IN  IF ~result.ok \/ ~({"$ip", "$sp"} \subseteq result.assigned)
        THEN StartScan(Callee.regs["$sp"], "instead", d)
        ELSE IF (d["$ip"] # 0 \/ d["$fp"] # 0) /\ ModuleAt(d["$ip"]) = "none"
        THEN StartScan(RaSearchStart + W, "better", d)
        ELSE AcceptWindows(d, 0, "cfi") /\ UNCHANGED scan

\* The rules a symbol file gives for a function, and the registers they name.
Rules ==
    LET size == W * (Function.locals + 2)
        below(k) == <<Id(".cfa"), Lit(k * W), Id("-"), Id("^")>>
    IN  CASE Function.kind = "cfi" ->
               [cfa |-> <<Id("$sp"), Lit(size), Id("+")>>, ra |-> below(1), fp |-> below(2)]
          [] Function.kind = "cfifp" ->
               [cfa |-> <<Id("$fp"), Lit(2 * W), Id("+")>>, ra |-> below(1), fp |-> below(2)]
          [] Function.kind = "leaf" ->
               [cfa |-> <<Id("$sp")>>, ra |-> <<Id("$lr")>>]

\* FindCallerRegs and what a walker makes of it: the registers recovered, those that
\* a function saves for its caller and the rules do not name, or none.
FindCallerRegisters ==
    LET known == Callee.regs
        cfa == EvaluateForValue(Rules.cfa, known, memory)
        working == [x \in DOMAIN known \cup {".cfa"} |-> IF x = ".cfa" THEN cfa[1] ELSE known[x]]
        value(rule) == EvaluateForValue(rule, working, memory)
        saves == "fp" \in DOMAIN Rules
    IN  IF cfa = <<>> THEN <<>>
        ELSE IF value(Rules.ra) = <<>> \/ (saves /\ value(Rules.fp) = <<>>) THEN <<>>
        ELSE LET valid == {"$ip", "$sp"} \cup (IF saves THEN {"$fp"} ELSE DOMAIN known \cap {"$fp"})
             IN  <<[r \in valid |-> CASE r = "$ip" -> value(Rules.ra)[1]
                                      [] r = "$sp" -> cfa[1]
                                      [] r = "$fp" -> IF saves THEN value(Rules.fp)[1]
                                                      ELSE known["$fp"]]>>

Essentials == IF cpu = "x86" THEN {"$ip", "$sp", "$fp"} ELSE {"$ip", "$sp"}

\* BUG (mutant): the return address is taken to be at the frame pointer.
EBPAtBaseSwapped ==
    LET fp == Callee.regs["$fp"] IN
    IF {fp, fp + W} \subseteq DOMAIN memory
    THEN /\ Accept([r \in {"$ip", "$sp", "$fp"} |->
                       CASE r = "$ip" -> memory[fp + W] [] r = "$sp" -> fp + W
                         [] r = "$fp" -> memory[fp]], "fp")
         /\ UNCHANGED scan
    ELSE StartScan(Callee.regs["$sp"], "base", Callee.regs)

GetCallerByEBPAtBase ==
    LET fp == Callee.regs["$fp"] IN
    IF {fp, fp + W} \subseteq DOMAIN memory
    THEN /\ Accept([r \in {"$ip", "$sp", "$fp"} |->
                       CASE r = "$ip" -> memory[fp + W] [] r = "$sp" -> fp + 2 * W
                         [] r = "$fp" -> memory[fp]], "fp")
         /\ UNCHANGED scan
    ELSE StartScan(Callee.regs["$sp"], "base", Callee.regs)

GetCallerByStackScan == StartScan(Callee.regs["$sp"], "stack", Callee.regs)

\* Each way is tried after the one before it found nothing.
GetCallerFrame ==
    LET cfi == IF CfiInfo THEN FindCallerRegisters ELSE <<>>
        recovered == cfi # <<>> /\ (cfi # <<>> => Essentials \subseteq DOMAIN cfi[1])
    IN  /\ pc = "caller"
        /\ IF cpu = "x86" /\ WindowsInfo THEN GetCallerByWindowsFrameInfo
           ELSE IF recovered THEN Accept(cfi[1], "cfi") /\ UNCHANGED scan
           ELSE IF cpu = "x86" THEN GetCallerByEBPAtBase
           ELSE GetCallerByStackScan
        /\ UNCHANGED <<loading, thread, stack, noSymbols, walks, interrupts>>

\* A return address was found.
Found ==
    LET d == ("$ip" :> memory[scan.at] @@ "$sp" :> scan.at + W) @@ scan.dictionary IN
    CASE scan.why = "better" -> AcceptWindows(d, (scan.at - scan.from) \div W, "cfi scan")
      [] scan.why = "instead" -> AcceptWindows(d, 0, "scan")
      [] scan.why = "base" -> Accept(d, "scan")
      [] scan.why = "stack" -> Accept([r \in {"$ip", "$sp"} |-> d[r]], "scan")

\* Nothing was: the value that was to be replaced stays, the next way is tried, or
\* the walk is over.
NotFoundAtAll ==
    CASE scan.why = "better" -> AcceptWindows(scan.dictionary, 0, "cfi") /\ scan' = <<>>
      [] scan.why = "instead" -> GetCallerByEBPAtBase
      [] scan.why \in {"base", "stack"} -> Goto("done") /\ scan' = <<>> /\ UNCHANGED frame

\* One word: is it an instruction address in a module and, when symbols are there or
\* can be loaded, in a function?
Scan ==
    LET word == memory[scan.at]
        m == ModuleAt(word)
        next == Goto("scan") /\ scan' = [scan EXCEPT !.at = @ + W] /\ UNCHANGED frame
        found == Found /\ scan' = <<>>
    IN  /\ pc = "scan"
        /\ IF scan.at > scan.end \/ scan.at \notin DOMAIN memory
           THEN NotFoundAtAll /\ UNCHANGED <<loading, interrupts>>
           ELSE IF m = "none" THEN next /\ UNCHANGED <<loading, interrupts>>
           ELSE IF HasModule(m)
           THEN (IF InFunction(word) THEN found ELSE next) /\ UNCHANGED <<loading, interrupts>>
           ELSE \/ /\ symbols[m] # "missing" /\ FetchForScan(m) /\ UNCHANGED interrupts
                   /\ IF Loads(m) /\ ~InFunction(word) THEN next ELSE found
                \/ /\ symbols[m] = "missing" /\ UNCHANGED <<loading, interrupts>> /\ found
                \/ /\ MoreWork /\ interrupts' = interrupts + 1
                   /\ found /\ UNCHANGED loading
        /\ UNCHANGED <<thread, stack, noSymbols, walks>>

\* The stack is the program's, which may load and unload symbols and process again.
Return ==
    /\ pc \in {"done", "interrupted"} /\ Goto("idle")
    /\ UNCHANGED <<loading, thread, stack, frame, noSymbols, scan, walks, interrupts>>

Manage ==
    /\ pc = "idle" /\ MoreWork /\ ProgramLoads
    /\ UNCHANGED <<thread, walking, walks, interrupts>>

Next ==
    \/ Run \/ Crash \/ Begin \/ Resolve \/ AddFrame \/ GetCallerFrame \/ Scan \/ Return \/ Manage

Spec == Init /\ [][Next]_vars

-----------------------------------------------------------------------------
(* Properties *)

\* The i-th function from the innermost on the stack, and its frame as it was.
FromInside(i) == calls[Len(calls) + 1 - i]

Good(n) == symbols[Functions[n].module] = "good"

\* What is known of a function suffices to find its caller: it keeps the frame pointer
\* on x86, or there are symbols for it and, where its frame is measured from the stack
\* pointer, for the size of the arguments below it.
Suffices(i) ==
    LET f == Functions[FromInside(i).n] IN
    \/ cpu = "x86" /\ f.kind \in {"fp", "data"}
    \/ /\ Good(FromInside(i).n)
       /\ f.kind \in {"ebp", "esp"} /\ i > 1 =>
            \/ Functions[FromInside(i - 1).n].params = 0
            \/ Good(FromInside(i - 1).n)

\* As long as what is known suffices, the walk finds the callers that there are: the
\* right functions with the right stack pointers, and no other behind the outermost,
\* whatever locals and arguments hold, and in every order in which the symbols come
\* to be loaded.
WalkFindsTheCallers ==
    pc = "done" =>
        \A i \in 1 .. Len(calls) + 1 :
            (\A j \in 1 .. i - 1 : Suffices(j)) /\ i <= MaxFrames + 1 =>
                IF i > Len(calls) THEN Len(stack) = Len(calls)
                ELSE /\ i <= Len(stack)
                     /\ stack[i].instruction \div 2 = FromInside(i).n
                     /\ stack[i].regs["$sp"] = FromInside(i).sp
=============================================================================
