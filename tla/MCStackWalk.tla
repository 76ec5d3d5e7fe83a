----------------------------- MODULE MCStackWalk -----------------------------
EXTENDS StackWalk

F(kind, params, locals, saved, module) ==
    [kind |-> kind, params |-> params, locals |-> locals, saved |-> saved, module |-> module]

\* Functions of each kind, padding at the end of the modules, two modules.
MCCode ==
    [c \in {"x86", "amd64", "arm"} |->
        CASE c = "x86" ->
               <<F("fp", 1, 1, 0, "exe"), F("ebp", 1, 0, 2, "exe"), F("esp", 0, 1, 1, "exe"),
                 F("pad", 0, 0, 0, "exe"), F("fp", 0, 0, 0, "lib"), F("data", 0, 1, 0, "lib"),
                 F("cfi", 0, 1, 0, "lib"), F("pad", 0, 0, 0, "lib")>>
          [] c = "amd64" ->
               <<F("cfi", 0, 1, 0, "exe"), F("cfifp", 0, 1, 0, "exe"), F("pad", 0, 0, 0, "exe"),
                 F("cfi", 0, 0, 0, "lib"), F("pad", 0, 0, 0, "lib")>>
          [] c = "arm" ->
               <<F("cfi", 0, 1, 0, "exe"), F("cfifp", 0, 0, 0, "exe"), F("pad", 0, 0, 0, "exe"),
                 F("leaf", 0, 0, 0, "lib"), F("pad", 0, 0, 0, "lib")>>]

\* Nothing, a return address, and an address on the stack.
MCGarbage == {4, 112}
=============================================================================
