\* Two clients, a forked child, a client killed, the server restarted.
SPECIFICATION Spec
CONSTANTS
    Clients = {c1, c2}
    Kinds = {"good", "size", "form", "fds"}
    AdjacentInodes = TRUE
    MaxStarts = 2
    MaxForks = 1
    MaxKills = 1
INVARIANTS AckMeansDump HeldWhileDumped DumpedTheRequester NoFdLeak
PROPERTIES ImplementsOutOfProcessDump
SYMMETRY Symmetry
CHECK_DEADLOCK FALSE
