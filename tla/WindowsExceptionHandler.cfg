SPECIFICATION FairSpec
CONSTANTS
    t1 = t1
    t2 = t2
    h1 = h1
    h2 = h2
    Threads = {t1, t2}
    Owner = t1
    Handlers = {h1, h2}
    Types <- AllTypes
    Original <- AppFilter
    Piped = {h1}
    DebugHandlers = {h1}
    FaultKinds = {"exception", "breakpoint", "iph"}
    Writers = {t1}
    Lifo = TRUE
    MaxFaults = 2
    MaxWrites = 1
INVARIANTS FiltersAgree OwnVerdict
PROPERTIES DeclinedByAll HandlingEnds
CHECK_DEADLOCK FALSE
