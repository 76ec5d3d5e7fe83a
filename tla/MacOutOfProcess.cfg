SPECIFICATION Spec
CONSTANTS
    t1 = t1
    t2 = t2
    h1 = h1
    h2 = h2
    Threads = {t1, t2}
    Owner = t1
    Handlers = {h1, h2}
    Installing = {h1, h2}
    Remote = {h2}
    Original = {"outer"}
    Lifo = TRUE
    MaxFaults = 1
    MaxWrites = 2
    MaxChildren = 1
    QueueLimit = 1
    MayDie = FALSE
INVARIANTS PortsAgree
PROPERTIES ResultIsTrue
CHECK_DEADLOCK FALSE
