SPECIFICATION FairSpec
CONSTANTS
    t1 = t1
    t2 = t2
    h1 = h1
    h2 = h2
    Threads = {t1, t2}
    Owner = t1
    Handlers = {h1, h2}
    Installing = {h1, h2}
    Remote = {h2}
    Original = {"outer"}
    Lifo = TRUE
    MaxFaults = 1
    MaxWrites = 1
    MaxChildren = 0
    QueueLimit = 1
    MayDie = TRUE
PROPERTIES WriteReturns CrashEnds
CHECK_DEADLOCK FALSE
