\* Two threads, two handlers destroyed in reverse order, faults and a sent signal.
SPECIFICATION FairSpec
CONSTANTS
    Threads = {t1, t2}
    Owner = t1
    Handlers = {h1, h2}
    Installing = {h1, h2}
    Signals <- MCSignals
    SigSegv = "SEGV"
    Lifo = TRUE
    MaxFaults = 2
    MaxSent = 1
INVARIANTS HandlerLives InstalledHandlerAsked DispositionsRestored
PROPERTIES CrashTerminates
CHECK_DEADLOCK FALSE
