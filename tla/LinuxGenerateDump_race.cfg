\* A crash while another thread is in WriteMinidump.
SPECIFICATION FairSpec
CONSTANTS
    Threads = {a, b}
    Crashers = {a}
    Callers = {b}
    NumFds = 8
    Yama = TRUE
    CloneMayFail = FALSE
    OtherStatus = 1
    Overlap = TRUE
    FirstFdes <- NoDescriptor
    MaxDumps = 2
    MaxOpens = 0
    MaxDeaths = 0
PROPERTIES CrashReturns
CHECK_DEADLOCK FALSE
