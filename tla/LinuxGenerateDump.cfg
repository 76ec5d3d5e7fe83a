\* A crash and two WriteMinidump, one dump at a time, few descriptors.
SPECIFICATION FairSpec
CONSTANTS
    Threads = {a, b, p}
    Crashers = {a}
    Callers = {b}
    NumFds = 5
    Yama = TRUE
    CloneMayFail = TRUE
    OtherStatus = 0
    Overlap = FALSE
    FirstFdes <- Stdio
    MaxDumps = 2
    MaxOpens = 1
    MaxDeaths = 1
INVARIANTS ToldTruth ProgramFilesUntouched
 
CHECK_DEADLOCK FALSE
