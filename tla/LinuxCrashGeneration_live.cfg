\* Liveness: released clients, Stop returns.
SPECIFICATION FairSpec
CONSTANTS
    Clients = {c1, c2}
    Kinds = {"good"}
    AdjacentInodes = TRUE
    MaxStarts = 2
    MaxForks = 1
    MaxKills = 0
PROPERTIES ClientIsReleased StopReturns
CHECK_DEADLOCK FALSE
