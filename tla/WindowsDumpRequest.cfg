SPECIFICATION FairSpec
CONSTANTS
    c1 = c1
    c2 = c2
    Clients = {c1, c2}
    EarlyDeath = FALSE
    Plans <- MCPlans
    MaxServerDeaths = 1
INVARIANTS TrueMeansDump InfoOutlivesItsUsers ServerOutlivesItsWork
PROPERTIES DeadClientFreed WaitEnds
CHECK_DEADLOCK FALSE
