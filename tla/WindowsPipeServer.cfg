SPECIFICATION FairSpec
CONSTANTS
    c1 = c1
    c2 = c2
    Clients = {c1, c2}
    Others = {c2}
    StartRaces = FALSE
INVARIANTS HandshakeAgrees NothingOutlives
PROPERTIES StateMachineTable RegisterReturns ServesAgain
