------------------------- MODULE MCMacOutOfProcess -------------------------
EXTENDS MacOutOfProcess
CONSTANTS t1, t2, h1, h2
=============================================================================
