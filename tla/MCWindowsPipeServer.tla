------------------------ MODULE MCWindowsPipeServer ------------------------
EXTENDS WindowsPipeServer
CONSTANTS c1, c2
=============================================================================
