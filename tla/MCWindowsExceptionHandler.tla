--------------------- MODULE MCWindowsExceptionHandler ---------------------
EXTENDS WindowsExceptionHandler
CONSTANTS t1, t2, h1, h2

\* HANDLER_ALL for both.
AllTypes == [h \in Handlers |-> Slots]

\* The program has a filter of its own for exceptions.
AppFilter == [s \in Slots |-> IF s = "exception" THEN "app" ELSE "none"]
=============================================================================
