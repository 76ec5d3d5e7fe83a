-------------------------- MODULE MacOutOfProcess --------------------------
(***************************************************************************)
(* The Mac exception handlers of a program and the crash generation server   *)
(* some of them ask for their dumps.  A handler's thread waits in            *)
(* WriteMinidumpWithException for RequestDumpForException; the server        *)
(* suspends the program's whole task while it dumps it.                      *)
(***************************************************************************)
EXTENDS MacExceptionHandler

CONSTANTS QueueLimit, MayDie

VARIABLES req, number, mq, acked, server, job, held, owner, lives, tried

CG == INSTANCE MacCrashGeneration WITH Clients <- Remote

cgVars == <<req, number, mq, acked, server, job, held, owner, lives, tried>>
allVars == <<vars, cgVars>>

InitAll == Init /\ CG!Init

\* The program's threads run unless the server holds the task.
Client == held = {} /\ Step /\ UNCHANGED cgVars

Ask(h) == proc = "alive" /\ held = {} /\ AskServer(h) /\ CG!RequestDump(h)

Wait(h) ==
    /\ proc = "alive" /\ pc[h] = "asking"
    /\ CG!Acknowledged(h) \/ CG!TimesOut(h)
    /\ UNCHANGED vars

Answered(h) ==
    /\ proc = "alive" /\ held = {}
    /\ \E ok \in BOOLEAN : ServerAnswers(h, ok) /\ CG!Return(h, ok)

\* There is nothing to dump when the program is gone.
Server ==
    /\ lives
    /\ CG!Receive \/ (\E ok \in BOOLEAN : (ok => proc = "alive") /\ CG!Dump(ok))
       \/ CG!Callback \/ CG!Ack
    /\ UNCHANGED vars

ServerOwner == CG!Own /\ UNCHANGED vars
ServerDies == CG!ServerDies /\ UNCHANGED vars

Next ==
    \/ Client \/ Server \/ ServerOwner \/ ServerDies
    \/ \E h \in Remote : Ask(h) \/ Wait(h) \/ Answered(h)

Spec == InitAll /\ [][Next]_allVars

\* Threads that are neither blocked nor suspended run, in both processes: the
\* scheduler is fair to them, and a filter or callback returns.
Runs(A) == proc = "alive" /\ held = {} /\ A /\ UNCHANGED cgVars
FairSpec ==
    /\ Spec
    /\ \A t \in Threads : WF_allVars(Runs(Begin(t) \/ LockAndSend(t) \/ Finish(t)))
    /\ \A h \in Handlers : WF_allVars(Runs(WaitForMessage(h)))
    /\ \A h \in Remote : WF_allVars(Wait(h)) /\ WF_allVars(Answered(h))
    /\ WF_allVars(Server)

-----------------------------------------------------------------------------
(* Properties *)

\* exception_handler.h: WriteMinidump "Returns true on success": a call that returns
\* true follows the dump of the handler's current name, or, out of process, one that
\* the server has tried for the handler's last request, whichever thread asked and
\* whatever acknowledgement of an earlier request arrives late.
ResultIsTrue ==
    [][\A t \in Threads :
         pc[t] = "lock2" /\ pc'[t] = "run" /\ doing[t] \in last
         => IF doing[t] \in Remote THEN <<doing[t], number[doing[t]]>> \in tried
            ELSE <<doing[t], nextId[doing[t]]>> \in files]_allVars

\* A dump of the server's leaves the program suspended only if the server is gone
\* in the middle of it.
Held == ~lives /\ held # {}

\* "It will unlock the mutex when completed": the first WriteMinidump of an object
\* returns, when no exception comes in between.
WriteReturns ==
    \A t \in Threads :
        pc[t] # "run" ~> (pc[t] = "run" \/ proc # "alive" \/ Held \/ faults > 0
                          \/ nextId[doing[t]] > 0)

\* A handler whose thread has an exception of its own, or forwards one to a handler
\* of the same process, whose thread it has suspended, waits for ever.
Stuck == \E h \in Handlers : pc[h] = "faulted" \/ (pc[h] = "await" /\ port # {"outer"})

\* "Return false to allow any other exception handlers to process the exception": an
\* exception ends the process or is handled, whatever handlers are constructed and
\* destroyed and whatever the server does.
CrashEnds ==
    \A t \in Threads :
        pc[t] = "faulted" ~> (pc[t] = "run" \/ proc # "alive" \/ Held \/ Stuck)
=============================================================================
