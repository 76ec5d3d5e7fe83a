------------------------ MODULE MacExceptionHandler ------------------------
(***************************************************************************)
(* The Mac ExceptionHandler: handler objects constructed and destroyed by    *)
(* one thread, the task's exception port they take over and give back, and   *)
(* the thread each handler has, which receives exceptions from the kernel    *)
(* and, from the program, requests for a dump and the order to end.          *)
(* WriteMinidump waits for that thread on a mutex the thread unlocks.        *)
(*                                                                           *)
(* An actor is a thread of the program or, under the name of the handler, a  *)
(* handler's thread.  A handler with a crash generation client asks a server *)
(* for its dumps (AskServer, ServerAnswers): see MacOutOfProcess.            *)
(***************************************************************************)
EXTENDS Integers, Sequences, FiniteSets, SequencesExt

CONSTANTS
    Threads,    \* threads of the program
    Owner,      \* the one that constructs and destroys the handlers
    Handlers,   \* ExceptionHandler objects, and their threads
    Installing, \* those constructed with install_handler = true
    Remote,     \* those constructed with a port name
    Original,   \* the task's exception port before: {}, or {"outer"} of another process
    Lifo,       \* are handlers destroyed in the reverse order of construction?
    MaxFaults,  \* bound: exceptions
    MaxWrites,  \* bound: calls of WriteMinidump
    MaxChildren \* bound: exceptions of forked children

ASSUME MacExceptionHandlerAssumption ==
    /\ Owner \in Threads /\ Threads \cap Handlers = {}
    /\ Installing \subseteq Handlers /\ Remote \subseteq Handlers
    /\ Original \in {{}, {"outer"}} /\ Lifo \in BOOLEAN
    /\ MaxFaults \in Nat /\ MaxWrites \in Nat /\ MaxChildren \in Nat

Actors == Threads \cup Handlers

VARIABLES
    port,      \* the task's exception port: {}, {"outer"} or {h}
    previous,  \* per handler: previous_, the port it saved
    installed, \* handlers with installed_exception_handler_
    life,      \* per handler: "none", "alive", "torn", "deleted"
    order,     \* the live handlers, oldest first
    pc,        \* per actor
    suspended, \* per actor: its suspend count
    queue,     \* per handler: messages at handler_port_, <<kind, from>>
    cur,       \* per handler: the message its thread has received
    mutex,     \* handlers whose minidump_write_mutex_ is locked
    using,     \* handlers with use_minidump_write_mutex_
    last,      \* handlers with last_minidump_write_result_
    result,    \* handlers whose thread's WriteMinidumpWithException returned true
    nextId,    \* per handler: next_minidump_id_
    files,     \* dumps written, <<handler, id>>
    doing,     \* per thread: the handler whose WriteMinidump it called
    proc,      \* "alive", "exit", "killed", or "undefined"
    faults, writes, children

ports  == <<port, previous, installed, life, order>>
minidump == <<mutex, using, last, nextId>>
bounds == <<faults, writes, children>>
vars == <<ports, pc, suspended, queue, cur, minidump, result, files, doing, proc, bounds>>

NoCall == CHOOSE h \in Handlers : TRUE

Init ==
    /\ port = Original /\ previous = [h \in Handlers |-> {}] /\ installed = {}
    /\ life = [h \in Handlers |-> "none"] /\ order = <<>>
    /\ pc = [a \in Actors |-> IF a \in Threads THEN "run" ELSE "none"]
    /\ suspended = [a \in Actors |-> 0]
    /\ queue = [h \in Handlers |-> <<>>] /\ cur = [h \in Handlers |-> <<>>]
    /\ mutex = {} /\ using = {} /\ last = {} /\ result = {}
    /\ nextId = [h \in Handlers |-> 0] /\ files = {}
    /\ doing = [t \in Threads |-> NoCall]
    /\ proc = "alive" /\ faults = 0 /\ writes = 0 /\ children = 0

Goto(a, l) == pc' = [pc EXCEPT ![a] = l]
At(a, l) == pc[a] = l /\ suspended[a] = 0
Send(h, m) == queue' = [queue EXCEPT ![h] = Append(@, m)]

-----------------------------------------------------------------------------
(* Setup and Teardown, on the owner's thread. *)

\* The task's ports are saved and replaced.
InstallHandler(h) ==
    /\ previous' = [previous EXCEPT ![h] = port]
    /\ port' = {h} /\ installed' = installed \cup {h}

\* Setup: InstallHandler, if asked to, and then the handler's thread.
Construct(h) ==
    /\ At(Owner, "run") /\ life[h] = "none"
    /\ life' = [life EXCEPT ![h] = "alive"] /\ order' = Append(order, h)
    /\ IF h \in Installing THEN InstallHandler(h)
                          ELSE UNCHANGED <<port, previous, installed>>
    /\ Goto(h, "loop")
    /\ UNCHANGED <<suspended, queue, cur, minidump, result, files, doing, proc, bounds>>

\* The live handlers without this one.
Removed(h) == RemoveAt(order, CHOOSE i \in DOMAIN order : order[i] = h)

\* UninstallHandler
Restored(h) ==
    IF h \in installed
    THEN /\ port' = previous[h] /\ installed' = installed \ {h}
         /\ previous' = [previous EXCEPT ![h] = {}]
    ELSE UNCHANGED <<port, installed, previous>>

\* BUG (mutant): the ports are not put back.
UninstallForgets(h) ==
    /\ At(Owner, "run") /\ life[h] = "alive"
    /\ ~\E t \in Threads : pc[t] \in {"begin", "lock1", "lock2"} /\ doing[t] = h
    /\ life' = [life EXCEPT ![h] = "torn"]
    /\ order' = Removed(h)
    /\ installed' = installed \ {h}
    /\ UNCHANGED <<port, previous, pc, suspended, queue, cur, minidump, result, files,
                   doing, proc, bounds>>

\* Nobody calls WriteMinidump of an object that is being destroyed.
Uninstall(h) ==
    /\ At(Owner, "run") /\ life[h] = "alive"
    /\ ~\E t \in Threads : pc[t] \in {"begin", "lock1", "lock2"} /\ doing[t] = h
    /\ Lifo => h = order[Len(order)]
    /\ life' = [life EXCEPT ![h] = "torn"]
    /\ order' = Removed(h)
    /\ Restored(h)
    /\ UNCHANGED <<pc, suspended, queue, cur, minidump, result, files,
                   doing, proc, bounds>>

\* The order to end is sent and not waited for.
Teardown(h) ==
    /\ At(Owner, "run") /\ life[h] = "torn"
    /\ life' = [life EXCEPT ![h] = "deleted"]
    /\ Send(h, <<"shutdown">>)
    /\ UNCHANGED <<port, previous, installed, order, pc, suspended, cur, minidump,
                   result, files, doing, proc, bounds>>

-----------------------------------------------------------------------------
(* WriteMinidump *)

\* "If we're currently writing, just return": false, and nothing has changed.
WriteMinidump(t, h) ==
    /\ At(t, "run") /\ life[h] = "alive"
    /\ writes < MaxWrites /\ writes' = writes + 1
    /\ h \notin using /\ Goto(t, "begin") /\ doing' = [doing EXCEPT ![t] = h]
    /\ UNCHANGED <<ports, suspended, queue, cur, minidump, result, files, proc,
                   faults, children>>

Begin(t) ==
    /\ At(t, "begin") /\ Goto(t, "lock1")
    /\ using' = using \cup {doing[t]} /\ last' = last \ {doing[t]}
    /\ UNCHANGED <<ports, suspended, queue, cur, mutex, nextId, result, files, doing, proc, bounds>>

\* "Since we just created it, this will return immediately."
LockAndSend(t) ==
    /\ At(t, "lock1") /\ doing[t] \notin mutex
    /\ mutex' = mutex \cup {doing[t]}
    /\ \E kind \in {"dump", "dumpx"} : Send(doing[t], <<kind, t>>)
    /\ Goto(t, "lock2")
    /\ UNCHANGED <<ports, suspended, cur, using, last, nextId, result, files, doing, proc, bounds>>

\* The second lock, which is never unlocked; UpdateNextID.  What it returns is whether
\* the handler is in last.
Finish(t) ==
    /\ At(t, "lock2") /\ doing[t] \notin mutex
    /\ mutex' = mutex \cup {doing[t]} /\ using' = using \ {doing[t]}
    /\ nextId' = [nextId EXCEPT ![doing[t]] = @ + 1]
    /\ Goto(t, "run") /\ doing' = [doing EXCEPT ![t] = NoCall]
    /\ UNCHANGED <<ports, suspended, queue, cur, last, result, files, proc, bounds>>

-----------------------------------------------------------------------------
(* Exceptions *)

\* The kernel sends the exception of an actor to the task's port, and blocks it
\* until the reply.
Fault(a) ==
    /\ At(a, "run") \/ At(a, "write") \/ At(a, "callback")
    /\ faults < MaxFaults /\ faults' = faults + 1
    /\ \/ \E h \in Handlers : port = {h} /\ Send(h, <<"exception", a>>)
                              /\ Goto(a, "faulted") /\ UNCHANGED proc
       \/ port \subseteq {"outer"} /\ proc' = "killed" /\ UNCHANGED <<queue, pc>>
    /\ UNCHANGED <<ports, suspended, cur, minidump, result, files, doing,
                   writes, children>>

\* A forked child has inherited the port.
ChildFaults(h) ==
    /\ life[h] # "none" /\ children < MaxChildren /\ children' = children + 1
    /\ h \in Installing /\ Send(h, <<"child">>)
    /\ UNCHANGED <<ports, pc, suspended, cur, minidump, result, files, doing,
                   proc, faults, writes>>

-----------------------------------------------------------------------------
(* WaitForMessage, the handler's thread. *)

\* It reads handler_port_, of an object that may be gone.
Loop(h) ==
    /\ At(h, "loop")
    /\ \/ life[h] # "deleted" /\ Goto(h, "receive") /\ UNCHANGED proc
       \/ life[h] = "deleted" /\ proc' = "undefined" /\ UNCHANGED pc
    /\ UNCHANGED <<ports, suspended, queue, cur, minidump, result, files, doing, bounds>>

\* "Don't touch self, since this message could have been sent from its destructor":
\* so it is with the order to end, but not with a message before it.  The exception
\* of another task gets KERN_FAILURE.
Receive(h) ==
    /\ At(h, "receive") /\ queue[h] # <<>>
    /\ LET kind == Head(queue[h])[1] IN
         /\ Goto(h, CASE kind = "shutdown" -> "none"
                      [] kind = "child" -> "loop"
                      [] OTHER -> "suspend")
         /\ proc' = IF life[h] = "deleted" /\ kind \notin {"shutdown", "child"}
                    THEN "undefined" ELSE proc
         /\ cur' = [cur EXCEPT ![h] = IF kind \in {"shutdown", "child"} THEN <<>>
                                      ELSE Head(queue[h])]
    /\ queue' = [queue EXCEPT ![h] = Tail(@)]
    /\ UNCHANGED <<ports, suspended, minidump, result, files, doing, bounds>>

IsException(h) == cur[h][1] = "exception"

\* SuspendThreads: all the threads of the task but this one.
SuspendThreads(h) ==
    /\ At(h, "suspend") /\ Goto(h, "write")
    /\ suspended' = [a \in Actors |-> IF a = h \/ pc[a] = "none" THEN suspended[a]
                                      ELSE suspended[a] + 1]
    /\ UNCHANGED <<ports, queue, cur, minidump, result, files, doing, proc,
                   bounds>>

\* WriteMinidumpWithException, in process: the filter may refuse an exception; the
\* file may exist.
Write(h) ==
    /\ At(h, "write") /\ h \notin Remote
    /\ LET dump == <<h, nextId[h]>> IN
         \/ /\ cur[h][1] # "dump" /\ Goto(h, "written") /\ result' = result \ {h}
            /\ UNCHANGED files
         \/ /\ Goto(h, "callback") /\ result' = result \ {h} /\ UNCHANGED files
         \/ /\ dump \notin files
            /\ Goto(h, "callback") /\ result' = result \cup {h}
            /\ files' = files \cup {dump}
    /\ UNCHANGED <<ports, suspended, queue, cur, minidump, doing, proc,
                   bounds>>

\* Out of process, only what has an exception is sent to the server, and the filter
\* may refuse that.
NothingToAsk(h) ==
    /\ At(h, "write") /\ h \in Remote
    /\ Goto(h, "written") /\ result' = result \ {h}
    /\ UNCHANGED <<ports, suspended, queue, cur, minidump, files, doing, proc, bounds>>

AskServer(h) ==
    /\ At(h, "write") /\ h \in Remote /\ cur[h][1] # "dump"
    /\ Goto(h, "asking")
    /\ UNCHANGED <<ports, suspended, queue, cur, minidump, result, files, doing, proc, bounds>>

ServerAnswers(h, ok) ==
    /\ At(h, "asking") /\ Goto(h, "written")
    /\ result' = IF ok THEN result \cup {h} ELSE result \ {h}
    /\ UNCHANGED <<ports, suspended, queue, cur, minidump, files, doing, proc, bounds>>

\* A callback that returns true for an exception ends the process.
Callback(h) ==
    /\ At(h, "callback")
    /\ \/ IsException(h) /\ proc' = "exit" /\ UNCHANGED pc
       \/ Goto(h, "written") /\ UNCHANGED proc
    /\ UNCHANGED <<ports, suspended, queue, cur, minidump, result, files, doing, bounds>>

\* BUG (mutant): the result is stored when the others run again.
ResumeThreadsNoResult(h) ==
    /\ At(h, "written") /\ ~IsException(h) /\ Goto(h, "unlock")
    /\ suspended' = [a \in Actors |-> IF a = h \/ suspended[a] = 0 THEN suspended[a]
                                      ELSE suspended[a] - 1]
    /\ last' = last \cup {h}
    /\ UNCHANGED <<ports, queue, cur, mutex, using, nextId, result, files, doing, proc, bounds>>

\* After a dump: the result is stored, and ResumeThreads.
ResumeThreads(h) ==
    /\ At(h, "written") /\ ~IsException(h) /\ Goto(h, "unlock")
    /\ last' = IF h \in result THEN last \cup {h} ELSE last \ {h}
    /\ suspended' = [a \in Actors |-> IF a = h \/ suspended[a] = 0 THEN suspended[a]
                                      ELSE suspended[a] - 1]
    /\ UNCHANGED <<ports, queue, cur, mutex, using, nextId, result, files, doing, proc, bounds>>

\* BUG (mutant): the mutex is left alone.
UnlockNot(h) ==
    /\ At(h, "unlock") /\ Goto(h, "loop")
    /\ cur' = [cur EXCEPT ![h] = <<>>]
    /\ UNCHANGED <<ports, suspended, queue, minidump, result, files, doing, proc, bounds>>

Unlock(h) ==
    /\ At(h, "unlock") /\ Goto(h, "loop")
    /\ cur' = [cur EXCEPT ![h] = <<>>]
    /\ mutex' = IF h \in using THEN mutex \ {h} ELSE mutex
    /\ result' = result \ {h}
    /\ UNCHANGED <<ports, suspended, queue, using, last, nextId, files, doing, proc,
                   bounds>>

\* BUG (mutant): without a callback's approval, the exception is forgotten.
UninstallAndForwardDrops(h) ==
    /\ At(h, "written") /\ IsException(h) /\ Restored(h)
    /\ Goto(h, "loop") /\ UNCHANGED <<queue, proc>>
    /\ UNCHANGED <<life, order, suspended, cur, minidump, result, files,
                   doing, bounds>>

\* After an exception: UninstallHandler, and ForwardException to whatever port is
\* the task's now; without one the process exits.  The others stay suspended.
UninstallAndForward(h) ==
    /\ At(h, "written") /\ IsException(h) /\ Restored(h)
    /\ \/ port' = {} /\ proc' = "exit" /\ UNCHANGED <<pc, queue>>
       \/ port' = {"outer"} /\ Goto(h, "await") /\ UNCHANGED <<queue, proc>>
       \/ \E g \in Handlers : /\ port' = {g} /\ Goto(h, "await")
                              /\ Send(g, <<"exception", cur[h][2]>>) /\ UNCHANGED proc
    /\ UNCHANGED <<life, order, suspended, cur, minidump, result, files,
                   doing, bounds>>

\* The handler in another process answers, and the kernel kills the program or lets
\* the actor go on (a handler's thread is still suspended).
OuterAnswers(h) ==
    /\ At(h, "await") /\ port = {"outer"}
    /\ \/ proc' = "killed" /\ UNCHANGED <<pc, cur>>
       \/ /\ pc' = [pc EXCEPT ![h] = "loop", ![cur[h][2]] = "run"]
          /\ cur' = [cur EXCEPT ![h] = <<>>] /\ UNCHANGED proc
    /\ UNCHANGED <<ports, suspended, queue, minidump, result, files, doing, bounds>>

Program == \E t \in Threads : Begin(t) \/ LockAndSend(t) \/ Finish(t)
Lifecycle(h) == Construct(h) \/ Uninstall(h) \/ Teardown(h)
WaitForMessage(h) ==
    \/ Loop(h) \/ Receive(h) \/ SuspendThreads(h) \/ Write(h) \/ NothingToAsk(h)
    \/ Callback(h) \/ ResumeThreads(h) \/ Unlock(h) \/ UninstallAndForward(h)
    \/ OuterAnswers(h)

\* Everything but the two actions shared with the server.
Step ==
    /\ proc = "alive"
    /\ \/ Program
       \/ \E t \in Threads, h \in Handlers : WriteMinidump(t, h)
       \/ \E a \in Actors : Fault(a)
       \/ \E h \in Handlers : ChildFaults(h) \/ Lifecycle(h) \/ WaitForMessage(h)

-----------------------------------------------------------------------------
(* Properties *)

TypeOK ==
    /\ previous \in [Handlers -> {{}, {"outer"}} \cup {{h} : h \in Handlers}]
    /\ port \in {{}, {"outer"}} \cup {{h} : h \in Handlers}
    /\ installed \subseteq Handlers /\ order \in Seq(Handlers)
    /\ life \in [Handlers -> {"none", "alive", "torn", "deleted"}]
    /\ pc \in [Actors -> {"run", "begin", "lock1", "lock2", "faulted", "none", "loop",
                          "receive", "suspend", "write", "asking", "callback",
                          "written", "unlock", "await"}]
    /\ suspended \in [Actors -> Nat]
    /\ mutex \subseteq Handlers /\ using \subseteq Handlers /\ last \subseteq Handlers
    /\ result \subseteq Handlers /\ nextId \in [Handlers -> Nat]
    /\ doing \in [Threads -> Handlers]
    /\ proc \in {"alive", "exit", "killed", "undefined"}

\* The handler at i is the newest of those installed.
NewestAt(i) == order[i] \in installed /\ \A j \in DOMAIN order : j > i => order[j] \notin installed

\* UninstallHandler gives the task back the port it had: while its threads run, the
\* task's exception port is that of the newest handler installed, and without one
\* what it was at first.  (Handlers go in the reverse order of construction.)
PortsAgree ==
    (\A a \in Actors : suspended[a] = 0) =>
        \/ \E i \in DOMAIN order : NewestAt(i) /\ port = {order[i]}
        \/ (\A i \in DOMAIN order : order[i] \notin installed) /\ port = Original
=============================================================================
