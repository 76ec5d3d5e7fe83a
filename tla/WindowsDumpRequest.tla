------------------------- MODULE WindowsDumpRequest ------------------------
(***************************************************************************)
(* Dump requests of registered clients and the lifetime of their            *)
(* ClientInfos in the Windows CrashGenerationServer.                        *)
(*                                                                          *)
(* Each client shares two manual-reset events with the server, and a handle *)
(* to a mutex the server owns while it lives.  The threads are those of the *)
(* clients, of the wait callbacks (OnDumpRequest and OnClientEnd), of the   *)
(* work items (CleanupClient), the one in AddClient and the one in the      *)
(* destructor.  WindowsPipeServer models the handshake before AddClient and *)
(* the first half of the destructor.                                        *)
(***************************************************************************)
EXTENDS Integers, FiniteSets

CONSTANTS
    Clients,
    EarlyDeath,     \* may a client die before AddClient has returned?
    Plans,          \* bound: how often each client calls RequestDump, and
                    \* which of them may die
    MaxServerDeaths \* bound: deaths of the server process

ASSUME WindowsDumpRequestAssumption ==
    /\ IsFiniteSet(Clients)
    /\ EarlyDeath \in BOOLEAN
    /\ Plans \subseteq [asks : [Clients -> Nat], mortal : SUBSET Clients]
    /\ MaxServerDeaths \in Nat

VARIABLES
    client,     \* per client: where it is
    asked,      \* per client: calls of RequestDump
    requested, generated, \* per client: its two events
    alive,      \* server_alive_handle_: the owner of the mutex; "server" is the
                \* thread that called Start
    generate_dumps_,
    adding,     \* per client: where AddClient is
    clients_,
    info,       \* per client: does its ClientInfo exist?
    requestWait, exitWait,     \* waits registered with the pool
    requestHandle, exitHandle, \* members of ClientInfo that are not NULL
    dumping,    \* per client: where OnDumpRequest is
    ending,     \* per client: where OnClientEnd is
    item,       \* per client: where CleanupClient is
    cleanup_item_count_,
    dtor,       \* where the destructor is, or "dead": the process ended
    plan,       \* the one of Plans that bounds this behaviour
    dumped,     \* history: the requests dumped of each client
    late,       \* history: has the client ever given up a request?
    outpaced,   \* history: the clients whose callbacks or work items the
                \* destructor did not wait for
    freed       \* history: how many times a ClientInfo was deleted

clientVars == <<client, asked, late, plan>>
eventVars  == <<requested, generated, alive>>
infoVars   == <<clients_, info, requestHandle, exitHandle, freed>>
waitVars   == <<requestWait, exitWait>>
workVars   == <<dumping, ending, item, cleanup_item_count_>>
dtorVars   == <<dtor, outpaced>>
dumpVars   == <<generate_dumps_, dumped>>
vars == <<clientVars, eventVars, infoVars, waitVars, workVars, adding, dtorVars, dumpVars>>

Put(f, c, v) == [f EXCEPT ![c] = v]
Up == dtor # "dead"                     \* the server process runs
Destroyed == dtor \in {"gone", "dead"}
\* The work item of the client is counted in cleanup_item_count_.
Counted(c) == ending[c] \in {"queue", "uncount"} \/ item[c] # "none"

Init ==
    /\ plan \in Plans
    /\ client = [c \in Clients |-> "out"] /\ asked = [c \in Clients |-> 0]
    /\ requested = [c \in Clients |-> FALSE] /\ generated = [c \in Clients |-> FALSE]
    /\ alive = "server" /\ adding = [c \in Clients |-> "no"]
    /\ clients_ = {} /\ info = [c \in Clients |-> "none"]
    /\ requestWait = [c \in Clients |-> FALSE] /\ exitWait = [c \in Clients |-> FALSE]
    /\ requestHandle = [c \in Clients |-> FALSE] /\ exitHandle = [c \in Clients |-> FALSE]
    /\ dumping = [c \in Clients |-> "idle"] /\ ending = [c \in Clients |-> "idle"]
    /\ item = [c \in Clients |-> "none"] /\ cleanup_item_count_ = 0
    /\ dtor = "none" /\ dumped = [c \in Clients |-> {}] /\ freed = [c \in Clients |-> 0]
    /\ generate_dumps_ \in BOOLEAN /\ late = [c \in Clients |-> FALSE] /\ outpaced = {}

---------------------------------------------------------------------------
(* AddClient, in the callback of the pipe.                                  *)

Added(c) == adding[c] \in {"done", "refused"}

\* WriteFile has sent the reply: the client can already ask.  The thread of the
\* pipe adds one client after the other.
Respond(c) ==
    /\ adding[c] = "no" /\ dtor = "none"
    /\ \A d \in Clients : adding[d] = "no" \/ Added(d)
    /\ adding' = Put(adding, c, "request") /\ info' = Put(info, c, "live")
    /\ client' = Put(client, c, "running")
    /\ UNCHANGED <<asked, late, plan, eventVars, clients_, requestHandle, exitHandle, freed,
                   waitVars, workVars, dtorVars, dumpVars>>

WaitForRequest(c) ==
    /\ adding[c] = "request" /\ Up
    /\ adding' = Put(adding, c, "exit")
    /\ requestWait' = Put(requestWait, c, TRUE) /\ requestHandle' = Put(requestHandle, c, TRUE)
    /\ UNCHANGED <<clientVars, eventVars, clients_, info, exitHandle, freed, exitWait,
                   workVars, dtorVars, dumpVars>>

\* The pool may call OnClientEnd before the handle is stored.
WaitForExit(c) ==
    /\ adding[c] = "exit" /\ Up
    /\ adding' = Put(adding, c, "store") /\ exitWait' = Put(exitWait, c, TRUE)
    /\ UNCHANGED <<clientVars, eventVars, infoVars, requestWait, workVars, dtorVars,
                   dumpVars>>

StoreExitHandle(c) ==
    /\ adding[c] = "store" /\ Up
    /\ adding' = Put(adding, c, "list") /\ exitHandle' = Put(exitHandle, c, TRUE)
    /\ UNCHANGED <<clientVars, eventVars, clients_, info, requestHandle, freed, waitVars,
                   workVars, dtorVars, dumpVars>>

PushBack(c) ==
    /\ adding[c] = "list" /\ Up
    /\ adding' = Put(adding, c, "done") /\ clients_' = clients_ \cup {c}
    /\ UNCHANGED <<clientVars, eventVars, info, requestHandle, exitHandle, freed, waitVars,
                   workVars, dtorVars, dumpVars>>

\* A wait cannot be registered: the ClientInfo is deleted, though the client
\* has its reply.
AddClientFails(c) ==
    /\ adding[c] \in {"request", "exit"} /\ Up
    /\ requestHandle[c] => dumping[c] = "idle"
    /\ adding' = Put(adding, c, "refused") /\ requestWait' = Put(requestWait, c, FALSE)
    /\ info' = Put(info, c, "deleted") /\ freed' = Put(freed, c, freed[c] + 1)
    /\ UNCHANGED <<clientVars, eventVars, clients_, requestHandle, exitHandle, exitWait,
                   workVars, dtorVars, dumpVars>>

AddClient(c) ==
    \/ AddClientFails(c)
    \/ WaitForRequest(c) \/ WaitForExit(c) \/ StoreExitHandle(c) \/ PushBack(c)

---------------------------------------------------------------------------
(* RequestDump in the client.                                               *)

\* The members the server will read, exception_pointers_ among them ...
RequestDump(c) ==
    /\ client[c] \in {"running", "true", "false"} /\ asked[c] < plan.asks[c]
    /\ asked' = Put(asked, c, asked[c] + 1) /\ client' = Put(client, c, "asking")
    /\ UNCHANGED <<late, plan, eventVars, infoVars, waitVars, workVars, adding, dtorVars,
                   dumpVars>>

\* ... the answer of the last time is reset ...
ResetDumpGenerated(c) ==
    /\ client[c] = "asking"
    /\ client' = Put(client, c, "reset") /\ generated' = Put(generated, c, FALSE)
    /\ UNCHANGED <<asked, late, plan, requested, alive, infoVars, waitVars, workVars,
                   adding, dtorVars, dumpVars>>

\* ... and the request is signaled.
SignalCrashEvent(c) ==
    /\ client[c] = "reset"
    /\ client' = Put(client, c, "waiting") /\ requested' = Put(requested, c, TRUE)
    /\ UNCHANGED <<asked, late, plan, generated, alive, infoVars, waitVars, workVars,
                   adding, dtorVars, dumpVars>>

Answered(c) ==
    /\ client[c] = "waiting" /\ generated[c]
    /\ client' = Put(client, c, "true")
    /\ UNCHANGED <<asked, late, plan, eventVars, infoVars, waitVars, workVars, adding,
                   dtorVars, dumpVars>>

\* The mutex is released or abandoned; the client is its owner from then on.
ServerGone(c) ==
    /\ client[c] = "waiting" /\ ~generated[c] /\ alive \in {"none", c}
    /\ client' = Put(client, c, "false") /\ late' = Put(late, c, TRUE) /\ alive' = c
    /\ UNCHANGED <<asked, plan, requested, generated, infoVars, waitVars, workVars, adding,
                   dtorVars, dumpVars>>

\* kWaitForServerTimeoutMs have passed.
TimesOut(c) ==
    /\ client[c] = "waiting" /\ ~generated[c]
    /\ client' = Put(client, c, "false") /\ late' = Put(late, c, TRUE)
    /\ UNCHANGED <<asked, plan, eventVars, infoVars, waitVars, workVars, adding, dtorVars,
                   dumpVars>>

Die(c) ==
    /\ client[c] \notin {"out", "dead"} /\ c \in plan.mortal
    /\ EarlyDeath \/ Added(c) \/ Destroyed
    /\ client' = Put(client, c, "dead")
    /\ alive' = IF alive = c THEN "none" ELSE alive
    /\ UNCHANGED <<asked, late, plan, requested, generated, infoVars, waitVars, workVars,
                   adding, dtorVars, dumpVars>>

---------------------------------------------------------------------------
(* OnDumpRequest, each time the wait finds the event signaled.              *)

OnDumpRequest(c) ==
    /\ dumping[c] = "idle" /\ requestWait[c] /\ requested[c] /\ Up
    /\ dumping' = Put(dumping, c, "generate")
    /\ UNCHANGED <<clientVars, eventVars, infoVars, waitVars, ending, item,
                   cleanup_item_count_, adding, dtorVars, dumpVars>>

\* BUG (mutant): a dump that failed is announced all the same.
GenerateDumpIgnored(c) ==
    /\ dumping[c] = "generate" /\ Up
    /\ dumping' = Put(dumping, c, "signal")
    /\ \/ generate_dumps_ /\ dumped' = Put(dumped, c, dumped[c] \cup {asked[c]})
       \/ UNCHANGED dumped
    /\ UNCHANGED <<clientVars, eventVars, infoVars, waitVars, ending, item,
                   cleanup_item_count_, adding, dtorVars, generate_dumps_>>

\* PopulateCustomInfo and GenerateDump, if the server generates dumps: the
\* exception is the one the client's memory names now.  A dump that fails
\* leaves the client without an answer.
GenerateDump(c) ==
    /\ dumping[c] = "generate" /\ Up
    /\ \/ /\ generate_dumps_ /\ dumped' = Put(dumped, c, dumped[c] \cup {asked[c]})
          /\ dumping' = Put(dumping, c, "signal")
       \/ generate_dumps_ /\ dumping' = Put(dumping, c, "reset") /\ UNCHANGED dumped
       \/ ~generate_dumps_ /\ dumping' = Put(dumping, c, "signal") /\ UNCHANGED dumped
    /\ UNCHANGED <<clientVars, eventVars, infoVars, waitVars, ending, item,
                   cleanup_item_count_, adding, dtorVars, generate_dumps_>>

\* BUG (mutant): only a server that has a dump_callback_ answers.
SignalAfterCallback(c) ==
    /\ dumping[c] = "signal" /\ Up
    /\ generated' \in {generated, Put(generated, c, TRUE)}
    /\ dumping' = Put(dumping, c, "reset")
    /\ UNCHANGED <<clientVars, requested, alive, infoVars, waitVars, ending, item,
                   cleanup_item_count_, adding, dtorVars, dumpVars>>

\* dump_callback_, then SetEvent(dump_generated_handle).
SignalDumpGenerated(c) ==
    /\ dumping[c] = "signal" /\ Up
    /\ generated' = Put(generated, c, TRUE) /\ dumping' = Put(dumping, c, "reset")
    /\ UNCHANGED <<clientVars, requested, alive, infoVars, waitVars, ending, item,
                   cleanup_item_count_, adding, dtorVars, dumpVars>>

\* BUG (mutant): the request stays signaled.
DumpRequestKept(c) ==
    /\ dumping[c] = "reset" /\ Up
    /\ dumping' = Put(dumping, c, "idle") /\ UNCHANGED requested
    /\ UNCHANGED <<clientVars, generated, alive, infoVars, waitVars, ending, item,
                   cleanup_item_count_, adding, dtorVars, dumpVars>>

ResetDumpRequest(c) ==
    /\ dumping[c] = "reset" /\ Up
    /\ requested' = Put(requested, c, FALSE) /\ dumping' = Put(dumping, c, "idle")
    /\ UNCHANGED <<clientVars, generated, alive, infoVars, waitVars, ending, item,
                   cleanup_item_count_, adding, dtorVars, dumpVars>>

---------------------------------------------------------------------------
(* OnClientEnd, once, and CleanupClient.                                    *)

OnClientEnd(c) ==
    /\ ending[c] = "idle" /\ exitWait[c] /\ client[c] = "dead" /\ Up
    /\ ending' = Put(ending, c, "count")
    /\ UNCHANGED <<clientVars, eventVars, infoVars, waitVars, dumping, item,
                   cleanup_item_count_, adding, dtorVars, dumpVars>>

\* BUG (mutant): the work item is not counted.
CountForgotten(c) ==
    /\ ending[c] = "count" /\ Up
    /\ ending' = Put(ending, c, "queue")
    /\ UNCHANGED <<clientVars, eventVars, infoVars, waitVars, dumping, item,
                   cleanup_item_count_, adding, dtorVars, dumpVars>>

\* InterlockedIncrement.
CountCleanup(c) ==
    /\ ending[c] = "count" /\ Up
    /\ ending' = Put(ending, c, "queue") /\ cleanup_item_count_' = cleanup_item_count_ + 1
    /\ UNCHANGED <<clientVars, eventVars, infoVars, waitVars, dumping, item, adding,
                   dtorVars, dumpVars>>

\* QueueUserWorkItem, which may fail.
QueueCleanup(c) ==
    /\ ending[c] = "queue" /\ Up
    /\ \/ ending' = Put(ending, c, "done") /\ item' = Put(item, c, "queued")
       \/ ending' = Put(ending, c, "uncount") /\ UNCHANGED item
    /\ UNCHANGED <<clientVars, eventVars, infoVars, waitVars, dumping, cleanup_item_count_,
                   adding, dtorVars, dumpVars>>

\* InterlockedDecrement.
UncountCleanup(c) ==
    /\ ending[c] = "uncount" /\ Up
    /\ ending' = Put(ending, c, "done") /\ cleanup_item_count_' = cleanup_item_count_ - 1
    /\ UNCHANGED <<clientVars, eventVars, infoVars, waitVars, dumping, item, adding,
                   dtorVars, dumpVars>>

\* exit_callback_, then clients_.remove under clients_sync_.
CleanupClient(c) ==
    /\ item[c] = "queued" /\ Up
    /\ item' = Put(item, c, "removed") /\ clients_' = clients_ \ {c}
    /\ UNCHANGED <<clientVars, eventVars, info, requestHandle, exitHandle, freed, waitVars,
                   dumping, ending, cleanup_item_count_, adding, dtorVars, dumpVars>>

\* BUG (mutant): the wait is unregistered without waiting for the callback.
UnregisterNoWait(c) ==
    /\ item[c] = "removed" /\ Up
    /\ item' = Put(item, c, "unregistered") /\ requestWait' = Put(requestWait, c, FALSE)
    /\ UNCHANGED <<clientVars, eventVars, infoVars, exitWait, dumping, ending,
                   cleanup_item_count_, adding, dtorVars, dumpVars>>

\* ~ClientInfo: UnregisterWaitEx waits for OnDumpRequest ...
UnregisterRequestWait(c) ==
    /\ item[c] = "removed" /\ Up
    /\ requestHandle[c] => dumping[c] = "idle"
    /\ item' = Put(item, c, "unregistered")
    /\ requestWait' = IF requestHandle[c] THEN Put(requestWait, c, FALSE) ELSE requestWait
    /\ UNCHANGED <<clientVars, eventVars, infoVars, exitWait, dumping, ending,
                   cleanup_item_count_, adding, dtorVars, dumpVars>>

\* ... and for OnClientEnd, if the handles are there; then it is gone.
DeleteClientInfo(c) ==
    /\ item[c] = "unregistered" /\ Up
    /\ exitHandle[c] => ending[c] = "done"
    /\ exitWait' = IF exitHandle[c] THEN Put(exitWait, c, FALSE) ELSE exitWait
    /\ info' = Put(info, c, "deleted") /\ freed' = Put(freed, c, freed[c] + 1)
    /\ item' = Put(item, c, "deleted")
    /\ UNCHANGED <<clientVars, eventVars, clients_, requestHandle, exitHandle, requestWait,
                   dumping, ending, cleanup_item_count_, adding, dtorVars, dumpVars>>

CleanupReturns(c) ==
    /\ item[c] = "deleted" /\ Up
    /\ item' = Put(item, c, "none") /\ cleanup_item_count_' = cleanup_item_count_ - 1
    /\ UNCHANGED <<clientVars, eventVars, infoVars, waitVars, dumping, ending, adding,
                   dtorVars, dumpVars>>

---------------------------------------------------------------------------
(* The destructor, once the pipe is closed and its wait unregistered.       *)

BeginShutdown ==
    /\ dtor = "none" /\ dtor' = "unregister"
    /\ \A c \in Clients : adding[c] = "no" \/ Added(c)
    /\ UNCHANGED <<clientVars, eventVars, infoVars, waitVars, workVars, adding, outpaced,
                   dumpVars>>

\* ClientInfo::UnregisterWaits on every client: UnregisterWait returns at
\* once, whether a callback runs or not, and the handle is forgotten.
UnregisterWaits ==
    /\ dtor = "unregister" /\ dtor' = "await"
    /\ outpaced' = {c \in clients_ : dumping[c] # "idle" \/ ending[c] = "count"}
    /\ requestWait' = [c \in Clients |-> requestWait[c] /\ c \notin clients_]
    /\ exitWait' = [c \in Clients |-> exitWait[c] /\ c \notin clients_]
    /\ requestHandle' = [c \in Clients |-> requestHandle[c] /\ c \notin clients_]
    /\ exitHandle' = [c \in Clients |-> exitHandle[c] /\ c \notin clients_]
    /\ UNCHANGED <<clientVars, eventVars, clients_, info, freed, workVars, adding,
                   dumpVars>>

\* Until no work item is counted, or for kShutdownDelayMs.
AwaitItems ==
    /\ dtor = "await" /\ dtor' = "delete"
    /\ \/ cleanup_item_count_ = 0 /\ UNCHANGED outpaced
       \/ cleanup_item_count_ > 0 /\ outpaced' = outpaced \cup {c \in Clients : Counted(c)}
    /\ UNCHANGED <<clientVars, eventVars, infoVars, waitVars, workVars, adding, dumpVars>>

\* All of the list is deleted; nothing is removed from it.
DeleteClients ==
    /\ dtor = "delete" /\ dtor' = "release"
    /\ info' = [c \in Clients |-> IF c \in clients_ THEN "deleted" ELSE info[c]]
    /\ freed' = [c \in Clients |-> IF c \in clients_ THEN freed[c] + 1 ELSE freed[c]]
    /\ UNCHANGED <<clientVars, eventVars, clients_, requestHandle, exitHandle, waitVars,
                   workVars, adding, outpaced, dumpVars>>

\* ReleaseMutex, which fails on a thread that is not the owner, and nobody looks.
ReleaseMutex ==
    /\ dtor = "release" /\ dtor' = "gone"
    /\ \/ alive = "server" /\ alive' = "none"
       \/ UNCHANGED alive
    /\ UNCHANGED <<clientVars, requested, generated, infoVars, waitVars, workVars, adding,
                   outpaced, dumpVars>>

\* The thread that called Start ends, at any time: the mutex is abandoned.
StartThreadEnds ==
    /\ alive = "server" /\ alive' = "none"
    /\ UNCHANGED <<clientVars, requested, generated, infoVars, waitVars, workVars, adding,
                   dtorVars, dumpVars>>

\* The process of the server ends: the mutex is abandoned.
ServerDies ==
    /\ MaxServerDeaths > 0 /\ Up
    /\ dtor' = "dead" /\ alive' = IF alive = "server" THEN "none" ELSE alive
    /\ dumping' = [c \in Clients |-> "idle"] /\ ending' = [c \in Clients |-> "idle"]
    /\ item' = [c \in Clients |-> "none"] /\ cleanup_item_count_' = 0
    /\ requestWait' = [c \in Clients |-> FALSE] /\ exitWait' = [c \in Clients |-> FALSE]
    /\ clients_' = {} /\ info' = [c \in Clients |-> "none"] /\ freed' = [c \in Clients |-> 0]
    /\ requestHandle' = [c \in Clients |-> FALSE] /\ exitHandle' = [c \in Clients |-> FALSE]
    /\ UNCHANGED <<clientVars, requested, generated, adding, outpaced, dumpVars>>

---------------------------------------------------------------------------

DumpCallback(c) ==
    OnDumpRequest(c) \/ GenerateDump(c) \/ SignalDumpGenerated(c) \/ ResetDumpRequest(c)
EndCallback(c) == OnClientEnd(c) \/ CountCleanup(c) \/ QueueCleanup(c) \/ UncountCleanup(c)
CleanupItem(c) ==
    CleanupClient(c) \/ UnregisterRequestWait(c) \/ DeleteClientInfo(c) \/ CleanupReturns(c)
Destructor == UnregisterWaits \/ AwaitItems \/ DeleteClients \/ ReleaseMutex
Waits(c) ==
    ResetDumpGenerated(c) \/ SignalCrashEvent(c) \/ Answered(c) \/ ServerGone(c)

Next ==
    \/ \E c \in Clients :
          \/ Respond(c) \/ AddClient(c)
          \/ RequestDump(c) \/ Waits(c) \/ TimesOut(c) \/ Die(c)
          \/ DumpCallback(c) \/ EndCallback(c) \/ CleanupItem(c)
    \/ BeginShutdown \/ Destructor \/ StartThreadEnds \/ ServerDies

Spec == Init /\ [][Next]_vars

\* Threads of the server and of the clients run; nothing forces a client to
\* ask, to give up waiting or to die, the server to be destroyed, or a thread
\* of it to end.
FairSpec ==
    /\ Spec
    /\ WF_vars(Destructor)
    /\ \A c \in Clients :
          /\ WF_vars(AddClient(c)) /\ WF_vars(Waits(c)) /\ WF_vars(DumpCallback(c))
          /\ WF_vars(EndCallback(c)) /\ WF_vars(CleanupItem(c))

---------------------------------------------------------------------------

\* Types of the variables.
TypeOK ==
    /\ client \in [Clients -> {"out", "running", "asking", "reset", "waiting", "true", "false",
                               "dead"}]
    /\ asked \in [Clients -> Nat] /\ plan \in Plans
    /\ {requested, generated, requestWait, exitWait, requestHandle, exitHandle, late}
          \subseteq [Clients -> BOOLEAN]
    /\ generate_dumps_ \in BOOLEAN /\ outpaced \subseteq Clients
    /\ alive \in Clients \cup {"server", "none"}
    /\ adding \in [Clients -> {"no", "request", "exit", "store", "list", "done", "refused"}]
    /\ clients_ \subseteq Clients /\ info \in [Clients -> {"none", "live", "deleted"}]
    /\ dumping \in [Clients -> {"idle", "generate", "signal", "reset"}]
    /\ ending \in [Clients -> {"idle", "count", "queue", "uncount", "done"}]
    /\ item \in [Clients -> {"none", "queued", "removed", "unregistered", "deleted"}]
    /\ cleanup_item_count_ \in 0..Cardinality(Clients)
    /\ dtor \in {"none", "unregister", "await", "delete", "release", "gone", "dead"}
    /\ dumped \in [Clients -> SUBSET Nat] /\ freed \in [Clients -> Nat]

\* crash_generation_client.h:82 says that RequestDump "Returns true if the dump
\* was successful".  What holds: of a server that generates dumps, true means
\* that a dump of this client was written, and the one of this request as long
\* as the client has not given up an earlier one.  After that it may be given
\* the late answer to the one it gave up; and a server that does not generate
\* dumps (generate_dumps_ is false) answers true without one.
TrueMeansDump ==
    \A c \in Clients :
        client[c] = "true" /\ generate_dumps_ =>
            IF late[c] THEN dumped[c] # {} ELSE asked[c] \in dumped[c]

\* A ClientInfo is deleted once, and never while a callback, a work item or
\* AddClient goes on using it or the server still has it on its list; unless
\* the destructor unregisters its waits while a callback runs, or loses the
\* patience with its work item: it waits for neither and deletes it under them.
InfoOutlivesItsUsers ==
    \A c \in Clients \ outpaced :
        /\ freed[c] <= 1
        /\ info[c] = "deleted" =>
              /\ dumping[c] = "idle" /\ ending[c] \in {"idle", "done"}
              /\ item[c] \in {"none", "deleted"}
              /\ Added(c)
              /\ c \in clients_ => dtor \in {"release", "gone"}

\* When the server object is gone no thread is in its code: what the count of
\* work items was zero for is over, and no callback or work item begins after
\* the waits are unregistered.  Those that had begun by then, uncounted, and
\* those that outlast kShutdownDelayMs are not waited for.
ServerOutlivesItsWork ==
    dtor = "gone" => \A c \in Clients \ outpaced :
        dumping[c] = "idle" /\ ending[c] \in {"idle", "done"} /\ item[c] = "none"

\* A client that is dead is eventually forgotten: its ClientInfo is deleted,
\* unless the work item could not be queued, in which case it waits for the
\* destructor.
DeadClientFreed ==
    \A c \in Clients :
        (client[c] = "dead" /\ info[c] = "live")
            ~> (info[c] # "live" \/ (ending[c] = "done" /\ item[c] = "none"))

\* The request was taken and has no answer to come: its dump failed, or it came
\* between the answer to the one before and the ResetEvent after it.
Unheard(c) ==
    /\ ~requested[c]
    /\ asked[c] > 1 \/ (generate_dumps_ /\ asked[c] \notin dumped[c])

\* Without the timeout a client waits in vain only for a dump that failed or,
\* if it has asked before, a request that was wiped out; as a client that the
\* server could not add; or for a server that is gone while another has its
\* mutex: a client that asked too or, if the destructor ran on another thread,
\* the one that called Start.
WaitEnds ==
    \A c \in Clients :
        client[c] = "waiting" ~>
            \/ client[c] # "waiting"
            \/ ~Destroyed /\ (Unheard(c) \/ adding[c] = "refused")
            \/ Destroyed /\ alive \notin {"none", c}
=============================================================================
