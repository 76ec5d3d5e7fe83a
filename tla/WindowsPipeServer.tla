------------------------- MODULE WindowsPipeServer -------------------------
(***************************************************************************)
(* The handshake by which processes register with the Windows               *)
(* CrashGenerationServer: one named pipe, one OVERLAPPED and one            *)
(* manual-reset event that drive the state machine of ReadMe.txt, from      *)
(* Start to the destructor.                                                 *)
(*                                                                          *)
(* Three server threads touch the object: the caller of Start, the wait     *)
(* thread of the pool, which calls OnPipeConnected as long as the event is  *)
(* signaled, and the caller of the destructor.  at[th] is where a thread    *)
(* stands:                                                                  *)
(*    <<"idle">>             not in the server's code                       *)
(*    <<"run", s>>           about to run the handler of state s            *)
(*    <<"set", s, when>>     about to store s in server_state_ (and, if     *)
(*                           when is "now", to signal the event)            *)
(*    <<"add", c>>           in RespondToClient, between WriteFile and      *)
(*                           AddClient                                      *)
(*    <<"check">>            in HandleDisconnectingState, before the second *)
(*                           look at shutting_down_                         *)
(*    <<"unregistered">>, <<"closed">>   inside HandleErrorState            *)
(***************************************************************************)
EXTENDS Integers

CONSTANTS
    Clients,     \* processes that open the pipe, each once
    Others,      \* those of them that do not run Register but write anything
    StartRaces   \* may callbacks run before Start returns?

None == "none"

ASSUME WindowsPipeServerAssumption ==
    StartRaces \in BOOLEAN /\ None \notin Clients /\ Others \subseteq Clients

VARIABLES
    state,         \* server_state_
    event,         \* is overlapped_.hEvent signaled?
    io,            \* the operation overlapped_ belongs to: [op, st]
    msg,           \* msg_
    client_info_,  \* the client whose ClientInfo client_info_ points to
    info,          \* per client: what became of its ClientInfo
    called,        \* per client: calls of connect_callback_
    shutting_down_,
    waiting,       \* is OnPipeConnected registered on the event?
    wait_handle,   \* is pipe_wait_handle_ not NULL?
    pipe_handle,   \* is pipe_ not NULL?
    at,            \* per server thread: where it is
    started,       \* what Start returned
    dtor,          \* where the destructor is
    pipe, peer,    \* state of the pipe, process that has its other end
    toServer, toClient, \* messages in the pipe
    client         \* per client: where Register is, or what it returned

serverVars == <<state, msg, client_info_, info, called>>
waitVars   == <<waiting, wait_handle>>
lifeVars   == <<shutting_down_, started, dtor, pipe_handle>>
ioVars     == <<event, io>>
pipeVars   == <<pipe, peer, toServer, toClient>>
vars == <<serverVars, waitVars, lifeVars, ioVars, pipeVars, at, client>>

Threads == {"start", "wait"}
States == {"UNINITIALIZED", "ERROR", "INITIAL", "CONNECTING", "CONNECTED", "READING",
           "READ_DONE", "WRITING", "WRITE_DONE", "READING_ACK", "DISCONNECTING"}
Idle == <<"idle">>
Registering == {"open", "asked", "replied"}   \* has the pipe open
\* The messages of a client: with the tag of a request or another, and of the
\* wrong size; a "long" one does not fit in msg_.
Messages == {"request", "ack", "short", "long"}

Init ==
    /\ state = "UNINITIALIZED" /\ event = FALSE /\ io = [op |-> None, st |-> None]
    /\ msg = None /\ client_info_ = None
    /\ info = [c \in Clients |-> None] /\ called = [c \in Clients |-> 0]
    /\ shutting_down_ = FALSE /\ waiting = FALSE
    /\ wait_handle = FALSE /\ pipe_handle = FALSE
    /\ at = [th \in Threads |-> Idle] /\ started = None /\ dtor = None
    /\ pipe = None /\ peer = None /\ toServer = None /\ toClient = FALSE
    /\ client = [c \in Clients |-> "new"]

Goto(th, where) == at' = [at EXCEPT ![th] = where]
Set(th, s, when) == Goto(th, <<"set", s, when>>)
Stands(th, where) == at[th][1] = where
Running(th, s) == Stands(th, "run") /\ at[th][2] = s
Adding(c) == Stands("wait", "add") /\ at["wait"][2] = c

---------------------------------------------------------------------------
(* The pipe.  An overlapped operation resets the event when it is issued    *)
(* and signals it when it completes; it fails when the server disconnects   *)
(* or closes the pipe.                                                      *)

Issue(op) == io' = [op |-> op, st |-> "pending"] /\ event' = FALSE
Complete(st) == io' = [io EXCEPT !.st = st] /\ event' = TRUE
Cancel == IF io.st = "pending" THEN Complete("failed") ELSE UNCHANGED ioVars

\* The server's end goes to s: both directions are emptied.
Drop(s) == pipe' = s /\ peer' = None /\ toServer' = None /\ toClient' = FALSE

\* What a read finds: data, or a client that closed its end, or it waits.
Readable == toServer # None \/ pipe = "closing"

ReadCompletes ==
    /\ io = [op |-> "read", st |-> "pending"] /\ Readable
    /\ Complete(IF toServer \in {None, "long"} THEN "failed" ELSE "ok")
    /\ msg' = IF toServer # None THEN toServer ELSE msg
    /\ toServer' = None
    /\ UNCHANGED <<state, client_info_, info, called, waitVars, lifeVars, pipe, peer, toClient, at, client>>

WriteCompletes ==
    /\ io = [op |-> "write", st |-> "pending"]
    /\ Complete("ok") \/ (pipe = "closing" /\ Complete("failed"))
    /\ UNCHANGED <<serverVars, waitVars, lifeVars, pipeVars, at, client>>

---------------------------------------------------------------------------
(* Start, on its caller's thread.                                           *)

\* The event, the wait on it and the pipe, whose instance listens at once.
Start ==
    /\ state = "UNINITIALIZED" /\ dtor = None
    /\ state' = "INITIAL" /\ waiting' = TRUE /\ wait_handle' = TRUE
    /\ pipe' = "listening" /\ pipe_handle' = TRUE
    /\ Goto("start", <<"run", "INITIAL">>)
    /\ UNCHANGED <<msg, client_info_, info, called, shutting_down_, started, dtor,
                   ioVars, peer, toServer, toClient, client>>

\* The name of the pipe is taken: pipe_ is INVALID_HANDLE_VALUE.
StartFails ==
    /\ state = "UNINITIALIZED" /\ dtor = None
    /\ state' = "INITIAL" /\ waiting' = TRUE /\ wait_handle' = TRUE
    /\ pipe_handle' = TRUE /\ started' = "false"
    /\ UNCHANGED <<msg, client_info_, info, called, shutting_down_, dtor,
                   ioVars, pipeVars, at, client>>

StartReturns ==
    /\ Stands("start", "return")
    /\ started' = IF state # "ERROR" THEN "true" ELSE "false"
    /\ Goto("start", Idle)
    /\ UNCHANGED <<serverVars, waitVars, shutting_down_, dtor, pipe_handle, ioVars,
                   pipeVars, client>>

---------------------------------------------------------------------------
(* The state machine.                                                       *)

\* The event is signaled: the wait thread runs the handler of the state.
OnPipeConnected ==
    /\ waiting /\ event /\ Stands("wait", "idle")
    /\ StartRaces \/ Stands("start", "idle")
    /\ IF shutting_down_
       THEN state' = "ERROR" /\ event' = FALSE /\ UNCHANGED at
       ELSE Goto("wait", <<"run", state>>) /\ UNCHANGED <<state, event>>
    /\ UNCHANGED <<msg, client_info_, info, called, waitVars, lifeVars, io, pipeVars, client>>

\* BUG (mutant): the state changes as if the handler had finished its I/O.
EnterStateSkipsReading(th) ==
    /\ Stands(th, "set")
    /\ state' = IF at[th][2] = "READING" THEN "READ_DONE" ELSE at[th][2]
    /\ event' = (event \/ at[th][3] = "now")
    /\ Goto(th, IF th = "start" THEN <<"return">> ELSE Idle)
    /\ UNCHANGED <<msg, client_info_, info, called, waitVars, lifeVars, io, pipeVars, client>>

\* EnterStateImmediately ("now"), EnterStateWhenSignaled, and the assignment
\* of EnterErrorState.  SetEvent succeeds, or there is none.
EnterState(th) ==
    /\ Stands(th, "set")
    /\ state' = at[th][2]
    /\ event' = (event \/ at[th][3] = "now")
    /\ Goto(th, IF th = "start" THEN <<"return">> ELSE Idle)
    /\ UNCHANGED <<msg, client_info_, info, called, waitVars, lifeVars, io, pipeVars, client>>

\* EnterStateImmediately when SetEvent fails: nobody will run the handler of
\* ERROR unless the event is signaled already.
SetEventFails(th) ==
    /\ Stands(th, "set") /\ at[th][3] = "now"
    /\ state' = "ERROR"
    /\ Goto(th, IF th = "start" THEN <<"return">> ELSE Idle)
    /\ UNCHANGED <<msg, client_info_, info, called, waitVars, lifeVars, ioVars, pipeVars, client>>

\* EnterErrorState calls SetEvent, does not look at its result, and stores the
\* state; ResetEvent, before, may have failed too.
EnterErrorState(th) == event' \in BOOLEAN /\ Set(th, "ERROR", "later")

\* ResetEvent and ConnectNamedPipe, which waits for a client, finds one
\* connected already, or fails (surely on one that has come and gone).
HandleInitialState(th) ==
    /\ Running(th, "INITIAL")
    /\ \/ /\ pipe \in {"listening", "disconnected"}
          /\ pipe' = "listening" /\ Issue("connect") /\ Set(th, "CONNECTING", "later")
       \/ /\ pipe = "open"
          /\ event' = FALSE /\ Set(th, "CONNECTED", "now") /\ UNCHANGED <<pipe, io>>
       \/ EnterErrorState(th) /\ UNCHANGED <<pipe, io>>
    /\ UNCHANGED <<serverVars, waitVars, lifeVars, peer, toServer, toClient, client>>

\* A pending operation leaves the server in the CONNECTING state.
HandleConnectingState ==
    /\ Running("wait", "CONNECTING")
    /\ CASE io.st = "ok" -> Set("wait", "CONNECTED", "now")
         [] io.st = "failed" -> Set("wait", "DISCONNECTING", "now")
         [] OTHER -> Goto("wait", Idle)
    /\ UNCHANGED <<serverVars, waitVars, lifeVars, ioVars, pipeVars, client>>

\* ReadFile.
StartRead(next) ==
    IF pipe = "open" \/ (pipe = "closing" /\ toServer # None)
    THEN Issue("read") /\ Set("wait", next, "later")
    ELSE UNCHANGED ioVars /\ Set("wait", "DISCONNECTING", "now")

HandleConnectedState ==
    /\ Running("wait", "CONNECTED")
    /\ msg' = None /\ StartRead("READING")
    /\ UNCHANGED <<state, client_info_, info, called, waitVars, lifeVars, pipeVars, client>>

\* BUG (mutant): a bad message leaves the server in the READING state.
HandleReadingStateRemains ==
    /\ Running("wait", "READING")
    /\ IF io.st = "ok" /\ msg # "short" THEN Set("wait", "READ_DONE", "now")
                                        ELSE Goto("wait", Idle)
    /\ UNCHANGED <<serverVars, waitVars, lifeVars, ioVars, pipeVars, client>>

HandleReadingState ==
    /\ Running("wait", "READING")
    /\ Set("wait", IF io.st = "ok" /\ msg # "short" THEN "READ_DONE" ELSE "DISCONNECTING", "now")
    /\ UNCHANGED <<serverVars, waitVars, lifeVars, ioVars, pipeVars, client>>

\* IsClientRequestValid, ClientInfo::Initialize (OpenProcess may fail), and
\* RespondToClient up to WriteFile; the message names the client.
HandleReadDoneState ==
    /\ Running("wait", "READ_DONE")
    /\ \/ /\ msg = "request" /\ pipe = "open"
          /\ info' = [info EXCEPT ![peer] = "new"]
          /\ toClient' = TRUE /\ Issue("write") /\ Goto("wait", <<"add", peer>>)
       \/ /\ Set("wait", "DISCONNECTING", "now")
          /\ UNCHANGED <<info, toClient, ioVars>>
    /\ UNCHANGED <<state, msg, client_info_, called, waitVars, lifeVars, pipe, peer, toServer, client>>

\* BUG (mutant): the list of clients forgets the client.
AddClientForgets ==
    /\ Stands("wait", "add")
    /\ client_info_' = at["wait"][2] /\ Set("wait", "WRITING", "later")
    /\ UNCHANGED <<state, msg, info, called, waitVars, lifeVars, ioVars, pipeVars, client>>

\* The waits on the client's event and process; if one cannot be
\* registered the ClientInfo is deleted and the write is left pending.
AddClient ==
    /\ Stands("wait", "add")
    /\ LET c == at["wait"][2] IN
       \/ /\ info' = [info EXCEPT ![c] = "listed"] /\ client_info_' = c
          /\ Set("wait", "WRITING", "later")
       \/ /\ info' = [info EXCEPT ![c] = "refused"] /\ UNCHANGED client_info_
          /\ Set("wait", "DISCONNECTING", "now")
    /\ UNCHANGED <<state, msg, called, waitVars, lifeVars, ioVars, pipeVars, client>>

HandleWritingState ==
    /\ Running("wait", "WRITING")
    /\ Set("wait", IF io.st = "ok" THEN "WRITE_DONE" ELSE "DISCONNECTING", "now")
    /\ UNCHANGED <<serverVars, waitVars, lifeVars, ioVars, pipeVars, client>>

HandleWriteDoneState ==
    /\ Running("wait", "WRITE_DONE")
    /\ StartRead("READING_ACK")
    /\ UNCHANGED <<serverVars, waitVars, lifeVars, pipeVars, client>>

\* Neither its tag nor its length is looked at: any second message that fits
\* completes the handshake.
HandleReadingAckState ==
    /\ Running("wait", "READING_ACK")
    /\ called' = IF io.st = "ok" THEN [called EXCEPT ![client_info_] = @ + 1] ELSE called
    /\ Set("wait", "DISCONNECTING", "now")
    /\ UNCHANGED <<state, msg, client_info_, info, waitVars, lifeVars, ioVars, pipeVars, client>>

\* ResetEvent, then DisconnectNamedPipe, which fails when the destructor has
\* disconnected the pipe already; either may fail for reasons of its own.
HandleDisconnectingState ==
    /\ Running("wait", "DISCONNECTING")
    /\ client_info_' = None
    /\ \/ EnterErrorState("wait") /\ UNCHANGED <<io, pipeVars>>
       \/ /\ pipe \notin {"disconnected", None}
          /\ Drop("disconnected") /\ Goto("wait", <<"check">>)
          /\ io' = [op |-> None, st |-> None] /\ event' = (io.st = "pending")
    /\ UNCHANGED <<state, msg, info, called, waitVars, lifeVars, client>>

\* BUG (mutant): the event is not signaled for the INITIAL state.
DisconnectingNotSignaled ==
    /\ Stands("wait", "check")
    /\ IF shutting_down_ THEN Goto("wait", Idle) ELSE Set("wait", "INITIAL", "later")
    /\ UNCHANGED <<serverVars, waitVars, lifeVars, ioVars, pipeVars, client>>

DisconnectingChecks ==
    /\ Stands("wait", "check")
    /\ IF shutting_down_ THEN Goto("wait", Idle) ELSE Set("wait", "INITIAL", "now")
    /\ UNCHANGED <<serverVars, waitVars, lifeVars, ioVars, pipeVars, client>>

\* UnregisterWait, unless the server is shutting down.
HandleErrorState ==
    /\ Running("wait", "ERROR")
    /\ IF shutting_down_
       THEN Goto("wait", Idle) /\ UNCHANGED waitVars
       ELSE Goto("wait", <<"unregistered">>) /\ waiting' = FALSE /\ wait_handle' = FALSE
    /\ UNCHANGED <<serverVars, lifeVars, ioVars, pipeVars, client>>

ErrorClosesPipe ==
    /\ Stands("wait", "unregistered")
    /\ Drop(None) /\ Cancel /\ pipe_handle' = FALSE
    /\ Goto("wait", <<"closed">>)
    /\ UNCHANGED <<serverVars, waitVars, shutting_down_, started, dtor, client>>

\* CloseHandle of the event is the last step.
ErrorReturns ==
    /\ Stands("wait", "closed")
    /\ event' = FALSE /\ Goto("wait", Idle)
    /\ UNCHANGED <<serverVars, waitVars, lifeVars, io, pipeVars, client>>

WaitThread ==
    \/ OnPipeConnected \/ EnterState("wait") \/ HandleInitialState("wait")
    \/ HandleConnectingState \/ HandleConnectedState \/ HandleReadingState
    \/ HandleReadDoneState \/ AddClient \/ HandleWritingState \/ HandleWriteDoneState
    \/ HandleReadingAckState \/ HandleDisconnectingState \/ DisconnectingChecks
    \/ HandleErrorState \/ ErrorClosesPipe \/ ErrorReturns

StartThread == EnterState("start") \/ HandleInitialState("start") \/ StartReturns

---------------------------------------------------------------------------
(* The destructor, on a thread of the application.                          *)

BeginShutdown ==
    /\ started # None /\ dtor = None
    /\ shutting_down_' = TRUE /\ dtor' = "disconnect"
    /\ UNCHANGED <<serverVars, waitVars, started, pipe_handle, ioVars, pipeVars, at, client>>

\* DisconnectNamedPipe(pipe_).
DisconnectPipe ==
    /\ dtor = "disconnect" /\ dtor' = "wait"
    /\ IF pipe = None THEN UNCHANGED <<pipeVars, ioVars>> ELSE Drop("disconnected") /\ Cancel
    /\ UNCHANGED <<serverVars, waitVars, shutting_down_, started, pipe_handle, at, client>>

\* A hundred looks, ten milliseconds apart: it may go on without ERROR.
AwaitError ==
    /\ dtor = "wait" /\ dtor' = "unregister"
    /\ UNCHANGED <<serverVars, waitVars, shutting_down_, started, pipe_handle, ioVars, pipeVars, at, client>>

\* BUG (mutant): UnregisterWait, which does not wait for a callback.
UnregisterPipeNoWait ==
    /\ dtor = "unregister" /\ dtor' = "close"
    /\ waiting' = (IF wait_handle THEN FALSE ELSE waiting) /\ UNCHANGED wait_handle
    /\ UNCHANGED <<serverVars, shutting_down_, started, pipe_handle, ioVars, pipeVars, at, client>>

\* UnregisterWaitEx waits for a running callback, if there is a handle.
UnregisterPipeWait ==
    /\ dtor = "unregister" /\ dtor' = "close"
    /\ wait_handle => Stands("wait", "idle")
    /\ waiting' = (IF wait_handle THEN FALSE ELSE waiting) /\ UNCHANGED wait_handle
    /\ UNCHANGED <<serverVars, shutting_down_, started, pipe_handle, ioVars, pipeVars, at, client>>

ClosePipe ==
    /\ dtor = "close" /\ dtor' = "delete"
    /\ IF pipe_handle THEN Drop(None) /\ Cancel ELSE UNCHANGED <<pipeVars, ioVars>>
    /\ UNCHANGED <<serverVars, waitVars, shutting_down_, started, pipe_handle, at, client>>

\* The ClientInfos of the list are deleted and the object is gone.
DeleteClients ==
    /\ dtor = "delete" /\ dtor' = "gone"
    /\ info' = [c \in Clients |-> IF info[c] = "listed" THEN "deleted" ELSE info[c]]
    /\ UNCHANGED <<state, msg, client_info_, called, waitVars, shutting_down_, started,
                   pipe_handle, ioVars, pipeVars, at, client>>

Destructor ==
    \/ DisconnectPipe \/ AwaitError \/ UnregisterPipeWait \/ ClosePipe \/ DeleteClients

---------------------------------------------------------------------------
(* The clients, those that run Register and other programs that open the    *)
(* pipe, and their deaths.                                                  *)

ClientTo(c, where) == client' = [client EXCEPT ![c] = where]
Hold(c) == peer = c /\ pipe = "open"
HangUp(c) == pipe' = IF Hold(c) THEN "closing" ELSE pipe

\* CreateFile finds the instance listening.
ConnectToPipe(c) ==
    /\ client[c] = "new" /\ pipe = "listening"
    /\ pipe' = "open" /\ peer' = c /\ ClientTo(c, "open")
    /\ IF io = [op |-> "connect", st |-> "pending"] THEN Complete("ok") ELSE UNCHANGED ioVars
    /\ UNCHANGED <<serverVars, waitVars, lifeVars, toServer, toClient, at>>

\* Busy twice, or no pipe.
ConnectFails(c) ==
    /\ client[c] = "new" /\ pipe # "listening"
    /\ ClientTo(c, "false")
    /\ UNCHANGED <<serverVars, waitVars, lifeVars, ioVars, pipeVars, at>>

\* The first half of TransactNamedPipe.  A request names the process that
\* writes it.
WriteRequest(c) ==
    /\ client[c] = "open" /\ Hold(c)
    /\ toServer' \in IF c \in Others THEN Messages ELSE {"request"}
    /\ ClientTo(c, "asked")
    /\ UNCHANGED <<serverVars, waitVars, lifeVars, ioVars, pipe, peer, toClient, at>>

ReadReply(c) ==
    /\ client[c] = "asked" /\ Hold(c) /\ toClient
    /\ toClient' = FALSE /\ ClientTo(c, "replied")
    /\ UNCHANGED <<serverVars, waitVars, lifeVars, ioVars, pipe, peer, toServer, at>>

\* The acknowledgement, then CloseHandle: Register returns true.
WriteAck(c) ==
    /\ client[c] = "replied" /\ Hold(c)
    /\ toServer' = "ack" /\ ClientTo(c, "true") /\ HangUp(c)
    /\ UNCHANGED <<serverVars, waitVars, lifeVars, ioVars, peer, toClient, at>>

\* Another program writes a second message, whatever it is and whether or not
\* it has read the reply, and keeps the pipe.  What it writes before the first
\* message is read waits behind it and is read no sooner.
WriteOther(c) ==
    /\ c \in Others /\ client[c] \in {"asked", "replied"}
    /\ Hold(c) /\ toServer = None
    /\ toServer' \in Messages /\ ClientTo(c, "other")
    /\ UNCHANGED <<serverVars, waitVars, lifeVars, ioVars, pipe, peer, toClient, at>>

OtherCloses(c) ==
    /\ client[c] = "other" /\ Hold(c) /\ HangUp(c)
    /\ UNCHANGED <<serverVars, waitVars, lifeVars, ioVars, peer, toServer, toClient, at, client>>

\* The server has disconnected the pipe.
CallFails(c) ==
    /\ client[c] \in Registering /\ ~Hold(c)
    /\ ClientTo(c, "false")
    /\ UNCHANGED <<serverVars, waitVars, lifeVars, ioVars, pipeVars, at>>

\* A client gives up before the handshake is over: one that validates the
\* reply and refuses it, or another program.
Close(c) ==
    /\ client[c] \in Registering
    /\ ClientTo(c, "false") /\ HangUp(c)
    /\ UNCHANGED <<serverVars, waitVars, lifeVars, ioVars, peer, toServer, toClient, at>>

Die(c) ==
    /\ client[c] \notin {"new", "dead"}
    /\ ClientTo(c, "dead") /\ HangUp(c)
    /\ UNCHANGED <<serverVars, waitVars, lifeVars, ioVars, peer, toServer, toClient, at>>

\* OnClientEnd and CleanupClient, on threads of the pool.
CleanupClient(c) ==
    /\ client[c] = "dead" /\ info[c] = "listed" /\ dtor \notin {"delete", "gone"}
    /\ info' = [info EXCEPT ![c] = "deleted"]
    /\ UNCHANGED <<state, msg, client_info_, called, waitVars, lifeVars, ioVars, pipeVars, at, client>>

Registers(c) ==
    \/ ConnectToPipe(c) \/ ConnectFails(c) \/ WriteRequest(c) \/ ReadReply(c)
    \/ WriteAck(c) \/ WriteOther(c) \/ OtherCloses(c) \/ CallFails(c)

\* Everything has happened.
Finished ==
    /\ dtor = "gone" /\ \A c \in Clients : client[c] \notin Registering \cup {"new"}
    /\ UNCHANGED vars

Next ==
    \/ Start \/ StartFails \/ StartThread \/ WaitThread
    \/ SetEventFails("start") \/ SetEventFails("wait")
    \/ ReadCompletes \/ WriteCompletes
    \/ BeginShutdown \/ Destructor
    \/ \E c \in Clients : Registers(c) \/ Close(c) \/ Die(c) \/ CleanupClient(c)
    \/ Finished

Spec == Init /\ [][Next]_vars

\* The server's threads run, the kernel completes what it can, and a client
\* that waits for its reply gets it, or an error when the server is gone from
\* the pipe.  Nobody has to connect, write, close, die, call Start or destroy
\* the server.
FairSpec ==
    /\ Spec
    /\ WF_vars(StartThread) /\ WF_vars(WaitThread) /\ WF_vars(Destructor)
    /\ WF_vars(ReadCompletes) /\ WF_vars(WriteCompletes)
    /\ \A c \in Clients : WF_vars(ReadReply(c)) /\ WF_vars(CallFails(c))

---------------------------------------------------------------------------

\* Types of the variables.
FlagsOK ==
    /\ event \in BOOLEAN /\ shutting_down_ \in BOOLEAN /\ waiting \in BOOLEAN
    /\ wait_handle \in BOOLEAN /\ pipe_handle \in BOOLEAN /\ toClient \in BOOLEAN
DataOK ==
    /\ state \in States
    /\ io \in [op : {None, "connect", "read", "write"}, st : {None, "pending", "ok", "failed"}]
    /\ msg \in Messages \cup {None} /\ client_info_ \in Clients \cup {None}
    /\ info \in [Clients -> {None, "new", "listed", "refused", "deleted"}]
    /\ called \in [Clients -> 0..1]
    /\ started \in {None, "true", "false"}
    /\ dtor \in {None, "disconnect", "wait", "unregister", "close", "delete", "gone"}
    /\ pipe \in {None, "listening", "disconnected", "open", "closing"}
    /\ peer \in Clients \cup {None} /\ toServer \in Messages \cup {None}
    /\ client \in [Clients -> Registering \cup {"new", "true", "false", "other", "dead"}]
    /\ \A th \in Threads :
          \/ at[th][1] \in {"idle", "add", "check", "unregistered", "closed", "return"}
          \/ at[th][1] \in {"run", "set"} /\ at[th][2] \in States
TypeOK == FlagsOK /\ DataOK

\* The transitions of ReadMe.txt, with the start of the server.
Allowed(s, t) ==
    \/ <<s, t>> \in
             {<<"UNINITIALIZED", "INITIAL">>, <<"INITIAL", "CONNECTING">>,
              <<"INITIAL", "CONNECTED">>, <<"INITIAL", "ERROR">>,
              <<"CONNECTING", "CONNECTED">>, <<"CONNECTED", "READING">>,
              <<"READING", "READ_DONE">>, <<"READ_DONE", "WRITING">>,
              <<"WRITING", "WRITE_DONE">>, <<"WRITE_DONE", "READING_ACK">>,
              <<"DISCONNECTING", "INITIAL">>, <<"DISCONNECTING", "ERROR">>}
    \/ t = "DISCONNECTING" /\ s \notin {"UNINITIALIZED", "ERROR", "INITIAL"}

\* The server goes from state to state as ReadMe.txt says; to ERROR also at
\* any time of its shutdown, and when the event cannot be signaled.
StateMachineTable ==
    [][\/ UNCHANGED state
       \/ shutting_down_ /\ state' = "ERROR"
       \/ \E th \in Threads : SetEventFails(th)
       \/ Allowed(state, state')]_vars

\* Processes that have written a second message, or died.
Spoken == {"true", "other", "dead"}

\* connect_callback_ hears of a client at most once, and only when the client
\* has written a second message: never of one that is still in Register or
\* whose Register returned false.  (ReadMe.txt:45 and
\* crash_generation_server.h:134 speak of an ACK; the server takes any second
\* message for it.)  A client whose Register returned true is one the
\* server has, or is about to put, on its list, unless it cannot wait on the
\* client's handles or has deleted it with itself or after its death.
HandshakeAgrees ==
    \A c \in Clients :
        /\ called[c] <= 1
        /\ called[c] = 1 => client[c] \in Spoken
        /\ client[c] = "true" => \/ info[c] \in {"listed", "refused"}
                                 \/ info[c] = "new" /\ Adding(c)
                                 \/ info[c] = "deleted" /\ dtor = "gone"

\* When the server object is gone nothing completes into its OVERLAPPED and
\* no callback runs in it, save one that was in HandleErrorState, which
\* clears pipe_wait_handle_ before it is done.
NothingOutlives ==
    dtor = "gone" =>
        /\ io.st # "pending"
        /\ at["wait"][1] \in {"idle", "unregistered", "closed"}

\* A client that waits for the reply in TransactNamedPipe does not wait for
\* ever: the server answers, whatever the message was, or lets go of the pipe;
\* unless its event cannot be signaled and it rests in ERROR with the pipe open.
RegisterReturns ==
    \A c \in Clients :
        client[c] = "asked" ~> \/ client[c] # "asked"
                               \/ state = "ERROR" /\ ~event /\ ~shutting_down_

\* The server has no timeout: a client may keep the pipe for ever by writing
\* nothing.  If each that has it writes in the end, or closes, or dies, the
\* server comes back for the next one, unless it has failed or is being
\* destroyed.
Silent(c) == Hold(c) /\ client[c] \in {"open", "replied"}
ServesAgain ==
    (\A c \in Clients : []<>~Silent(c))
        => (started = "true" ~> (state \in {"CONNECTING", "ERROR"} \/ shutting_down_))
=============================================================================
