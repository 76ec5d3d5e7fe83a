------------------------- MODULE MacCrashGeneration -------------------------
(***************************************************************************)
(* Crash generation on the Mac: a CrashGenerationServer receives requests on *)
(* a named port, dumps the task that sent each and acknowledges it on a port *)
(* made for that request; a CrashGenerationClient sends a request and waits  *)
(* for its acknowledgement, both with a timeout.  The owner of the server    *)
(* starts and stops it.  Timeouts may expire at any time.                    *)
(***************************************************************************)
EXTENDS Naturals, Sequences

CONSTANTS
    Clients,    \* CrashGenerationClient objects
    QueueLimit, \* messages a port holds
    MayDie      \* can the server's process be killed?

VARIABLES
    req,    \* per client: "idle", "sent", or what the request returns
    number, \* per client: the number of its last request
    mq,     \* messages at the server's port: <<"dump", client, number>>, <<"quit">>
    acked,  \* requests whose port has an acknowledgement
    server, \* the server's thread: "none", "receive", "dump", "callback", "ack"
    job,    \* the request it serves
    held,   \* clients whose task it has suspended
    owner,  \* "init", "started", "joining", "stopped", "deleted"
    lives,  \* is the server's process there?
    tried   \* history: requests whose dump was tried

ask == <<req, number>>
vars == <<ask, mq, acked, server, job, held, owner, lives, tried>>

Init ==
    /\ req = [c \in Clients |-> "idle"] /\ number = [c \in Clients |-> 0]
    /\ mq = <<>> /\ acked = {} /\ server = "none" /\ job = <<>> /\ held = {}
    /\ owner = "init" /\ lives = TRUE /\ tried = {}

-----------------------------------------------------------------------------
(* RequestDumpForException *)

\* The message is queued, or cannot be for two seconds.
RequestDump(c) ==
    /\ req[c] = "idle" /\ number' = [number EXCEPT ![c] = @ + 1]
    /\ \/ /\ lives /\ Len(mq) < QueueLimit
          /\ mq' = Append(mq, <<"dump", c, number'[c]>>)
          /\ req' = [req EXCEPT ![c] = "sent"]
       \/ /\ ~lives \/ Len(mq) = QueueLimit
          /\ req' = [req EXCEPT ![c] = "false"] /\ UNCHANGED mq
    /\ UNCHANGED <<acked, server, job, held, owner, lives, tried>>

\* BUG (mutant): one port for all the requests of a client.
AcknowledgedOnOnePort(c) ==
    /\ req[c] = "sent" /\ \E a \in acked : a[1] = c
    /\ req' = [req EXCEPT ![c] = "true"]
    /\ UNCHANGED <<number, mq, acked, server, job, held, owner, lives, tried>>

Acknowledged(c) ==
    /\ req[c] = "sent" /\ <<c, number[c]>> \in acked
    /\ req' = [req EXCEPT ![c] = "true"]
    /\ UNCHANGED <<number, mq, acked, server, job, held, owner, lives, tried>>

\* Five seconds without one.
TimesOut(c) ==
    /\ req[c] = "sent" /\ <<c, number[c]>> \notin acked
    /\ req' = [req EXCEPT ![c] = "false"]
    /\ UNCHANGED <<number, mq, acked, server, job, held, owner, lives, tried>>

Return(c, ok) ==
    /\ req[c] = IF ok THEN "true" ELSE "false"
    /\ req' = [req EXCEPT ![c] = "idle"]
    /\ UNCHANGED <<number, mq, acked, server, job, held, owner, lives, tried>>

-----------------------------------------------------------------------------
(* WaitForMessages *)

\* A request, whose task is suspended for the dump, or the order to quit.
Receive ==
    /\ server = "receive" /\ mq # <<>> /\ mq' = Tail(mq)
    /\ \/ /\ Head(mq)[1] = "quit" /\ server' = "none" /\ UNCHANGED <<job, held>>
       \/ /\ Head(mq)[1] = "dump" /\ server' = "dump"
          /\ job' = Tail(Head(mq)) /\ held' = {Head(mq)[2]}
    /\ UNCHANGED <<ask, acked, owner, lives, tried>>

\* The generator writes, and the task is resumed.
Dump(ok) ==
    /\ server = "dump" /\ server' = IF ok THEN "callback" ELSE "ack"
    /\ held' = {} /\ tried' = tried \cup {job}
    /\ UNCHANGED <<ask, mq, acked, job, owner, lives>>

Callback ==
    /\ server = "callback" /\ server' = "ack"
    /\ UNCHANGED <<ask, mq, acked, job, held, owner, lives, tried>>

\* The acknowledgement says nothing of the dump.
Ack ==
    /\ server = "ack" /\ server' = "receive"
    /\ acked' = acked \cup {job} /\ job' = <<>>
    /\ UNCHANGED <<ask, mq, held, owner, lives, tried>>

Serve == Receive \/ (\E ok \in BOOLEAN : Dump(ok)) \/ Callback \/ Ack

-----------------------------------------------------------------------------
(* The owner *)

Start ==
    /\ owner = "init" /\ owner' = "started" /\ server' = "receive"
    /\ UNCHANGED <<ask, mq, acked, job, held, lives, tried>>

Stop ==
    /\ owner = "started" /\ Len(mq) < QueueLimit
    /\ mq' = Append(mq, <<"quit">>) /\ owner' = "joining"
    /\ UNCHANGED <<ask, acked, server, job, held, lives, tried>>

\* Without room for the order to quit, Stop fails without a join and the destructor
\* goes on: the thread uses an object that is gone (it crashes; or it is unharmed, as
\* without this step).
Destroy ==
    /\ owner = "started" /\ Len(mq) = QueueLimit
    /\ owner' = "deleted" /\ lives' = FALSE /\ server' = "none" /\ mq' = <<>>
    /\ UNCHANGED <<ask, acked, job, held, tried>>

Join ==
    /\ owner = "joining" /\ server = "none" /\ owner' = "stopped"
    /\ UNCHANGED <<ask, mq, acked, server, job, held, lives, tried>>

\* The kernel does not undo a suspension.
ServerDies ==
    /\ MayDie /\ lives /\ lives' = FALSE /\ server' = "none" /\ mq' = <<>>
    /\ UNCHANGED <<ask, acked, job, held, owner, tried>>

Own == lives /\ (Start \/ Stop \/ Destroy \/ Join)
=============================================================================
