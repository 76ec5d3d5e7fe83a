------------------------ MODULE LinuxCrashGeneration ------------------------
(***************************************************************************)
(* Out-of-process crash generation on Linux: the crashing clients            *)
(* (CrashGenerationClient::RequestDump), the server thread                   *)
(* (CrashGenerationServer::Run) and the thread that owns the server (Start,  *)
(* Stop).  Clients write one datagram each to a shared SOCK_SEQPACKET        *)
(* channel; it carries one end, fds[1], of a private socketpair.  A client   *)
(* then blocks in read(fds[0]) until a byte comes or every copy of fds[1] is *)
(* closed.                                                                   *)
(*                                                                           *)
(* A client stands for one call of RequestDump; a process that asks twice is *)
(* two clients, as the calls share nothing but the channel.  A process may   *)
(* fork in another thread while it waits: the child inherits descriptors.    *)
(***************************************************************************)
EXTENDS Integers, Sequences, FiniteSets

CONSTANTS
    Clients,        \* the client processes, all of which hold the channel
    Kinds,          \* the datagrams they may send, a subset of AllKinds
    AdjacentInodes, \* does the kernel number the ends of a socketpair n, n+1?
    MaxStarts,      \* bound: calls of Start
    MaxForks,       \* bound: forks of waiting clients
    MaxKills        \* bound: clients killed from outside

(* "good" is what RequestDump sends; "size" comes from a client built with   *)
(* another CrashContext; "fds" carries two descriptors, for which the control *)
(* buffer just has room; "form" carries more, so that its control data are   *)
(* cut off (MSG_CTRUNC).                                                     *)
AllKinds == {"good", "size", "form", "fds"}

(* What carries a descriptor that a return of ClientEvent leaves open.       *)
LeakingKinds == {"size", "form"}

ASSUME LinuxCrashGenerationAssumption ==
    /\ Kinds \subseteq AllKinds
    /\ AdjacentInodes \in BOOLEAN
    /\ MaxStarts \in Nat /\ MaxForks \in Nat /\ MaxKills \in Nat

VARIABLES
    pc,         \* per client: where it is in RequestDump
    kind,       \* per client: the datagram it sends
    ino0, ino1, \* per client: inodes of fds[0] and fds[1], 0 before socketpair
    nextIno,    \* the kernel's next inode number
    child,      \* per client: "none", or a forked child that holds fds[0]
                \*   ("half") or both descriptors ("full")
    queue,      \* the channel: datagrams (by their sender) not yet received
    acks,       \* clients in whose socket the byte of the server is
    sv,         \* the server thread
    ev,         \* revents of the last poll
    cur,        \* the request being served, while sv serves one
    target,     \* crashing_pid as FindProcessHoldingSocket set it
    serverFds,  \* clients whose fds[1] is open in the server process
    dumps,      \* history: <<request, process dumped>>
    own,        \* the owner: "new", "started", "stopping", "stopped"
    control,    \* bytes in the control pipe
    starts, forks, kills

clientVars == <<pc, kind, ino0, ino1, nextIno>>
serverVars == <<sv, ev, cur, target, serverFds, dumps>>
ownerVars  == <<own, control, starts>>
bounds     == <<forks, kills>>
vars == <<clientVars, child, queue, acks, serverVars, ownerVars, bounds>>

Alive == {c \in Clients : pc[c] \notin {"dead", "gone"}}
Queued == {queue[i] : i \in 1..Len(queue)}

\* Processes are named by the client they belong to.
Holders(i) ==
    {<<"client", c>> : c \in {d \in Alive :
        \/ ino0[d] = i /\ pc[d] # "pairing"
        \/ ino1[d] = i /\ pc[d] \in {"paired", "sent"}}}
    \cup {<<"child", c>> : c \in {d \in Clients :
        \/ child[d] # "none" /\ ino0[d] = i
        \/ child[d] = "full" /\ ino1[d] = i}}
    \cup {<<"server", c>> : c \in {d \in serverFds : ino1[d] = i}}

Exists(pid) ==
    CASE pid[1] = "client" -> pid[2] \in Alive
      [] pid[1] = "child"  -> child[pid[2]] # "none"
      [] OTHER -> FALSE      \* the server cannot ptrace itself

Init ==
    /\ pc = [c \in Clients |-> "idle"]
    /\ kind \in [Clients -> Kinds]
    /\ ino0 = [c \in Clients |-> 0]
    /\ ino1 = [c \in Clients |-> 0]
    /\ nextIno = 1
    /\ child = [c \in Clients |-> "none"]
    /\ queue = <<>> /\ acks = {}
    /\ sv = "off"
    /\ ev = [hup |-> FALSE, client |-> FALSE, control |-> FALSE]
    /\ cur \in Clients /\ target = <<"server", cur>>
    /\ serverFds = {} /\ dumps = {}
    /\ own = "new" /\ control = 0
    /\ starts = 0 /\ forks = 0 /\ kills = 0

Goto(c, l) == pc' = [pc EXCEPT ![c] = l]

-----------------------------------------------------------------------------
(* RequestDump, in the crashing process. *)

\* sys_socketpair: the kernel allocates the two sockets one after the other.
Socketpair(c) ==
    /\ pc[c] = "idle"
    /\ AdjacentInodes => \A d \in Clients : pc[d] # "pairing"
    /\ ino0' = [ino0 EXCEPT ![c] = nextIno]
    /\ nextIno' = nextIno + 1
    /\ Goto(c, "pairing")
    /\ UNCHANGED <<kind, ino1, child, queue, acks, serverVars, ownerVars, bounds>>

SocketpairEnds(c) ==
    /\ pc[c] = "pairing"
    /\ ino1' = [ino1 EXCEPT ![c] = nextIno]
    /\ nextIno' = nextIno + 1
    /\ Goto(c, "paired")
    /\ UNCHANGED <<kind, ino0, child, queue, acks, serverVars, ownerVars, bounds>>

\* sys_sendmsg; its result is not looked at.  Without a server process the
\* datagram, and with it the copy of fds[1], goes nowhere.
Sendmsg(c) ==
    /\ pc[c] = "paired"
    /\ queue' = IF sv = "dead" THEN queue ELSE Append(queue, c)
    /\ Goto(c, "sent")
    /\ UNCHANGED <<kind, ino0, ino1, nextIno, child, acks, serverVars, ownerVars, bounds>>

CloseSent(c) ==
    /\ pc[c] = "sent"
    /\ Goto(c, "reading")
    /\ UNCHANGED <<kind, ino0, ino1, nextIno, child, queue, acks, serverVars, ownerVars, bounds>>

\* Every copy of fds[1] is closed: the client's own, the one in flight, those
\* of the server and of a forked child.
Hangup(c) ==
    /\ c \notin Queued
    /\ c \notin serverFds
    /\ child[c] # "full"

\* sys_read returns the byte, or end of file; RequestDump is true either way.
Read(c) ==
    /\ pc[c] = "reading"
    /\ \/ c \in acks /\ Goto(c, "acked")
       \/ c \notin acks /\ Hangup(c) /\ Goto(c, "eof")
    /\ UNCHANGED <<kind, ino0, ino1, nextIno, child, queue, acks, serverVars, ownerVars, bounds>>

-----------------------------------------------------------------------------
(* What happens to client processes. *)

\* The process ends in an orderly way, or of its crash after RequestDump.
Exit(c) ==
    /\ pc[c] \in {"idle", "acked", "eof"}
    /\ Goto(c, "gone")
    /\ UNCHANGED <<kind, ino0, ino1, nextIno, child, queue, acks, serverVars, ownerVars, bounds>>

Kill(c) ==
    /\ c \in Alive /\ kills < MaxKills
    /\ Goto(c, "dead")
    /\ kills' = kills + 1
    /\ UNCHANGED <<kind, ino0, ino1, nextIno, child, queue, acks, serverVars, ownerVars, forks>>

\* Another thread of the process forks: neither end is close-on-exec.
Fork(c) ==
    /\ pc[c] \in {"paired", "sent", "reading"} /\ child[c] = "none"
    /\ forks < MaxForks
    /\ child' = [child EXCEPT ![c] = IF pc[c] = "reading" THEN "half" ELSE "full"]
    /\ forks' = forks + 1
    /\ UNCHANGED <<clientVars, queue, acks, serverVars, ownerVars, kills>>

ChildExits(c) ==
    /\ child[c] # "none"
    /\ child' = [child EXCEPT ![c] = "none"]
    /\ UNCHANGED <<clientVars, queue, acks, serverVars, ownerVars, bounds>>

-----------------------------------------------------------------------------
(* CrashGenerationServer::Run. *)

\* No process holds the client end of the channel any more.
ChannelHup == Alive = {} /\ \A c \in Clients : child[c] = "none"

Poll ==
    /\ sv = "poll"
    /\ queue # <<>> \/ ChannelHup \/ control > 0
    /\ ev' = [hup |-> ChannelHup, client |-> queue # <<>>, control |-> control > 0]
    /\ sv' = "client"
    /\ UNCHANGED <<clientVars, child, queue, acks, cur, target, serverFds, dumps,
                   ownerVars, bounds>>

\* An error of poll other than EINTR ends the thread.
PollFails ==
    /\ sv = "poll"
    /\ sv' = "failed"
    /\ UNCHANGED <<clientVars, child, queue, acks, ev, cur, target, serverFds, dumps,
                   ownerVars, bounds>>

\* BUG (mutant): the descriptors of a datagram that carries two stay open.
ClientEventKeepsFds ==
    /\ sv = "client"
    /\ UNCHANGED <<clientVars, child, acks, ev, target, dumps, ownerVars, bounds>>
    /\ \/ /\ ev.hup
          /\ sv' = "exited"
          /\ UNCHANGED <<queue, cur, serverFds>>
       \/ /\ ~ev.hup /\ ~ev.client
          /\ sv' = "control"
          /\ UNCHANGED <<queue, cur, serverFds>>
       \/ /\ ~ev.hup /\ ev.client
          /\ queue' = Tail(queue)
          /\ cur' = Head(queue)
          /\ serverFds' = serverFds \cup {Head(queue)}
          /\ sv' = IF kind[Head(queue)] = "good" THEN "find" ELSE "control"

\* ClientEvent up to the checks of the datagram: recvmsg opens the descriptors
\* it carries.  All but the "good" ones are dropped; of these only the "fds"
\* kind has its descriptors closed.
ClientEvent ==
    /\ sv = "client"
    /\ UNCHANGED <<clientVars, child, acks, ev, target, dumps, ownerVars, bounds>>
    /\ \/ /\ ev.hup
          /\ sv' = "exited"
          /\ UNCHANGED <<queue, cur, serverFds>>
       \/ /\ ~ev.hup /\ ~ev.client
          /\ sv' = "control"
          /\ UNCHANGED <<queue, cur, serverFds>>
       \/ /\ ~ev.hup /\ ev.client
          /\ queue' = Tail(queue)
          /\ cur' = Head(queue)
          /\ serverFds' = IF kind[Head(queue)] = "fds"
                          THEN serverFds ELSE serverFds \cup {Head(queue)}
          /\ sv' = IF kind[Head(queue)] = "good" THEN "find" ELSE "control"

CloseSignalFd == serverFds' = serverFds \ {cur}

\* BUG (mutant): the first of several holders is taken.
FindProcessFirstHolder ==
    /\ sv = "find"
    /\ \/ \E pid \in Holders(ino1[cur] - 1) :
            target' = pid /\ sv' = "write" /\ UNCHANGED serverFds
       \/ /\ Holders(ino1[cur] - 1) = {}
          /\ CloseSignalFd
          /\ sv' = "control"
          /\ UNCHANGED target
    /\ UNCHANGED <<clientVars, child, queue, acks, ev, cur, dumps, ownerVars, bounds>>

\* BUG (mutant): the signal fd is closed as soon as the process is known.
FindProcessClosesEarly ==
    /\ sv = "find"
    /\ CloseSignalFd
    /\ \/ \E pid \in Holders(ino1[cur] - 1) :
            /\ Holders(ino1[cur] - 1) = {pid}
            /\ target' = pid
            /\ sv' = "write"
       \/ /\ \A pid \in Holders(ino1[cur] - 1) : Holders(ino1[cur] - 1) # {pid}
          /\ sv' = "control"
          /\ UNCHANGED target
    /\ UNCHANGED <<clientVars, child, queue, acks, ev, cur, dumps, ownerVars, bounds>>

\* BUG (mutant): the signal fd is not closed when no process is found.
FindProcessLeaks ==
    /\ sv = "find"
    /\ \/ \E pid \in Holders(ino1[cur] - 1) :
            /\ Holders(ino1[cur] - 1) = {pid}
            /\ target' = pid
            /\ sv' = "write"
       \/ /\ \A pid \in Holders(ino1[cur] - 1) : Holders(ino1[cur] - 1) # {pid}
          /\ sv' = "control"
          /\ UNCHANGED target
    /\ UNCHANGED <<clientVars, child, queue, acks, ev, cur, serverFds, dumps,
                   ownerVars, bounds>>

\* GetInodeForFileDescriptor and FindProcessHoldingSocket: exactly one process
\* must hold the socket numbered one less than the one received.  The file name
\* is then made (it cannot fail: CreateGUID and GUIDToString do not).
FindProcess ==
    /\ sv = "find"
    /\ \/ \E pid \in Holders(ino1[cur] - 1) :
            /\ Holders(ino1[cur] - 1) = {pid}
            /\ target' = pid
            /\ sv' = "write"
            /\ UNCHANGED serverFds
       \/ /\ \A pid \in Holders(ino1[cur] - 1) : Holders(ino1[cur] - 1) # {pid}
          /\ CloseSignalFd
          /\ sv' = "control"
          /\ UNCHANGED target
    /\ UNCHANGED <<clientVars, child, queue, acks, ev, cur, dumps, ownerVars, bounds>>

\* BUG (mutant): the result of WriteMinidump is ignored.
WriteMinidumpIgnored ==
    /\ sv = "write"
    /\ sv' = "done"
    /\ \/ Exists(target) /\ dumps' = dumps \cup {<<cur, target>>}
       \/ UNCHANGED dumps
    /\ UNCHANGED <<clientVars, child, queue, acks, ev, cur, target, serverFds,
                   ownerVars, bounds>>

\* WriteMinidump: it may fail, and needs the process.
WriteMinidump ==
    /\ sv = "write"
    /\ \/ /\ Exists(target)
          /\ dumps' = dumps \cup {<<cur, target>>}
          /\ sv' = "done"
          /\ UNCHANGED serverFds
       \/ /\ CloseSignalFd
          /\ sv' = "control"
          /\ UNCHANGED dumps
    /\ UNCHANGED <<clientVars, child, queue, acks, ev, cur, target, ownerVars, bounds>>

\* dump_callback_, then the done signal (dropped if nobody holds fds[0]), then
\* close.
SendDone ==
    /\ sv = "done"
    /\ acks' = acks \cup {cur}
    /\ CloseSignalFd
    /\ sv' = "control"
    /\ UNCHANGED <<clientVars, child, queue, ev, cur, target, dumps, ownerVars, bounds>>

\* BUG (mutant): the command is read and the loop goes on.
ControlEventGoesOn ==
    /\ sv = "control"
    /\ sv' = "poll"
    /\ control' = IF ev.control THEN control - 1 ELSE control
    /\ UNCHANGED <<clientVars, child, queue, acks, ev, cur, target, serverFds,
                   dumps, own, starts, bounds>>

\* ControlEvent: whatever could be read means quit.
ControlEvent ==
    /\ sv = "control"
    /\ IF ev.control
       THEN control' = control - 1 /\ sv' = "exited"
       ELSE sv' = "poll" /\ UNCHANGED control
    /\ UNCHANGED <<clientVars, child, queue, acks, ev, cur, target, serverFds,
                   dumps, own, starts, bounds>>

-----------------------------------------------------------------------------
(* The owner of the server, and the server process. *)

\* Start; it may fail before the thread exists.  A second Start has a new
\* control pipe, and the same channel with whatever is queued in it.
Start ==
    /\ own \in {"new", "stopped"} /\ sv = "off" /\ starts < MaxStarts
    /\ starts' = starts + 1
    /\ \/ own' = "started" /\ sv' = "poll" /\ control' = 0
       \/ UNCHANGED <<own, sv, control>>
    /\ UNCHANGED <<clientVars, child, queue, acks, ev, cur, target, serverFds,
                   dumps, bounds>>

\* Stop writes the quit byte ...
Stop ==
    /\ own = "started" /\ sv # "dead"
    /\ own' = "stopping"
    /\ control' = control + 1
    /\ UNCHANGED <<clientVars, child, queue, acks, serverVars, starts, bounds>>

\* ... and joins the thread.
Join ==
    /\ own = "stopping" /\ sv \in {"exited", "failed"}
    /\ own' = "stopped" /\ sv' = "off"
    /\ UNCHANGED <<clientVars, child, queue, acks, ev, cur, target, serverFds,
                   dumps, control, starts, bounds>>

\* The server process dies: the kernel closes the channel and all it holds.
ServerDies ==
    /\ sv # "dead"
    /\ sv' = "dead" /\ queue' = <<>> /\ serverFds' = {}
    /\ UNCHANGED <<clientVars, child, acks, ev, cur, target, dumps, ownerVars, bounds>>

Request(c) == Socketpair(c) \/ SocketpairEnds(c) \/ Sendmsg(c) \/ CloseSent(c) \/ Read(c)
Run == Poll \/ ClientEvent \/ FindProcess \/ WriteMinidump \/ SendDone \/ ControlEvent

Next ==
    \/ \E c \in Clients : Request(c) \/ Exit(c) \/ Kill(c) \/ Fork(c) \/ ChildExits(c)
    \/ Run \/ PollFails \/ Start \/ Stop \/ Join \/ ServerDies

Spec == Init /\ [][Next]_vars

(* A client in RequestDump and the server thread keep running, and Stop's    *)
(* join returns when the thread has ended; nothing else is promised, and poll *)
(* need not fail.                                                            *)
Fairness ==
    /\ \A c \in Clients : WF_vars(pc[c] # "idle" /\ Request(c))
    /\ WF_vars(Run)
    /\ WF_vars(Join)

FairSpec == Spec /\ Fairness

-----------------------------------------------------------------------------
ClientStates == {"idle", "pairing", "paired", "sent", "reading", "acked", "eof",
                 "gone", "dead"}
Pids == {"client", "child", "server"} \X Clients

\* The variables have their types.
TypeOK ==
    /\ pc \in [Clients -> ClientStates]
    /\ kind \in [Clients -> AllKinds]
    /\ ino0 \in [Clients -> Nat] /\ ino1 \in [Clients -> Nat] /\ nextIno \in Nat
    /\ child \in [Clients -> {"none", "half", "full"}]
    /\ queue \in Seq(Clients)
    /\ acks \subseteq Clients
    /\ sv \in {"off", "poll", "client", "find", "write", "done", "control",
               "exited", "failed", "dead"}
    /\ ev \in [hup : BOOLEAN, client : BOOLEAN, control : BOOLEAN]
    /\ cur \in Clients /\ target \in Pids
    /\ serverFds \subseteq Clients
    /\ dumps \subseteq Clients \X Pids
    /\ own \in {"new", "started", "stopping", "stopped"}
    /\ control \in Nat
    /\ starts \in Nat /\ forks \in Nat /\ kills \in Nat

Dumped == {d[1] : d \in dumps}

Serving == sv \in {"find", "write", "done"}

\* The byte that tells a client it can exit is sent only after the dump that
\* this client asked for was written (ClientEvent, done signal).
AckMeansDump == acks \subseteq Dumped

\* From the moment the crashing process is looked for until the done signal,
\* the client that asked is blocked in RequestDump, or was killed there: it
\* cannot be let go by a close that comes too early.
HeldWhileDumped ==
    Serving => pc[cur] \in {"sent", "reading", "dead"}

\* The process dumped is the one that asked; only if that was killed may it be
\* a child that inherited its socket.
DumpedTheRequester ==
    \A d \in dumps : \/ d[2] = <<"client", d[1]>>
                     \/ d[2] = <<"child", d[1]>> /\ pc[d[1]] = "dead"

\* Between requests the server holds no descriptor of a client, but for those
\* of datagrams that fail the first two checks of ClientEvent, which return
\* without a close: of another size, or with control data that were cut off.
\* Hence more descriptors than fit do stay open, which the third check, by its
\* comment (crash_generation_server.cc:349-351), is there to prevent.
NoFdLeak ==
    sv \in {"off", "poll", "control", "exited", "failed"} =>
        \A c \in serverFds : kind[c] \in LeakingKinds

\* Why those hold.  A datagram, the server's copy of its descriptor and the
\* answer follow each other, and the client stays blocked until the answer or
\* until the last copy is closed: the inductive invariant of the proofs.
SentOnce == \A i, j \in 1..Len(queue) : queue[i] = queue[j] => i = j
RequestOrder ==
    /\ SentOnce
    /\ \A c \in Queued : /\ pc[c] \in {"sent", "reading", "dead"}
                         /\ c \notin serverFds /\ c \notin acks
    /\ \A c \in serverFds : pc[c] \in {"sent", "reading", "dead"} /\ c \notin acks
    /\ \A c \in acks : pc[c] \in {"sent", "reading", "acked", "dead", "gone"}
    /\ \A c \in Clients : pc[c] = "acked" => c \in acks
    /\ \A c \in Dumped : pc[c] \notin {"idle", "pairing", "paired"}
    /\ Serving => cur \in serverFds /\ kind[cur] = "good"
    /\ sv = "done" => cur \in Dumped
    /\ sv = "client" /\ ev.client => queue # <<>>
    /\ (sv \in {"client", "control"} \/ Serving) /\ ev.control => control > 0

\* The server implements what any crash generation service promises.
Phase(l) ==
    CASE l \in {"idle", "pairing", "paired"} -> "running"
      [] l \in {"sent", "reading"} -> "waiting"
      [] l \in {"acked", "eof"} -> "released"
      [] OTHER -> "gone"
Abstract == INSTANCE OutOfProcessDump WITH
    phase <- [c \in Clients |-> Phase(pc[c])],
    dumped <- Dumped,
    success <- {c \in Clients : pc[c] = "acked"}
ImplementsOutOfProcessDump == Abstract!Spec

\* If the server is eventually left running, and its thread does not end for an
\* error of poll, no client that sent what RequestDump sends stays blocked,
\* whether its dump worked, failed or the server process died, unless a forked
\* child kept its fds[1] open.  Nothing else ends the thread under a client.
ClientIsReleased ==
    <>[](own = "started" /\ sv # "failed") =>
        \A c \in Clients : (pc[c] = "reading" /\ kind[c] \notin LeakingKinds)
                             ~> (pc[c] # "reading" \/ child[c] = "full")

\* Stop returns, however many requests are queued, unless the process dies.
StopReturns == own = "stopping" ~> (own = "stopped" \/ sv = "dead")
=============================================================================
