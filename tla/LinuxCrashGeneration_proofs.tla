-------------------- MODULE LinuxCrashGeneration_proofs --------------------
(***************************************************************************)
(* Proofs about LinuxCrashGeneration, for any set of clients.  The inductive *)
(* invariant is TypeOK, RequestOrder and AckMeansDump: RequestOrder says     *)
(* where the descriptor fds[1] of a request can be, hence that a client in   *)
(* front of the server's done signal is still blocked.  The last part is     *)
(* about the server, on top of that invariant.                               *)
(***************************************************************************)
EXTENDS LinuxCrashGeneration, TLAPS

IInv == TypeOK /\ RequestOrder /\ AckMeansDump

USE DEF AllKinds

\* The channel is FIFO: sending adds the sender, receiving removes the head.
LEMMA SendQueue ==
    ASSUME queue \in Seq(Clients), NEW c \in Clients,
           queue' = Append(queue, c)
    PROVE  /\ queue' \in Seq(Clients)
           /\ Queued' = Queued \cup {c}
           /\ SentOnce /\ c \notin Queued => SentOnce'
  BY DEF Queued, SentOnce

\* Where neither the channel nor the dumps change, nothing derived from them does.
LEMMA SameQueue ==
    ASSUME UNCHANGED <<queue, dumps>>
    PROVE  /\ Queued' = Queued
           /\ Dumped' = Dumped
           /\ SentOnce' = SentOnce
  BY DEF Queued, Dumped, SentOnce

\* A datagram received is of a client that had sent it, and leaves the queue.
LEMMA ReceiveQueue ==
    ASSUME queue \in Seq(Clients), queue # <<>>, queue' = Tail(queue), SentOnce
    PROVE  /\ queue' \in Seq(Clients)
           /\ Head(queue) \in Clients /\ Head(queue) \in Queued
           /\ Queued' = Queued \ {Head(queue)}
           /\ SentOnce'
  <1> USE DEF SentOnce
  <1>1. /\ Len(queue) \in Nat \ {0}
        /\ Len(queue') = Len(queue) - 1
        /\ \A i \in 1..Len(queue') : queue'[i] = queue[i + 1]
        /\ Head(queue) = queue[1]
        /\ queue' \in Seq(Clients)
        /\ Head(queue) \in Clients
    OBVIOUS
  <1>2. SentOnce'
    BY <1>1
  <1>3. Head(queue) \in Queued
    BY <1>1 DEF Queued
  <1>4. Queued' \subseteq Queued \ {Head(queue)}
    <2> SUFFICES ASSUME NEW i \in 1..Len(queue')
                 PROVE  queue'[i] \in Queued \ {Head(queue)}
      BY DEF Queued
    <2>1. i + 1 \in 1..Len(queue) /\ i + 1 # 1 /\ queue'[i] = queue[i + 1]
      BY <1>1
    <2> QED
      BY <1>1, <2>1 DEF Queued
  <1>5. Queued \ {Head(queue)} \subseteq Queued'
    <2> SUFFICES ASSUME NEW i \in 1..Len(queue), queue[i] # Head(queue)
                 PROVE  queue[i] \in Queued'
      BY DEF Queued
    <2>1. i - 1 \in 1..Len(queue') /\ queue'[i - 1] = queue[i]
      BY <1>1
    <2> QED
      BY <2>1 DEF Queued
  <1> QED
    BY <1>1, <1>2, <1>3, <1>4, <1>5

\* A dump adds the request it was made for.
LEMMA DumpAdds ==
    ASSUME dumps' = dumps \cup {<<cur, target>>}
    PROVE  Dumped' = Dumped \cup {cur}
  <1>1. <<cur, target>>[1] = cur
    OBVIOUS
  <1>2. \A d \in dumps' : d[1] \in Dumped \cup {cur}
    BY <1>1 DEF Dumped
  <1>3. \A d \in dumps \cup {<<cur, target>>} : d[1] \in Dumped'
    BY DEF Dumped
  <1>4. Dumped' \subseteq Dumped \cup {cur}
    BY <1>2 DEF Dumped
  <1>5. Dumped \subseteq Dumped'
    BY DEF Dumped
  <1>6. cur \in Dumped'
    BY <1>1, <1>3
  <1> QED
    BY <1>4, <1>5, <1>6

\* Nobody has asked for anything yet.
LEMMA InitIInv == Init => IInv
  <1> SUFFICES ASSUME Init PROVE IInv
    OBVIOUS
  <1>1. /\ queue = <<>> /\ dumps = {} /\ cur \in Clients
        /\ Queued = {} /\ Dumped = {} /\ acks = {} /\ serverFds = {}
    BY DEF Init, Queued, Dumped
  <1>2. target \in Pids
    BY DEF Init, Pids
  <1>3. kind \in [Clients -> AllKinds]
    BY LinuxCrashGenerationAssumption DEF LinuxCrashGenerationAssumption, Init
  <1>4. queue \in Seq(Clients) /\ ev \in [hup : BOOLEAN, client : BOOLEAN, control : BOOLEAN]
    BY <1>1 DEF Init
  <1>5. TypeOK
    BY <1>1, <1>2, <1>3, <1>4 DEF Init, TypeOK, ClientStates
  <1>6. RequestOrder /\ AckMeansDump
    BY <1>1 DEF Init, RequestOrder, SentOnce, AckMeansDump, Serving
  <1> QED
    BY <1>5, <1>6 DEF IInv

\* Every step keeps the types.
LEMMA StepTypeOK == TypeOK /\ RequestOrder /\ [Next]_vars => TypeOK'
  <1> SUFFICES ASSUME TypeOK, RequestOrder, [Next]_vars PROVE TypeOK'
    OBVIOUS
  <1> USE DEF TypeOK, ClientStates, Goto
  <1>1. ASSUME NEW c \in Clients, Request(c) PROVE TypeOK'
    <2>1. CASE Socketpair(c)
      BY <2>1 DEF Socketpair, serverVars, ownerVars, bounds
    <2>2. CASE SocketpairEnds(c)
      BY <2>2 DEF SocketpairEnds, serverVars, ownerVars, bounds
    <2>3. CASE Sendmsg(c)
      BY <2>3, SendQueue DEF Sendmsg, serverVars, ownerVars, bounds
    <2>4. CASE CloseSent(c)
      BY <2>4 DEF CloseSent, serverVars, ownerVars, bounds
    <2>5. CASE Read(c)
      BY <2>5 DEF Read, serverVars, ownerVars, bounds
    <2> QED
      BY <1>1, <2>1, <2>2, <2>3, <2>4, <2>5 DEF Request
  <1>2. ASSUME NEW c \in Clients, Exit(c) \/ Kill(c) \/ Fork(c) \/ ChildExits(c)
        PROVE  TypeOK'
    <2>1. CASE Exit(c)
      BY <2>1 DEF Exit, serverVars, ownerVars, bounds
    <2>2. CASE Kill(c)
      BY <2>2 DEF Kill, serverVars, ownerVars
    <2>3. CASE Fork(c)
      BY <2>3 DEF Fork, clientVars, serverVars, ownerVars
    <2>4. CASE ChildExits(c)
      BY <2>4 DEF ChildExits, clientVars, serverVars, ownerVars, bounds
    <2> QED
      BY <1>2, <2>1, <2>2, <2>3, <2>4
  <1>3. CASE Poll
    BY <1>3 DEF Poll, ChannelHup, clientVars, ownerVars, bounds
  <1>4. CASE ClientEvent
    <2> USE <1>4 DEF ClientEvent, clientVars, ownerVars, bounds
    <2>1. CASE ~ev.hup /\ ev.client /\ queue # <<>>
      BY <2>1, ReceiveQueue DEF RequestOrder
    <2>2. CASE ev.hup \/ ~ev.client
      BY <2>2
    <2> QED
      BY <2>1, <2>2 DEF RequestOrder
  <1>5. CASE FindProcess
    BY <1>5 DEF FindProcess, CloseSignalFd, clientVars, ownerVars, bounds, Holders, Pids, Alive
  <1>6. CASE WriteMinidump
    BY <1>6 DEF WriteMinidump, CloseSignalFd, clientVars, ownerVars, bounds
  <1>7. CASE SendDone
    BY <1>7 DEF SendDone, CloseSignalFd, clientVars, ownerVars, bounds
  <1>8. CASE ControlEvent
    BY <1>8 DEF ControlEvent, RequestOrder, clientVars, bounds
  <1>9. CASE Start \/ Stop \/ Join \/ ServerDies
    <2>1. CASE Start
      BY <2>1 DEF Start, clientVars, bounds
    <2>2. CASE Stop
      BY <2>2 DEF Stop, clientVars, serverVars, bounds
    <2>3. CASE Join
      BY <2>3 DEF Join, clientVars, bounds
    <2>4. CASE ServerDies
      BY <2>4 DEF ServerDies, clientVars, ownerVars, bounds
    <2> QED
      BY <1>9, <2>1, <2>2, <2>3, <2>4
  <1>10. CASE UNCHANGED vars
    BY <1>10 DEF vars, clientVars, serverVars, ownerVars, bounds
  <1>11. CASE PollFails
    BY <1>11 DEF PollFails, clientVars, ownerVars, bounds
  <1> QED
    BY <1>1, <1>2, <1>3, <1>4, <1>5, <1>6, <1>7, <1>8, <1>9, <1>10, <1>11 DEF Next, Run

\* Every step keeps the order of a request.  Only the steps that move a
\* datagram, a descriptor, the byte or a client's program counter can disturb it.
LEMMA StepRequestOrder == IInv /\ [Next]_vars => RequestOrder'
  <1> SUFFICES ASSUME IInv, [Next]_vars PROVE RequestOrder'
    OBVIOUS
  <1> USE DEF IInv, TypeOK, ClientStates, RequestOrder, Serving, Goto
  <1>0. Queued \subseteq Clients /\ Dumped \subseteq Clients
    BY DEF Queued, Dumped
  <1>1. ASSUME NEW c \in Clients, Request(c) PROVE RequestOrder'
    <2>1. CASE Socketpair(c) \/ SocketpairEnds(c)
      <3>0. UNCHANGED <<queue, dumps>>
        BY <2>1 DEF Socketpair, SocketpairEnds, serverVars
      <3>1. UNCHANGED <<Queued, Dumped, SentOnce>>
        BY <3>0, SameQueue
      <3>2. /\ pc[c] \in {"idle", "pairing"} /\ pc'[c] \in {"pairing", "paired"}
            /\ \A d \in Clients \ {c} : pc'[d] = pc[d]
            /\ UNCHANGED <<kind, queue, acks, serverVars, control>>
        BY <2>1 DEF Socketpair, SocketpairEnds, ownerVars
      <3>3. c \notin Queued /\ c \notin serverFds /\ c \notin acks
        BY <3>2
      <3> QED
        BY <1>0, <3>1, <3>2, <3>3 DEF serverVars
    <2>2. CASE Sendmsg(c)
      <3>1. Dumped' = Dumped
        BY <2>2 DEF Sendmsg, serverVars, Dumped
      <3>2. CASE sv = "dead"
        <4>1. UNCHANGED <<Queued, SentOnce>>
          BY <2>2, <3>2 DEF Sendmsg, Queued, SentOnce
        <4> QED
          BY <1>0, <2>2, <3>1, <3>2, <4>1 DEF Sendmsg, serverVars, ownerVars
      <3>3. CASE sv # "dead"
        <4>1. c \notin Queued /\ c \notin serverFds /\ c \notin acks
          BY <2>2 DEF Sendmsg
        <4>2. Queued' = Queued \cup {c} /\ queue' # <<>>
              /\ SentOnce'
          BY <2>2, <3>3, <4>1, SendQueue DEF Sendmsg
        <4> QED
          BY <1>0, <2>2, <3>1, <3>3, <4>1, <4>2 DEF Sendmsg, serverVars, ownerVars
      <3> QED
        BY <3>2, <3>3
    <2>3. CASE CloseSent(c) \/ Read(c)
      <3>0. UNCHANGED <<queue, dumps>>
        BY <2>3 DEF CloseSent, Read, serverVars
      <3>1. UNCHANGED <<Queued, Dumped, SentOnce>>
        BY <3>0, SameQueue
      <3>2. /\ UNCHANGED <<kind, queue, acks, serverVars, control>>
            /\ \A d \in Clients \ {c} : pc'[d] = pc[d]
        BY <2>3 DEF CloseSent, Read, ownerVars
      <3>3. CASE pc[c] = "sent" /\ pc'[c] = "reading"
        BY <1>0, <3>1, <3>2, <3>3 DEF serverVars
      <3>4. CASE pc[c] = "reading" /\ pc'[c] = "acked" /\ c \in acks
        BY <1>0, <3>1, <3>2, <3>4 DEF serverVars
      <3>5. CASE /\ pc[c] = "reading" /\ pc'[c] = "eof"
                 /\ c \notin acks /\ c \notin Queued /\ c \notin serverFds
        BY <1>0, <3>1, <3>2, <3>5 DEF serverVars
      <3> QED
        BY <2>3, <3>3, <3>4, <3>5 DEF CloseSent, Read, Hangup
    <2> QED
      BY <1>1, <2>1, <2>2, <2>3 DEF Request
  <1>2. ASSUME NEW c \in Clients, Exit(c) \/ Kill(c) \/ Fork(c) \/ ChildExits(c)
        PROVE  RequestOrder'
    <2>0. UNCHANGED <<queue, dumps>>
      BY <1>2 DEF Exit, Kill, Fork, ChildExits, serverVars
    <2>1. UNCHANGED <<Queued, Dumped, SentOnce>>
      BY <2>0, SameQueue
    <2>2. UNCHANGED <<kind, queue, acks, serverVars, control>>
      BY <1>2 DEF Exit, Kill, Fork, ChildExits, clientVars, ownerVars
    <2>3. /\ \A d \in Clients \ {c} : pc'[d] = pc[d]
          /\ \/ pc'[c] = pc[c]
             \/ pc[c] \in {"idle", "acked", "eof"} /\ pc'[c] = "gone"
             \/ pc'[c] = "dead"
      BY <1>2 DEF Exit, Kill, Fork, ChildExits, clientVars
    <2>4. CASE pc'[c] = pc[c]
      BY <1>0, <2>1, <2>2, <2>3, <2>4 DEF serverVars
    <2>5. CASE pc[c] \in {"idle", "acked", "eof"} /\ pc'[c] = "gone"
      <3>1. c \notin Queued /\ c \notin serverFds
        BY <2>5
      <3> QED
        BY <1>0, <2>1, <2>2, <2>3, <2>5, <3>1 DEF serverVars
    <2>6. CASE pc'[c] = "dead" /\ pc[c] # "dead"
      BY <1>0, <2>1, <2>2, <2>3, <2>6 DEF serverVars
    <2> QED
      BY <2>3, <2>4, <2>5, <2>6
  <1>3. CASE Poll
    <2>0. UNCHANGED <<queue, dumps>>
      BY <1>3 DEF Poll
    <2>1. UNCHANGED <<Queued, Dumped, SentOnce>>
      BY <2>0, SameQueue
    <2> QED
      BY <1>3, <2>1 DEF Poll, clientVars, ownerVars
  <1>4. CASE ClientEvent
    <2> USE <1>4 DEF ClientEvent, clientVars, ownerVars
    <2>1. Dumped' = Dumped
      BY DEF Dumped
    <2>2. CASE ~ev.hup /\ ev.client
      <3>1. queue # <<>>
        BY <2>2
      <3>2. /\ Head(queue) \in Clients /\ Head(queue) \in Queued
            /\ Queued' = Queued \ {Head(queue)}
            /\ SentOnce'
        BY <2>2, <3>1, ReceiveQueue
      <3> QED
        BY <1>0, <2>1, <2>2, <3>2
    <2>3. CASE ev.hup \/ ~ev.client
      <3>1. UNCHANGED <<Queued, SentOnce>>
        BY <2>3 DEF Queued, SentOnce
      <3> QED
        BY <2>1, <2>3, <3>1
    <2> QED
      BY <2>2, <2>3
  <1>5. CASE FindProcess
    <2>0. UNCHANGED <<queue, dumps>>
      BY <1>5 DEF FindProcess
    <2>1. UNCHANGED <<Queued, Dumped, SentOnce>>
      BY <2>0, SameQueue
    <2> QED
      BY <1>5, <2>1 DEF FindProcess, CloseSignalFd, clientVars, ownerVars
  <1>6. CASE WriteMinidump
    <2>0. UNCHANGED queue
      BY <1>6 DEF WriteMinidump
    <2>3. UNCHANGED <<Queued, SentOnce>>
      BY <2>0 DEF Queued, SentOnce
    <2>1. CASE /\ dumps' = dumps \cup {<<cur, target>>}
               /\ sv' = "done" /\ serverFds' = serverFds
      <3>1. Dumped' = Dumped \cup {cur}
        BY <2>1, DumpAdds
      <3> QED
        BY <1>0, <1>6, <2>1, <2>3, <3>1 DEF WriteMinidump, clientVars, ownerVars
    <2>2. CASE dumps' = dumps /\ sv' = "control" /\ CloseSignalFd
      <3>1. Dumped' = Dumped
        BY <2>2 DEF Dumped
      <3> QED
        BY <1>6, <2>2, <2>3, <3>1 DEF WriteMinidump, CloseSignalFd, clientVars, ownerVars
    <2> QED
      BY <1>6, <2>1, <2>2 DEF WriteMinidump
  <1>7. CASE SendDone
    <2>0. UNCHANGED <<queue, dumps>>
      BY <1>7 DEF SendDone
    <2>1. UNCHANGED <<Queued, Dumped, SentOnce>>
      BY <2>0, SameQueue
    <2> QED
      BY <1>7, <2>1 DEF SendDone, CloseSignalFd, clientVars, ownerVars
  <1>8. CASE ControlEvent
    <2>0. UNCHANGED <<queue, dumps>>
      BY <1>8 DEF ControlEvent
    <2>1. UNCHANGED <<Queued, Dumped, SentOnce>>
      BY <2>0, SameQueue
    <2> QED
      BY <1>8, <2>1 DEF ControlEvent, clientVars
  <1>9. CASE Start \/ Stop \/ Join
    <2>0. UNCHANGED <<queue, dumps>>
      BY <1>9 DEF Start, Stop, Join, serverVars
    <2>1. UNCHANGED <<Queued, Dumped, SentOnce>>
      BY <2>0, SameQueue
    <2> QED
      BY <1>9, <2>1 DEF Start, Stop, Join, clientVars, serverVars
  <1>10. CASE ServerDies
    <2>1. Queued' = {} /\ Dumped' = Dumped /\ SentOnce'
      BY <1>10 DEF ServerDies, Queued, Dumped, SentOnce, SentOnce
    <2> QED
      BY <1>10, <2>1 DEF ServerDies, clientVars, ownerVars
  <1>11. CASE UNCHANGED vars
    <2>1. UNCHANGED <<Queued, Dumped, SentOnce>>
      BY <1>11 DEF vars, serverVars, Queued, Dumped, SentOnce
    <2> QED
      BY <1>11, <2>1 DEF vars, clientVars, serverVars, ownerVars
  <1>12. CASE PollFails
    <2>0. UNCHANGED <<queue, dumps>>
      BY <1>12 DEF PollFails
    <2>1. UNCHANGED <<Queued, Dumped, SentOnce>>
      BY <2>0, SameQueue
    <2> QED
      BY <1>12, <2>1 DEF PollFails, clientVars, ownerVars
  <1> QED
    BY <1>1, <1>2, <1>3, <1>4, <1>5, <1>6, <1>7, <1>8, <1>9, <1>10, <1>11, <1>12
    DEF Next, Run

\* The done signal is only sent from a state in which the dump exists.
LEMMA StepAckMeansDump == IInv /\ [Next]_vars => AckMeansDump'
  <1> SUFFICES ASSUME IInv, [Next]_vars PROVE AckMeansDump'
    OBVIOUS
  <1>1. Dumped \subseteq Dumped'
    BY DEF Next, vars, Run, Request, Socketpair, SocketpairEnds, Sendmsg, CloseSent,
           Read, Exit, Kill, Fork, ChildExits, Poll, PollFails, ClientEvent, FindProcess,
           WriteMinidump, SendDone, ControlEvent, Start, Stop, Join, ServerDies,
           serverVars, Dumped
  <1>2. CASE SendDone
    BY <1>1, <1>2 DEF SendDone, IInv, RequestOrder, AckMeansDump
  <1>3. CASE ~SendDone
    <2>1. acks' = acks
      BY <1>3 DEF Next, vars, Run, Request, Socketpair, SocketpairEnds, Sendmsg,
         CloseSent, Read, Exit, Kill, Fork, ChildExits, Poll, PollFails, ClientEvent, FindProcess,
         WriteMinidump, ControlEvent, Start, Stop, Join, ServerDies
    <2> QED
      BY <1>1, <2>1 DEF IInv, AckMeansDump
  <1> QED
    BY <1>2, <1>3

\* Requests keep their order, and none is acknowledged that was not dumped.
LEMMA Invariance == Spec => []IInv
  <1>1. IInv /\ [Next]_vars => IInv'
    BY StepTypeOK, StepRequestOrder, StepAckMeansDump DEF IInv
  <1> QED
    BY <1>1, InitIInv, PTL DEF Spec

\* The variables of the client, the server thread and the owner keep their types.
THEOREM TypeCorrect == Spec => []TypeOK
  BY Invariance, PTL DEF IInv

\* However many clients crash, and whatever is killed, forked or restarted, the
\* byte that lets a client exit is only sent after its dump was written.
THEOREM AckedIsDumped == Spec => []AckMeansDump
  BY Invariance, PTL DEF IInv

\* The client whose process is looked for and dumped is blocked in RequestDump,
\* or was killed there.
THEOREM DumpedIsHeld == Spec => []HeldWhileDumped
  <1>1. IInv => HeldWhileDumped
    BY DEF IInv, RequestOrder, HeldWhileDumped
  <1> QED
    BY <1>1, Invariance, PTL

\* A request's datagram, descriptor, dump and answer follow each other.
THEOREM RequestsKeepOrder == Spec => []RequestOrder
  BY Invariance, PTL DEF IInv

-----------------------------------------------------------------------------
(* The server implements OutOfProcessDump. *)

\* The barred variables of the refinement.
phaseBar == [c \in Clients |-> Phase(pc[c])]
successBar == {c \in Clients : pc[c] = "acked"}

\* A step that moves one client, and dumps nothing, moves its phase alone.
LEMMA OneClientMoves ==
    ASSUME TypeOK, NEW c \in Clients, NEW l \in ClientStates,
           pc' = [pc EXCEPT ![c] = l], dumps' = dumps
    PROVE  /\ phaseBar' = [phaseBar EXCEPT ![c] = Phase(l)]
           /\ successBar' = IF l = "acked" THEN successBar \cup {c}
                                          ELSE successBar \ {c}
           /\ Dumped' = Dumped
  BY DEF TypeOK, phaseBar, successBar, Dumped

\* A step that moves no client and dumps nothing is a stutter.
LEMMA NoClientMoves ==
    ASSUME pc' = pc, dumps' = dumps
    PROVE  phaseBar' = phaseBar /\ successBar' = successBar /\ Dumped' = Dumped
  BY DEF phaseBar, successBar, Dumped

\* The implementation begins where the abstract specification does.
LEMMA InitRefines == Init => Abstract!Init
  BY DEF Init, Abstract!Init, Phase, Dumped

\* Every step of client or server is one of the abstract specification, or is not seen there.
LEMMA StepRefines == IInv /\ [Next]_vars => [Abstract!Next]_Abstract!vars
  <1> SUFFICES ASSUME IInv, [Next]_vars PROVE [Abstract!Next]_Abstract!vars
    OBVIOUS
  <1>0. (phaseBar' = phaseBar /\ successBar' = successBar /\ Dumped' = Dumped)
          => UNCHANGED Abstract!vars
    BY DEF Abstract!vars, phaseBar, successBar
  <1>1. ASSUME NEW c \in Clients, Socketpair(c) \/ SocketpairEnds(c) \/ CloseSent(c)
        PROVE  UNCHANGED Abstract!vars
    <2>1. /\ pc[c] \in {"idle", "pairing", "sent"} /\ dumps' = dumps
          /\ \E l \in {"pairing", "paired", "reading"} :
                /\ pc' = [pc EXCEPT ![c] = l]
                /\ Phase(l) = Phase(pc[c])
      BY <1>1 DEF Socketpair, SocketpairEnds, CloseSent, Goto, serverVars, Phase
    <2>2. phaseBar[c] = Phase(pc[c]) /\ c \notin successBar
      BY <2>1 DEF phaseBar, successBar
    <2>3. PICK l \in {"pairing", "paired", "reading"} :
             pc' = [pc EXCEPT ![c] = l] /\ Phase(l) = Phase(pc[c])
      BY <2>1
    <2>4. /\ phaseBar' = [phaseBar EXCEPT ![c] = Phase(l)]
          /\ successBar' = successBar \ {c}
          /\ Dumped' = Dumped
      BY <2>1, <2>3, OneClientMoves DEF IInv, ClientStates
    <2>5. [phaseBar EXCEPT ![c] = phaseBar[c]] = phaseBar
      BY DEF phaseBar
    <2> QED
      BY <1>0, <2>2, <2>3, <2>4, <2>5
  <1>2. ASSUME NEW c \in Clients, Sendmsg(c) PROVE Abstract!Ask(c)
    <2>1. /\ pc[c] = "paired" /\ pc' = [pc EXCEPT ![c] = "sent"] /\ dumps' = dumps
      BY <1>2 DEF Sendmsg, Goto, serverVars
    <2>2. phaseBar[c] = "running" /\ Phase("sent") = "waiting"
      BY <2>1 DEF phaseBar, Phase
    <2>3. c \notin Dumped
      BY <2>1 DEF IInv, RequestOrder
    <2>4. /\ phaseBar' = [phaseBar EXCEPT ![c] = "waiting"]
          /\ successBar' = successBar \ {c}
          /\ Dumped' = Dumped
      BY <2>1, <2>2, OneClientMoves DEF IInv, ClientStates
    <2>5. Dumped \ {c} = Dumped
      BY <2>3
    <2> QED
      BY <2>2, <2>4, <2>5 DEF Abstract!Ask, phaseBar, successBar
  <1>3. ASSUME NEW c \in Clients, Read(c) PROVE Abstract!Release(c)
    <2>1. /\ pc[c] = "reading" /\ dumps' = dumps
          /\ \/ c \in acks /\ pc' = [pc EXCEPT ![c] = "acked"]
             \/ pc' = [pc EXCEPT ![c] = "eof"]
      BY <1>3 DEF Read, Goto, serverVars
    <2>2. /\ phaseBar[c] = "waiting" /\ c \notin successBar
          /\ Phase("acked") = "released" /\ Phase("eof") = "released"
      BY <2>1 DEF phaseBar, successBar, Phase
    <2>3. CASE c \in acks /\ pc' = [pc EXCEPT ![c] = "acked"]
      BY <2>1, <2>2, <2>3, OneClientMoves
      DEF IInv, AckMeansDump, ClientStates, Abstract!Release, phaseBar, successBar
    <2>4. CASE pc' = [pc EXCEPT ![c] = "eof"]
      <3>1. /\ phaseBar' = [phaseBar EXCEPT ![c] = "released"]
            /\ successBar' = successBar \ {c}
            /\ Dumped' = Dumped
        BY <2>1, <2>2, <2>4, OneClientMoves DEF IInv, ClientStates
      <3>2. successBar \ {c} = successBar
        BY <2>2
      <3> QED
        BY <2>2, <3>1, <3>2 DEF Abstract!Release, phaseBar, successBar
    <2> QED
      BY <2>1, <2>3, <2>4
  <1>4. ASSUME NEW c \in Clients, Exit(c) \/ Kill(c) PROVE Abstract!Vanish(c)
    <2>1. /\ dumps' = dumps
          /\ \E l \in {"gone", "dead"} : pc' = [pc EXCEPT ![c] = l] /\ Phase(l) = "gone"
      BY <1>4 DEF Exit, Kill, Goto, serverVars, Phase
    <2> QED
      BY <2>1, OneClientMoves
      DEF IInv, ClientStates, Abstract!Vanish, phaseBar, successBar
  <1>5. CASE WriteMinidump
    <2>1. CASE dumps' = dumps
      BY <1>0, <1>5, <2>1, NoClientMoves DEF WriteMinidump, clientVars
    <2>2. CASE dumps' = dumps \cup {<<cur, target>>}
      <3>1. /\ pc' = pc /\ cur \in Clients /\ pc[cur] \in {"sent", "reading", "dead"}
        BY <1>5 DEF WriteMinidump, clientVars, IInv, TypeOK, RequestOrder, Serving
      <3>2. phaseBar' = phaseBar /\ successBar' = successBar
            /\ phaseBar[cur] \in {"waiting", "gone"}
        BY <3>1 DEF phaseBar, successBar, Phase
      <3>3. Dumped' = Dumped \cup {cur}
        BY <2>2, DumpAdds
      <3> QED
        BY <3>1, <3>2, <3>3 DEF Abstract!Next, Abstract!Dump, phaseBar, successBar
    <2> QED
      BY <1>5, <2>1, <2>2 DEF WriteMinidump
  <1>6. CASE \/ \E c \in Clients : Fork(c) \/ ChildExits(c)
             \/ Poll \/ PollFails \/ ClientEvent \/ FindProcess \/ SendDone \/ ControlEvent
             \/ Start \/ Stop \/ Join \/ ServerDies \/ UNCHANGED vars
    <2>1. pc' = pc /\ dumps' = dumps
      BY <1>6 DEF Fork, ChildExits, Poll, PollFails, ClientEvent, FindProcess, SendDone,
         ControlEvent, Start, Stop, Join, ServerDies, vars, clientVars, serverVars
    <2> QED
      BY <1>0, <2>1, NoClientMoves
  <1> QED
    BY <1>1, <1>2, <1>3, <1>4, <1>5, <1>6 DEF Next, Run, Request, Abstract!Next

\* The Linux server and its clients implement OutOfProcessDump: a client is told
\* of success only after a dump of its own request, made while it was held.
THEOREM Refinement == Spec => ImplementsOutOfProcessDump
  BY Invariance, InitRefines, StepRefines, PTL
  DEF Spec, ImplementsOutOfProcessDump, Abstract!Spec

-----------------------------------------------------------------------------
(* The server closes what it receives, and the process it dumps is the one that asked. *)

\* A descriptor open in the server belongs to the request being served, or
\* came with a datagram that one of the first two checks drops.
FdsInv == \A c \in serverFds : kind[c] \in LeakingKinds \/ (Serving /\ c = cur)

\* Inode numbers are never used twice, and with AdjacentInodes the two ends of
\* one socketpair follow each other.
InodeInv ==
    /\ nextIno > 0
    /\ \A c \in Clients : ino0[c] < nextIno /\ ino1[c] < nextIno
    /\ \A c, d \in Clients : ino0[c] = ino0[d] /\ c # d => ino0[c] = 0
    /\ \A c, d \in Clients : ino0[c] = ino1[d] => ino0[c] = 0
    /\ \A c \in Clients : ino1[c] # 0 => ino0[c] # 0 /\ ino1[c] = ino0[c] + 1
    /\ \A c \in Clients : pc[c] = "pairing" => nextIno = ino0[c] + 1 /\ ino0[c] # 0
    /\ \A c, d \in Clients : pc[c] = "pairing" /\ pc[d] = "pairing" => c = d
    /\ \A c \in Clients : pc[c] = "idle" => ino1[c] = 0
    /\ \A c \in Clients :
         pc[c] \in {"paired", "sent", "reading"} \/ c \in Queued \/ c \in serverFds
           => ino1[c] # 0

\* FindProcessHoldingSocket found the client that asked, or its child.
TargetInv ==
    /\ sv = "write" => \/ target = <<"client", cur>>
                       \/ target = <<"child", cur>> /\ pc[cur] = "dead"
    /\ DumpedTheRequester

-----------------------------------------------------------------------------
(* Descriptors. *)

\* Each step that opens a descriptor in the server has somebody to close it.
LEMMA StepFdsInv == IInv /\ FdsInv /\ [Next]_vars => FdsInv'
  <1> SUFFICES ASSUME IInv, FdsInv, [Next]_vars PROVE FdsInv'
    OBVIOUS
  <1> USE DEF FdsInv, Serving, LeakingKinds
  <1>1. CASE ClientEvent
    <2>1. Head(queue) \in Clients \/ queue = <<>>
      BY ReceiveQueue DEF IInv, TypeOK, RequestOrder
    <2> QED
      BY <1>1, <2>1 DEF ClientEvent, clientVars, IInv, TypeOK, RequestOrder
  <1>2. CASE FindProcess
    BY <1>2 DEF FindProcess, CloseSignalFd, clientVars
  <1>3. CASE WriteMinidump
    BY <1>3 DEF WriteMinidump, CloseSignalFd, clientVars
  <1>4. CASE SendDone
    BY <1>4 DEF SendDone, CloseSignalFd, clientVars
  <1>5. CASE ServerDies
    BY <1>5 DEF ServerDies
  <1>6. CASE Poll \/ PollFails \/ ControlEvent \/ Start \/ Join
    BY <1>6 DEF Poll, PollFails, ControlEvent, Start, Join, clientVars
  <1>7. CASE \/ \E c \in Clients : Request(c) \/ Exit(c) \/ Kill(c) \/ Fork(c) \/ ChildExits(c)
             \/ Stop \/ UNCHANGED vars
    <2>1. UNCHANGED <<serverFds, kind, sv, cur>>
      BY <1>7 DEF Request, Socketpair, SocketpairEnds, Sendmsg, CloseSent, Read, Exit,
         Kill, Fork, ChildExits, Stop, vars, clientVars, serverVars
    <2> QED
      BY <2>1
  <1> QED
    BY <1>1, <1>2, <1>3, <1>4, <1>5, <1>6, <1>7 DEF Next, Run

\* Whatever is killed or restarted, between two requests no descriptor stays
\* open in the server but those of datagrams of another size, or with more
\* descriptors than fit, which ClientEvent returns on without a close.
THEOREM FdsAreClosed == Spec => []NoFdLeak
  <1>1. Init => FdsInv
    BY DEF Init, FdsInv
  <1>2. FdsInv => NoFdLeak
    BY DEF FdsInv, NoFdLeak, Serving
  <1> QED
    BY <1>1, <1>2, StepFdsInv, Invariance, PTL DEF Spec

-----------------------------------------------------------------------------
(* Which process is dumped. *)

\* Steps outside socketpair leave the inodes alone, make nobody "idle" or
\* "pairing", and put nobody past socketpair who was not.
LEMMA InodesStay ==
    ASSUME IInv, InodeInv, UNCHANGED <<ino0, ino1, nextIno>>,
           \A c \in Clients :
             /\ pc'[c] \in {"idle", "pairing"} => pc'[c] = pc[c]
             /\ pc'[c] \in {"paired", "sent", "reading"} \/ c \in Queued' \/ c \in serverFds'
                  => pc[c] \in {"paired", "sent", "reading"} \/ c \in Queued \/ c \in serverFds
    PROVE  InodeInv'
  BY DEF InodeInv

\* Inode numbers stay with the sockets they were made for.
LEMMA StepInodeInv == AdjacentInodes /\ IInv /\ InodeInv /\ [Next]_vars => InodeInv'
  <1> SUFFICES ASSUME AdjacentInodes, IInv, InodeInv, [Next]_vars PROVE InodeInv'
    OBVIOUS
  <1> USE DEF IInv, TypeOK, ClientStates, Goto
  <1>1. ASSUME NEW c \in Clients, Socketpair(c) PROVE InodeInv'
    <2>1. UNCHANGED <<Queued, serverFds>>
      BY <1>1 DEF Socketpair, serverVars, Queued
    <2>2. c \notin Queued /\ c \notin serverFds
      BY <1>1 DEF Socketpair, RequestOrder
    <2>3. /\ pc' = [pc EXCEPT ![c] = "pairing"]
          /\ ino0' = [ino0 EXCEPT ![c] = nextIno] /\ ino1' = ino1
          /\ nextIno' = nextIno + 1
          /\ \A d \in Clients : pc[d] # "pairing"
          /\ pc[c] = "idle"
      BY <1>1 DEF Socketpair
    <2>4. ino1[c] = 0
      BY <1>1 DEF InodeInv, Socketpair
    <2> QED
      BY <2>1, <2>2, <2>3, <2>4 DEF InodeInv
  <1>2. ASSUME NEW c \in Clients, SocketpairEnds(c) PROVE InodeInv'
    <2>1. UNCHANGED <<Queued, serverFds>>
      BY <1>2 DEF SocketpairEnds, serverVars, Queued
    <2>3. /\ pc' = [pc EXCEPT ![c] = "paired"]
          /\ ino1' = [ino1 EXCEPT ![c] = nextIno] /\ ino0' = ino0
          /\ nextIno' = nextIno + 1
          /\ pc[c] = "pairing"
      BY <1>2 DEF SocketpairEnds
    <2>4. /\ nextIno = ino0[c] + 1 /\ ino0[c] # 0
          /\ \A d \in Clients \ {c} : pc[d] # "pairing" /\ pc'[d] = pc[d] /\ ino1'[d] = ino1[d]
          /\ pc'[c] = "paired" /\ ino1'[c] = nextIno
      BY <2>3 DEF InodeInv
    <2>5. \A d, e \in Clients : ino0'[d] = ino1'[e] => ino0'[d] = 0
      BY <2>3, <2>4 DEF InodeInv
    <2>6. \A d \in Clients : ino1'[d] # 0 => ino0'[d] # 0 /\ ino1'[d] = ino0'[d] + 1
      BY <2>3, <2>4 DEF InodeInv
    <2> QED
      BY <2>1, <2>3, <2>4, <2>5, <2>6 DEF InodeInv
  <1>3. ASSUME NEW c \in Clients, Sendmsg(c) PROVE InodeInv'
    <2>1. Queued' \subseteq Queued \cup {c}
      BY <1>3, SendQueue DEF Sendmsg, Queued
    <2> QED
      BY <1>3, <2>1, InodesStay DEF Sendmsg, serverVars
  <1>4. ASSUME NEW c \in Clients,
               CloseSent(c) \/ Read(c) \/ Exit(c) \/ Kill(c) \/ Fork(c) \/ ChildExits(c)
        PROVE  InodeInv'
    <2>1. UNCHANGED <<Queued, serverFds, ino0, ino1, nextIno>>
      BY <1>4 DEF CloseSent, Read, Exit, Kill, Fork, ChildExits, clientVars, serverVars, Queued
    <2> QED
      BY <1>4, <2>1, InodesStay DEF CloseSent, Read, Exit, Kill, Fork, ChildExits, clientVars
  <1>5. CASE ClientEvent
    <2>1. \/ Queued' = Queued /\ serverFds' = serverFds
          \/ /\ Head(queue) \in Queued
             /\ Queued' \subseteq Queued
             /\ serverFds' \subseteq serverFds \cup {Head(queue)}
      <3>1. CASE ~ev.hup /\ ev.client
        <4>1. queue # <<>> /\ queue' = Tail(queue)
          BY <1>5, <3>1 DEF ClientEvent, RequestOrder
        <4> QED
          BY <1>5, <3>1, <4>1, ReceiveQueue DEF ClientEvent, RequestOrder
      <3>2. CASE ev.hup \/ ~ev.client
        BY <1>5, <3>2 DEF ClientEvent, Queued
      <3> QED
        BY <3>1, <3>2
    <2> QED
      BY <1>5, <2>1, InodesStay DEF ClientEvent, clientVars
  <1>6. CASE \/ Poll \/ PollFails \/ FindProcess \/ WriteMinidump \/ SendDone \/ ControlEvent
             \/ Start \/ Stop \/ Join \/ ServerDies \/ UNCHANGED vars
    <2>1. serverFds' \subseteq serverFds /\ UNCHANGED clientVars
      BY <1>6 DEF Poll, PollFails, FindProcess, WriteMinidump, SendDone, ControlEvent, CloseSignalFd,
         Start, Stop, Join, ServerDies, vars, serverVars
    <2>2. Queued' \subseteq Queued
      BY <1>6 DEF Poll, PollFails, FindProcess, WriteMinidump, SendDone, ControlEvent,
         Start, Stop, Join, ServerDies, vars, Queued
    <2> QED
      BY <2>1, <2>2, InodesStay DEF clientVars
  <1> QED
    BY <1>1, <1>2, <1>3, <1>4, <1>5, <1>6 DEF Next, Run, Request

\* Only the client that asked, and a child it forked, can hold fds[0].
LEMMA HoldersOfTheOtherEnd ==
    ASSUME IInv, InodeInv, cur \in serverFds
    PROVE  /\ Holders(ino1[cur] - 1) \subseteq {<<"client", cur>>, <<"child", cur>>}
           /\ pc[cur] \in {"sent", "reading"} => <<"client", cur>> \in Holders(ino1[cur] - 1)
  <1> USE DEF IInv, TypeOK
  <1>1. ino1[cur] - 1 = ino0[cur] /\ ino0[cur] \in Nat \ {0} /\ cur \in Clients
    BY DEF InodeInv
  <1>2. \A d \in Clients : ino0[d] = ino0[cur] => d = cur
    BY <1>1 DEF InodeInv
  <1>3. \A d \in Clients : ino1[d] # ino0[cur]
    BY <1>1 DEF InodeInv
  <1> QED
    BY <1>1, <1>2, <1>3 DEF Holders, Alive

\* A client that is dead stays dead.
LEMMA DeadStaysDead ==
    ASSUME IInv, [Next]_vars, NEW c \in Clients, pc[c] = "dead"
    PROVE  pc'[c] = "dead"
  <1>1. ASSUME NEW d \in Clients,
               Request(d) \/ Exit(d) \/ Kill(d) \/ Fork(d) \/ ChildExits(d)
        PROVE  pc'[c] = "dead"
    BY <1>1 DEF Request, Socketpair, SocketpairEnds, Sendmsg, CloseSent, Read, Exit,
       Kill, Fork, ChildExits, clientVars, Goto, IInv, TypeOK
  <1> QED
    BY <1>1 DEF Next, Run, Poll, PollFails, ClientEvent, FindProcess, WriteMinidump, SendDone,
       ControlEvent, Start, Stop, Join, ServerDies, vars, clientVars

\* Whom the server has found stays the one who asked.
LEMMA StepTargetInv ==
    AdjacentInodes /\ IInv /\ InodeInv /\ TargetInv /\ [Next]_vars => TargetInv'
  <1> SUFFICES ASSUME IInv, InodeInv, TargetInv, [Next]_vars PROVE TargetInv'
    OBVIOUS
  <1> USE DEF TargetInv, DumpedTheRequester
  <1>0. /\ dumps \subseteq Clients \X Pids
        /\ \A c \in Clients : pc[c] = "dead" => pc'[c] = "dead"
        /\ cur \in Clients
    BY DeadStaysDead DEF IInv, TypeOK
  <1>1. CASE FindProcess
    <2>1. cur \in serverFds /\ pc[cur] \in {"sent", "reading", "dead"} /\ pc' = pc
          /\ dumps' = dumps /\ cur' = cur
      BY <1>1 DEF FindProcess, IInv, RequestOrder, Serving, clientVars
    <2>2. CASE sv' = "write"
      <3>1. PICK pid \in Holders(ino1[cur] - 1) :
               Holders(ino1[cur] - 1) = {pid} /\ target' = pid
        BY <1>1, <2>2 DEF FindProcess
      <3>2. \/ target' = <<"client", cur>>
            \/ target' = <<"child", cur>> /\ <<"client", cur>> \notin Holders(ino1[cur] - 1)
        BY <2>1, <3>1, HoldersOfTheOtherEnd
      <3> QED
        BY <1>0, <2>1, <3>2, HoldersOfTheOtherEnd
    <2>3. CASE sv' # "write"
      BY <1>0, <2>1, <2>3
    <2> QED
      BY <2>2, <2>3
  <1>2. CASE WriteMinidump
    <2>1. sv' # "write" /\ pc' = pc /\ sv = "write"
          /\ dumps' \subseteq dumps \cup {<<cur, target>>}
      BY <1>2 DEF WriteMinidump, clientVars
    <2>2. <<cur, target>>[1] = cur /\ <<cur, target>>[2] = target
      OBVIOUS
    <2> QED
      BY <1>0, <2>1, <2>2
  <1>3. CASE \/ Poll \/ PollFails \/ ClientEvent \/ SendDone \/ ControlEvent
             \/ Start \/ Stop \/ Join \/ ServerDies \/ UNCHANGED vars
             \/ \E c \in Clients : Request(c) \/ Exit(c) \/ Kill(c) \/ Fork(c) \/ ChildExits(c)
    <2>1. /\ dumps' = dumps
          /\ sv' = "write" => sv = "write" /\ UNCHANGED <<cur, target>>
      BY <1>3 DEF Poll, PollFails, ClientEvent, SendDone, ControlEvent, Start, Stop, Join, ServerDies,
         vars, Request, Socketpair, SocketpairEnds, Sendmsg, CloseSent, Read, Exit, Kill,
         Fork, ChildExits, serverVars
    <2>2. \A d \in dumps : d[1] \in Clients
      BY <1>0
    <2> QED
      BY <1>0, <2>1, <2>2
  <1> QED
    BY <1>1, <1>2, <1>3 DEF Next, Run

\* The process dumped is the one that asked, or a child of it once that is dead,
\* whoever else crashes, forks or ends, provided that the kernel numbers the two
\* ends of a socketpair one after the other (inode_number - 1 in ClientEvent).
THEOREM RequesterIsDumped == Spec => [](AdjacentInodes => DumpedTheRequester)
  <1>1. Init => InodeInv /\ TargetInv
    BY DEF Init, InodeInv, TargetInv, DumpedTheRequester, Queued
  <1>2. CASE AdjacentInodes
    <2>1. IInv /\ InodeInv /\ [Next]_vars => InodeInv'
      BY <1>2, StepInodeInv
    <2>2. IInv /\ InodeInv /\ TargetInv /\ [Next]_vars => TargetInv'
      BY <1>2, StepTargetInv
    <2>3. TargetInv => (AdjacentInodes => DumpedTheRequester)
      BY DEF TargetInv
    <2> QED
      BY <1>1, <2>1, <2>2, <2>3, Invariance, PTL DEF Spec
  <1>3. CASE ~AdjacentInodes
    BY <1>3, PTL
  <1> QED
    BY <1>2, <1>3
=============================================================================
