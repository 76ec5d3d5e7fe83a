---------------------- MODULE WindowsPipeServer_proofs ----------------------
(***************************************************************************)
(* Proofs about WindowsPipeServer, for any clients.                          *)
(*                                                                           *)
(* LifeInv, for what outlives the server, holds even if callbacks run before *)
(* Start returns.  MachineInv and HandshakeInv, for the state machine and    *)
(* the registration of a client, are about a Start that returns first.       *)
(***************************************************************************)
EXTENDS WindowsPipeServer, TLAPS

\* Names for pieces of the state and of a step.
USE DEF vars, serverVars, waitVars, lifeVars, ioVars, pipeVars, Threads, Idle, None,
        Goto, Set, Stands, Running, Issue, Complete, Cancel, Drop, ClientTo

\* The thread is about to store s in server_state_.
Setting(th, s) == Stands(th, "set") /\ at[th][2] = s

\* A thread stores a state the server starts from or goes to.
ShapeInv ==
    /\ DOMAIN at = Threads /\ state \in States
    /\ \A th \in Threads : Stands(th, "set") => at[th][2] \in States \ {"UNINITIALIZED"}
    /\ io \in [op : {None, "connect", "read", "write"}, st : {None, "pending", "ok", "failed"}]

-----------------------------------------------------------------------------
(* What outlives the server. *)

\* Start runs once, before the destructor, and nothing has happened to the
\* event and the pipe when its thread enters the state machine.
StartInv ==
    /\ state = "UNINITIALIZED" =>
          /\ \A th \in Threads : Stands(th, "idle")
          /\ ~waiting /\ started = None /\ ~event /\ io.st = None
    /\ started # None => Stands("start", "idle")
    /\ dtor # None => started # None
    /\ Running("start", "INITIAL") =>
          waiting /\ Stands("wait", "idle") /\ ~event /\ io.st = None

\* The wait thread is in a handler only while OnPipeConnected is registered,
\* save in HandleErrorState; the destructor waits for it.
WaitInv ==
    /\ waiting => wait_handle /\ pipe_handle
    /\ \/ at["wait"][1] \in {"idle", "unregistered", "closed"}
       \/ waiting
    /\ at["wait"][1] \in {"unregistered", "closed"} => ~waiting
    /\ dtor \in {"close", "delete", "gone"} => ~waiting

\* An operation is pending only on a pipe that is not closed.
PendingInv ==
    io.st = "pending" => pipe_handle /\ dtor \notin {"delete", "gone"}

LifeInv == ShapeInv /\ StartInv /\ WaitInv /\ PendingInv

\* Nothing has begun.
LEMMA InitLifeInv == Init => LifeInv
  BY DEF Init, LifeInv, ShapeInv, StartInv, WaitInv, PendingInv, States

\* Every step keeps what the server's parts can be.
LEMMA StepShapeInv == ShapeInv /\ [Next]_vars => ShapeInv'
  <1> SUFFICES ASSUME ShapeInv, [Next]_vars PROVE ShapeInv'
    OBVIOUS
  <1> USE DEF ShapeInv, States
  <1>1. CASE UNCHANGED <<at, io, state>>
    BY <1>1
  <1>2. CASE Start
    BY <1>2 DEF Start
  <1>3. CASE StartFails
    BY <1>3 DEF StartFails
  <1>4. CASE EnterState("start")
    BY <1>4 DEF EnterState
  <1>5. CASE HandleInitialState("start")
    BY <1>5 DEF HandleInitialState, EnterErrorState
  <1>6. CASE StartReturns
    BY <1>6 DEF StartReturns
  <1>7. CASE OnPipeConnected
    <2>1. CASE shutting_down_
      BY <1>7, <2>1 DEF OnPipeConnected
    <2>2. CASE ~shutting_down_
      BY <1>7, <2>2 DEF OnPipeConnected
    <2> QED
      BY <2>1, <2>2
  <1>8. CASE EnterState("wait")
    BY <1>8 DEF EnterState
  <1>9. CASE SetEventFails("start")
    BY <1>9 DEF SetEventFails
  <1>10. CASE SetEventFails("wait")
    BY <1>10 DEF SetEventFails
  <1>11. CASE HandleInitialState("wait")
    BY <1>11 DEF HandleInitialState, EnterErrorState
  <1>12. CASE HandleConnectingState
    BY <1>12 DEF HandleConnectingState
  <1>13. CASE HandleConnectedState
    BY <1>13 DEF HandleConnectedState, StartRead
  <1>14. CASE HandleReadingState
    BY <1>14 DEF HandleReadingState
  <1>15. CASE HandleReadDoneState
    BY <1>15 DEF HandleReadDoneState
  <1>16. CASE AddClient
    BY <1>16 DEF AddClient
  <1>17. CASE HandleWritingState
    BY <1>17 DEF HandleWritingState
  <1>18. CASE HandleWriteDoneState
    BY <1>18 DEF HandleWriteDoneState, StartRead
  <1>19. CASE HandleReadingAckState
    BY <1>19 DEF HandleReadingAckState
  <1>20. CASE HandleDisconnectingState
    BY <1>20 DEF HandleDisconnectingState, EnterErrorState
  <1>21. CASE DisconnectingChecks
    BY <1>21 DEF DisconnectingChecks
  <1>22. CASE HandleErrorState
    BY <1>22 DEF HandleErrorState
  <1>23. CASE ErrorClosesPipe
    BY <1>23 DEF ErrorClosesPipe
  <1>24. CASE ErrorReturns
    BY <1>24 DEF ErrorReturns
  <1>25. CASE ReadCompletes
    BY <1>25 DEF ReadCompletes, Readable
  <1>26. CASE WriteCompletes
    BY <1>26 DEF WriteCompletes
  <1>27. CASE DisconnectPipe
    BY <1>27 DEF DisconnectPipe
  <1>28. CASE ClosePipe
    BY <1>28 DEF ClosePipe
  <1>29. ASSUME NEW c \in Clients, ConnectToPipe(c) PROVE ShapeInv'
    BY <1>29 DEF ConnectToPipe
  <1> QED
    BY <1>1, <1>2, <1>3, <1>4, <1>5, <1>6, <1>7, <1>8, <1>9, <1>10, <1>11,
        <1>12, <1>13, <1>14, <1>15, <1>16, <1>17, <1>18, <1>19, <1>20, <1>21,
        <1>22, <1>23, <1>24, <1>25, <1>26, <1>27, <1>28, <1>29
    DEF Next, StartThread, WaitThread, Destructor, Registers, Finished,
        BeginShutdown, AwaitError, UnregisterPipeWait, DeleteClients,
        ConnectFails, WriteRequest, ReadReply, WriteAck, WriteOther,
        OtherCloses, CallFails, Close, Die, CleanupClient

\* Before Start enters the state machine nothing is pending.
LEMMA StepStartInv == LifeInv /\ [Next]_vars => StartInv'
  <1> SUFFICES ASSUME LifeInv, [Next]_vars PROVE StartInv'
    OBVIOUS
  <1> USE DEF LifeInv, ShapeInv, StartInv, WaitInv
  <1>1. CASE UNCHANGED <<state, at, waiting, started, dtor, event, io>>
    BY <1>1
  <1>2. CASE Start
    BY <1>2 DEF Start
  <1>3. CASE StartFails
    BY <1>3 DEF StartFails
  <1>4. CASE EnterState("start")
    BY <1>4 DEF EnterState
  <1>5. CASE HandleInitialState("start")
    BY <1>5 DEF HandleInitialState, EnterErrorState
  <1>6. CASE StartReturns
    BY <1>6 DEF StartReturns
  <1>7. CASE OnPipeConnected
    <2>1. CASE shutting_down_
      BY <1>7, <2>1 DEF OnPipeConnected
    <2>2. CASE ~shutting_down_
      BY <1>7, <2>2 DEF OnPipeConnected
    <2> QED
      BY <2>1, <2>2
  <1>8. CASE EnterState("wait")
    BY <1>8 DEF EnterState
  <1>9. CASE SetEventFails("start")
    BY <1>9 DEF SetEventFails
  <1>10. CASE SetEventFails("wait")
    BY <1>10 DEF SetEventFails
  <1>11. CASE HandleInitialState("wait")
    BY <1>11 DEF HandleInitialState, EnterErrorState
  <1>12. CASE HandleConnectingState
    BY <1>12 DEF HandleConnectingState
  <1>13. CASE HandleConnectedState
    BY <1>13 DEF HandleConnectedState, StartRead
  <1>14. CASE HandleReadingState
    BY <1>14 DEF HandleReadingState
  <1>15. CASE HandleReadDoneState
    BY <1>15 DEF HandleReadDoneState
  <1>16. CASE AddClient
    BY <1>16 DEF AddClient
  <1>17. CASE HandleWritingState
    BY <1>17 DEF HandleWritingState
  <1>18. CASE HandleWriteDoneState
    BY <1>18 DEF HandleWriteDoneState, StartRead
  <1>19. CASE HandleReadingAckState
    BY <1>19 DEF HandleReadingAckState
  <1>20. CASE HandleDisconnectingState
    BY <1>20 DEF HandleDisconnectingState, EnterErrorState
  <1>21. CASE DisconnectingChecks
    BY <1>21 DEF DisconnectingChecks
  <1>22. CASE HandleErrorState
    <2>1. CASE shutting_down_
      BY <1>22, <2>1 DEF HandleErrorState
    <2>2. CASE ~shutting_down_
      BY <1>22, <2>2 DEF HandleErrorState
    <2> QED
      BY <2>1, <2>2
  <1>23. CASE ErrorClosesPipe
    BY <1>23 DEF ErrorClosesPipe
  <1>24. CASE ErrorReturns
    BY <1>24 DEF ErrorReturns
  <1>25. CASE ReadCompletes
    BY <1>25 DEF ReadCompletes, Readable
  <1>26. CASE WriteCompletes
    BY <1>26 DEF WriteCompletes
  <1>27. CASE BeginShutdown
    BY <1>27 DEF BeginShutdown
  <1>28. CASE DisconnectPipe
    BY <1>28 DEF DisconnectPipe
  <1>29. CASE AwaitError
    BY <1>29 DEF AwaitError
  <1>30. CASE UnregisterPipeWait
    BY <1>30 DEF UnregisterPipeWait
  <1>31. CASE ClosePipe
    BY <1>31 DEF ClosePipe
  <1>32. CASE DeleteClients
    BY <1>32 DEF DeleteClients
  <1>33. ASSUME NEW c \in Clients, ConnectToPipe(c) PROVE StartInv'
    BY <1>33 DEF ConnectToPipe
  <1> QED
    BY <1>1, <1>2, <1>3, <1>4, <1>5, <1>6, <1>7, <1>8, <1>9, <1>10, <1>11,
        <1>12, <1>13, <1>14, <1>15, <1>16, <1>17, <1>18, <1>19, <1>20, <1>21,
        <1>22, <1>23, <1>24, <1>25, <1>26, <1>27, <1>28, <1>29, <1>30, <1>31,
        <1>32, <1>33
    DEF Next, StartThread, WaitThread, Destructor, Registers, Finished,
        ConnectFails, WriteRequest, ReadReply, WriteAck, WriteOther,
        OtherCloses, CallFails, Close, Die, CleanupClient

\* The wait thread is in a handler only while its wait is registered.
LEMMA StepWaitInv == LifeInv /\ [Next]_vars => WaitInv'
  <1> SUFFICES ASSUME LifeInv, [Next]_vars PROVE WaitInv'
    OBVIOUS
  <1> USE DEF LifeInv, ShapeInv, StartInv, WaitInv
  <1>1. CASE UNCHANGED <<at, waiting, wait_handle, pipe_handle, dtor>>
    BY <1>1
  <1>2. CASE Start
    BY <1>2 DEF Start
  <1>3. CASE StartFails
    BY <1>3 DEF StartFails
  <1>4. CASE EnterState("start")
    BY <1>4 DEF EnterState
  <1>5. CASE HandleInitialState("start")
    BY <1>5 DEF HandleInitialState, EnterErrorState
  <1>6. CASE StartReturns
    BY <1>6 DEF StartReturns
  <1>7. CASE OnPipeConnected
    <2>1. CASE shutting_down_
      BY <1>7, <2>1 DEF OnPipeConnected
    <2>2. CASE ~shutting_down_
      BY <1>7, <2>2 DEF OnPipeConnected
    <2> QED
      BY <2>1, <2>2
  <1>8. CASE EnterState("wait")
    BY <1>8 DEF EnterState
  <1>9. CASE SetEventFails("start")
    BY <1>9 DEF SetEventFails
  <1>10. CASE SetEventFails("wait")
    BY <1>10 DEF SetEventFails
  <1>11. CASE HandleInitialState("wait")
    BY <1>11 DEF HandleInitialState, EnterErrorState
  <1>12. CASE HandleConnectingState
    BY <1>12 DEF HandleConnectingState
  <1>13. CASE HandleConnectedState
    BY <1>13 DEF HandleConnectedState, StartRead
  <1>14. CASE HandleReadingState
    BY <1>14 DEF HandleReadingState
  <1>15. CASE HandleReadDoneState
    BY <1>15 DEF HandleReadDoneState
  <1>16. CASE AddClient
    BY <1>16 DEF AddClient
  <1>17. CASE HandleWritingState
    BY <1>17 DEF HandleWritingState
  <1>18. CASE HandleWriteDoneState
    BY <1>18 DEF HandleWriteDoneState, StartRead
  <1>19. CASE HandleReadingAckState
    BY <1>19 DEF HandleReadingAckState
  <1>20. CASE HandleDisconnectingState
    BY <1>20 DEF HandleDisconnectingState, EnterErrorState
  <1>21. CASE DisconnectingChecks
    BY <1>21 DEF DisconnectingChecks
  <1>22. CASE HandleErrorState
    <2>1. CASE shutting_down_
      BY <1>22, <2>1 DEF HandleErrorState
    <2>2. CASE ~shutting_down_
      BY <1>22, <2>2 DEF HandleErrorState
    <2> QED
      BY <2>1, <2>2
  <1>23. CASE ErrorClosesPipe
    BY <1>23 DEF ErrorClosesPipe
  <1>24. CASE ErrorReturns
    BY <1>24 DEF ErrorReturns
  <1>25. CASE BeginShutdown
    BY <1>25 DEF BeginShutdown
  <1>26. CASE DisconnectPipe
    BY <1>26 DEF DisconnectPipe
  <1>27. CASE AwaitError
    BY <1>27 DEF AwaitError
  <1>28. CASE UnregisterPipeWait
    BY <1>28 DEF UnregisterPipeWait
  <1>29. CASE ClosePipe
    BY <1>29 DEF ClosePipe
  <1>30. CASE DeleteClients
    BY <1>30 DEF DeleteClients
  <1> QED
    BY <1>1, <1>2, <1>3, <1>4, <1>5, <1>6, <1>7, <1>8, <1>9, <1>10, <1>11,
        <1>12, <1>13, <1>14, <1>15, <1>16, <1>17, <1>18, <1>19, <1>20, <1>21,
        <1>22, <1>23, <1>24, <1>25, <1>26, <1>27, <1>28, <1>29, <1>30
    DEF Next, StartThread, WaitThread, Destructor, Registers, Finished,
        ReadCompletes, WriteCompletes, ConnectToPipe, ConnectFails,
        WriteRequest, ReadReply, WriteAck, WriteOther, OtherCloses, CallFails,
        Close, Die, CleanupClient

\* An operation is pending only on a pipe that is open.
LEMMA StepPendingInv == LifeInv /\ [Next]_vars => PendingInv'
  <1> SUFFICES ASSUME LifeInv, [Next]_vars PROVE PendingInv'
    OBVIOUS
  <1> USE DEF LifeInv, ShapeInv, StartInv, WaitInv, PendingInv
  <1>1. CASE UNCHANGED <<io, pipe_handle, dtor>>
    BY <1>1
  <1>2. CASE Start
    BY <1>2 DEF Start
  <1>3. CASE StartFails
    BY <1>3 DEF StartFails
  <1>4. CASE HandleInitialState("start")
    BY <1>4 DEF HandleInitialState, EnterErrorState
  <1>5. CASE HandleInitialState("wait")
    BY <1>5 DEF HandleInitialState, EnterErrorState
  <1>6. CASE HandleConnectedState
    BY <1>6 DEF HandleConnectedState, StartRead
  <1>7. CASE HandleReadDoneState
    BY <1>7 DEF HandleReadDoneState
  <1>8. CASE HandleWriteDoneState
    BY <1>8 DEF HandleWriteDoneState, StartRead
  <1>9. CASE HandleDisconnectingState
    BY <1>9 DEF HandleDisconnectingState, EnterErrorState
  <1>10. CASE ErrorClosesPipe
    BY <1>10 DEF ErrorClosesPipe
  <1>11. CASE ReadCompletes
    BY <1>11 DEF ReadCompletes, Readable
  <1>12. CASE WriteCompletes
    BY <1>12 DEF WriteCompletes
  <1>13. CASE BeginShutdown
    BY <1>13 DEF BeginShutdown
  <1>14. CASE DisconnectPipe
    BY <1>14 DEF DisconnectPipe
  <1>15. CASE AwaitError
    BY <1>15 DEF AwaitError
  <1>16. CASE UnregisterPipeWait
    BY <1>16 DEF UnregisterPipeWait
  <1>17. CASE ClosePipe
    BY <1>17 DEF ClosePipe
  <1>18. CASE DeleteClients
    BY <1>18 DEF DeleteClients
  <1>19. ASSUME NEW c \in Clients, ConnectToPipe(c) PROVE PendingInv'
    BY <1>19 DEF ConnectToPipe
  <1> QED
    BY <1>1, <1>2, <1>3, <1>4, <1>5, <1>6, <1>7, <1>8, <1>9, <1>10, <1>11,
        <1>12, <1>13, <1>14, <1>15, <1>16, <1>17, <1>18, <1>19
    DEF Next, StartThread, WaitThread, Destructor, Registers, Finished,
        EnterState, SetEventFails, StartReturns, OnPipeConnected,
        HandleConnectingState, HandleReadingState, AddClient,
        HandleWritingState, HandleReadingAckState, DisconnectingChecks,
        HandleErrorState, ErrorReturns, ConnectFails, WriteRequest, ReadReply,
        WriteAck, WriteOther, OtherCloses, CallFails, Close, Die, CleanupClient

\* The parts hold together.
LEMMA StepLifeInv == LifeInv /\ [Next]_vars => LifeInv'
  BY StepShapeInv, StepStartInv, StepWaitInv, StepPendingInv DEF LifeInv

\* When the server object is gone nothing completes into its OVERLAPPED, and
\* no callback is in it but one at the end of HandleErrorState, even if
\* callbacks run before Start returns.
THEOREM NothingOutlivesTheServer == Spec => []NothingOutlives
  <1>1. LifeInv => NothingOutlives
    BY DEF LifeInv, WaitInv, PendingInv, NothingOutlives
  <1> QED
    BY InitLifeInv, StepLifeInv, <1>1, PTL DEF Spec

-----------------------------------------------------------------------------
(* The state machine, when no callback runs before Start has returned. *)

\* A thread that runs a handler, or is about to store a state, found the state
\* it works on, and only one thread does.
MachineInv ==
    /\ \A th \in Threads :
          /\ Stands(th, "run") => at[th][2] = state
          /\ Stands(th, "set") => Allowed(state, at[th][2])
    /\ ~Stands("start", "idle") => Stands("wait", "idle")
    /\ at["start"][1] \in {"idle", "return"} \/ state = "INITIAL"
    /\ Stands("wait", "add") => state = "READ_DONE"
    /\ Stands("wait", "check") => state = "DISCONNECTING"


\* The thread that runs a handler is alone and finds its state.
LEMMA StepMachineInv == ~StartRaces /\ LifeInv /\ MachineInv /\ [Next]_vars => MachineInv'
  <1> SUFFICES ASSUME ~StartRaces, LifeInv, MachineInv, [Next]_vars PROVE MachineInv'
    OBVIOUS
  <1> USE DEF LifeInv, ShapeInv, StartInv, MachineInv, Allowed, States
  <1>1. CASE UNCHANGED <<at, state>>
    BY <1>1
  <1>2. CASE Start
    BY <1>2 DEF Start
  <1>3. CASE StartFails
    BY <1>3 DEF StartFails
  <1>4. CASE EnterState("start")
    BY <1>4 DEF EnterState
  <1>5. CASE HandleInitialState("start")
    BY <1>5 DEF HandleInitialState, EnterErrorState
  <1>6. CASE StartReturns
    BY <1>6 DEF StartReturns
  <1>7. CASE OnPipeConnected
    <2>1. CASE shutting_down_
      BY <1>7, <2>1 DEF OnPipeConnected
    <2>2. CASE ~shutting_down_
      BY <1>7, <2>2 DEF OnPipeConnected
    <2> QED
      BY <2>1, <2>2
  <1>8. CASE EnterState("wait")
    BY <1>8 DEF EnterState
  <1>9. CASE SetEventFails("start")
    BY <1>9 DEF SetEventFails
  <1>10. CASE SetEventFails("wait")
    BY <1>10 DEF SetEventFails
  <1>11. CASE HandleInitialState("wait")
    BY <1>11 DEF HandleInitialState, EnterErrorState
  <1>12. CASE HandleConnectingState
    BY <1>12 DEF HandleConnectingState
  <1>13. CASE HandleConnectedState
    BY <1>13 DEF HandleConnectedState, StartRead
  <1>14. CASE HandleReadingState
    BY <1>14 DEF HandleReadingState
  <1>15. CASE HandleReadDoneState
    BY <1>15 DEF HandleReadDoneState
  <1>16. CASE AddClient
    BY <1>16 DEF AddClient
  <1>17. CASE HandleWritingState
    BY <1>17 DEF HandleWritingState
  <1>18. CASE HandleWriteDoneState
    BY <1>18 DEF HandleWriteDoneState, StartRead
  <1>19. CASE HandleReadingAckState
    BY <1>19 DEF HandleReadingAckState
  <1>20. CASE HandleDisconnectingState
    BY <1>20 DEF HandleDisconnectingState, EnterErrorState
  <1>21. CASE DisconnectingChecks
    BY <1>21 DEF DisconnectingChecks
  <1>22. CASE HandleErrorState
    BY <1>22 DEF HandleErrorState
  <1>23. CASE ErrorClosesPipe
    BY <1>23 DEF ErrorClosesPipe
  <1>24. CASE ErrorReturns
    BY <1>24 DEF ErrorReturns
  <1> QED
    BY <1>1, <1>2, <1>3, <1>4, <1>5, <1>6, <1>7, <1>8, <1>9, <1>10, <1>11,
        <1>12, <1>13, <1>14, <1>15, <1>16, <1>17, <1>18, <1>19, <1>20, <1>21,
        <1>22, <1>23, <1>24
    DEF Next, StartThread, WaitThread, Destructor, Registers, Finished,
        ReadCompletes, WriteCompletes, BeginShutdown, DisconnectPipe,
        AwaitError, UnregisterPipeWait, ClosePipe, DeleteClients, ConnectToPipe,
        ConnectFails, WriteRequest, ReadReply, WriteAck, WriteOther,
        OtherCloses, CallFails, Close, Die, CleanupClient

\* Every change of the state is one that ReadMe.txt has, or the shutdown's.
THEOREM StatesFollowTheTable == ASSUME ~StartRaces PROVE Spec => StateMachineTable
  <1> DEFINE Table == \/ UNCHANGED state
                      \/ shutting_down_ /\ state' = "ERROR"
                      \/ \E th \in Threads : SetEventFails(th)
                      \/ Allowed(state, state')
  <1>1. Init => LifeInv /\ MachineInv
    BY InitLifeInv DEF Init, MachineInv
  <1>2. LifeInv /\ MachineInv /\ [Next]_vars => LifeInv' /\ MachineInv'
    BY StepLifeInv, StepMachineInv
  <1>3. LifeInv /\ MachineInv /\ [Next]_vars => [Table]_vars
    <2> SUFFICES ASSUME LifeInv, MachineInv, Next, ~UNCHANGED state PROVE Table
      OBVIOUS
    <2>1. CASE Start \/ StartFails
      BY <2>1 DEF Start, StartFails, Allowed
    <2>2. CASE EnterState("start") \/ EnterState("wait")
      BY <2>2 DEF EnterState, MachineInv
    <2>3. CASE OnPipeConnected
      BY <2>3 DEF OnPipeConnected
    <2>4. CASE SetEventFails("start") \/ SetEventFails("wait")
      BY <2>4
    <2> QED
      BY <2>1, <2>2, <2>3, <2>4
      DEF Next, StartThread, WaitThread, Destructor, Registers, Finished,
              HandleInitialState, StartReturns, HandleConnectingState,
              HandleConnectedState, HandleReadingState, HandleReadDoneState,
              AddClient, HandleWritingState, HandleWriteDoneState,
              HandleReadingAckState, HandleDisconnectingState,
              DisconnectingChecks, HandleErrorState, ErrorClosesPipe,
              ErrorReturns, ReadCompletes, WriteCompletes, BeginShutdown,
              DisconnectPipe, AwaitError, UnregisterPipeWait, ClosePipe,
              DeleteClients, ConnectToPipe, ConnectFails, WriteRequest,
              ReadReply, WriteAck, WriteOther, OtherCloses, CallFails, Close, Die, CleanupClient
  <1> QED
    BY <1>1, <1>2, <1>3, PTL DEF Spec, StateMachineTable

-----------------------------------------------------------------------------
(* The handshake. *)

\* The process at the other end of the pipe has sent what the pipe holds, and
\* hears nothing before it has a ClientInfo.
PipeInv ==
    /\ IF pipe \in {"open", "closing"} THEN peer \in Clients
       ELSE peer = None /\ toServer = None /\ ~toClient
    /\ peer # None => client[peer] # "new"
    /\ toServer # None => client[peer] \notin {"new", "open"}
    /\ toClient => info[peer] # None

\* A client that has had a reply has a ClientInfo, or had it until it died.
InfoInv ==
    \A c \in Clients :
        /\ client[c] \in {"replied", "true"} => info[c] # None
        /\ info[c] = "new" => Adding(c)
        /\ info[c] = "deleted" => client[c] = "dead" \/ dtor = "gone"

\* The pipe listens until a client comes, and not again before it is dropped.
ListenInv ==
    /\ state = "UNINITIALIZED" => pipe = None
    /\ pipe = "listening" => state \in {"INITIAL", "CONNECTING", "ERROR"}
    /\ io.op = "connect" /\ io.st \in {"ok", "failed"} => pipe # "listening"
    /\ \A th \in Threads :
          /\ Setting(th, "CONNECTING") => io.op = "connect"
          /\ Setting(th, "CONNECTED") \/ Setting(th, "DISCONNECTING") => pipe # "listening"
    /\ state = "CONNECTING" => io.op = "connect"
    /\ Stands("wait", "check") \/ Setting("wait", "INITIAL") => peer = None /\ pipe # "listening"

\* Once the server has read the first message of the process at the other end,
\* one in the pipe is its second.
HasRead ==
    \/ state \in {"READ_DONE", "WRITING", "WRITE_DONE", "READING_ACK"}
    \/ (state = "READING" \/ Setting("wait", "READING")) /\ io.st = "ok"
ReadInv ==
    /\ state = "READING" \/ Setting("wait", "READING") => io.op = "read"
    /\ Setting("wait", "READ_DONE") => io.st = "ok"
    /\ HasRead /\ peer # None =>
          client[peer] \notin {"new", "open"} /\ (toServer # None => client[peer] \in Spoken)

\* From AddClient on, client_info_ is the process at the other end, if any, and
\* what completes the second read is its second message.
Late == state \in {"WRITING", "WRITE_DONE", "READING_ACK"} \/ Setting("wait", "WRITING")
Acknowledged == state = "READING_ACK" /\ Stands("wait", "set")
LateInv ==
    /\ Stands("wait", "add") => at["wait"][2] \in Clients /\ peer \in {None, at["wait"][2]}
    /\ Late => client_info_ \in Clients /\ peer \in {None, client_info_}
    /\ state = "READING_ACK" \/ Setting("wait", "READING_ACK") =>
          io.op = "read" /\ (io.st = "ok" => client[client_info_] \in Spoken)

\* The callback has not been told of a client the server still works on.
CalledInv ==
    /\ \A c \in Clients : called[c] = 1 => client[c] \in Spoken
    /\ Stands("wait", "add") => called[at["wait"][2]] = 0
    /\ Late /\ ~Acknowledged => called[client_info_] = 0
    /\ peer # None /\ called[peer] # 0 => state \in {"DISCONNECTING", "ERROR"} \/ Acknowledged

HandshakeInv ==
    /\ TypeOK /\ MachineInv /\ PipeInv /\ InfoInv
    /\ ListenInv /\ ReadInv /\ LateInv /\ CalledInv

\* Every step keeps the types of the flags.
LEMMA StepFlagsOK == ~StartRaces /\ LifeInv /\ HandshakeInv /\ [Next]_vars => FlagsOK'
  <1> SUFFICES ASSUME ~StartRaces, LifeInv, HandshakeInv, [Next]_vars PROVE FlagsOK'
    OBVIOUS
  <1> USE DEF LifeInv, HandshakeInv, ShapeInv, States, Setting, Late,
      Acknowledged, HasRead, TypeOK, FlagsOK, DataOK, Registering, Messages,
      Spoken
  <1>1. CASE UNCHANGED <<event, shutting_down_, waiting, wait_handle, pipe_handle, toClient>>
    BY <1>1
  <1>2. CASE Start
    BY <1>2 DEF Start
  <1>3. CASE StartFails
    BY <1>3 DEF StartFails
  <1>4. CASE EnterState("start")
    BY <1>4 DEF EnterState
  <1>5. CASE HandleInitialState("start")
    BY <1>5 DEF HandleInitialState, EnterErrorState
  <1>6. CASE OnPipeConnected
    <2>1. CASE shutting_down_
      BY <1>6, <2>1 DEF OnPipeConnected
    <2>2. CASE ~shutting_down_
      BY <1>6, <2>2 DEF OnPipeConnected
    <2> QED
      BY <2>1, <2>2
  <1>7. CASE EnterState("wait")
    BY <1>7 DEF EnterState
  <1>8. CASE SetEventFails("start")
    BY <1>8 DEF SetEventFails
  <1>9. CASE SetEventFails("wait")
    BY <1>9 DEF SetEventFails
  <1>10. CASE HandleInitialState("wait")
    BY <1>10 DEF HandleInitialState, EnterErrorState
  <1>11. CASE HandleConnectedState
    BY <1>11 DEF HandleConnectedState, StartRead
  <1>12. CASE HandleReadDoneState
    BY <1>12 DEF HandleReadDoneState
  <1>13. CASE HandleWriteDoneState
    BY <1>13 DEF HandleWriteDoneState, StartRead
  <1>14. CASE HandleDisconnectingState
    BY <1>14 DEF HandleDisconnectingState, EnterErrorState
  <1>15. CASE HandleErrorState
    BY <1>15 DEF HandleErrorState
  <1>16. CASE ErrorClosesPipe
    BY <1>16 DEF ErrorClosesPipe
  <1>17. CASE ErrorReturns
    BY <1>17 DEF ErrorReturns
  <1>18. CASE ReadCompletes
    BY <1>18 DEF ReadCompletes, Readable
  <1>19. CASE WriteCompletes
    BY <1>19 DEF WriteCompletes
  <1>20. CASE BeginShutdown
    BY <1>20 DEF BeginShutdown
  <1>21. CASE DisconnectPipe
    BY <1>21 DEF DisconnectPipe
  <1>22. CASE UnregisterPipeWait
    BY <1>22 DEF UnregisterPipeWait
  <1>23. CASE ClosePipe
    BY <1>23 DEF ClosePipe
  <1>24. ASSUME NEW c \in Clients, ConnectToPipe(c) PROVE FlagsOK'
    BY <1>24 DEF ConnectToPipe
  <1>25. ASSUME NEW c \in Clients, ReadReply(c) PROVE FlagsOK'
    BY <1>25 DEF ReadReply
  <1> QED
    BY <1>1, <1>2, <1>3, <1>4, <1>5, <1>6, <1>7, <1>8, <1>9, <1>10, <1>11,
        <1>12, <1>13, <1>14, <1>15, <1>16, <1>17, <1>18, <1>19, <1>20, <1>21,
        <1>22, <1>23, <1>24, <1>25
    DEF Next, StartThread, WaitThread, Destructor, Registers, Finished,
        StartReturns, HandleConnectingState, HandleReadingState, AddClient,
        HandleWritingState, HandleReadingAckState, DisconnectingChecks,
        AwaitError, DeleteClients, ConnectFails, WriteRequest, WriteAck,
        WriteOther, OtherCloses, CallFails, Close, Die, CleanupClient

\* Every step keeps the types of what is sent.
LEMMA StepDataOK == ~StartRaces /\ LifeInv /\ HandshakeInv /\ [Next]_vars => DataOK'
  <1> SUFFICES ASSUME ~StartRaces, LifeInv, HandshakeInv, [Next]_vars PROVE DataOK'
    OBVIOUS
  <1> USE DEF LifeInv, HandshakeInv, ShapeInv, LateInv, CalledInv, PipeInv,
      MachineInv, States, Setting, Late, Acknowledged, HasRead, TypeOK,
      FlagsOK, DataOK, Registering, Messages,
      Spoken
  <1>1. CASE UNCHANGED <<state, io, msg, client_info_, info, called, started, dtor, pipe, peer, toServer, client, at>>
    BY <1>1
  <1>2. CASE Start
    BY <1>2 DEF Start
  <1>3. CASE StartFails
    BY <1>3 DEF StartFails
  <1>4. CASE EnterState("start")
    BY <1>4 DEF EnterState
  <1>5. CASE HandleInitialState("start")
    BY <1>5 DEF HandleInitialState, EnterErrorState
  <1>6. CASE StartReturns
    BY <1>6 DEF StartReturns
  <1>7. CASE OnPipeConnected
    <2>1. CASE shutting_down_
      BY <1>7, <2>1 DEF OnPipeConnected
    <2>2. CASE ~shutting_down_
      BY <1>7, <2>2 DEF OnPipeConnected
    <2> QED
      BY <2>1, <2>2
  <1>8. CASE EnterState("wait")
    BY <1>8 DEF EnterState
  <1>9. CASE SetEventFails("start")
    BY <1>9 DEF SetEventFails
  <1>10. CASE SetEventFails("wait")
    BY <1>10 DEF SetEventFails
  <1>11. CASE HandleInitialState("wait")
    BY <1>11 DEF HandleInitialState, EnterErrorState
  <1>12. CASE HandleConnectingState
    BY <1>12 DEF HandleConnectingState
  <1>13. CASE HandleConnectedState
    BY <1>13 DEF HandleConnectedState, StartRead
  <1>14. CASE HandleReadingState
    BY <1>14 DEF HandleReadingState
  <1>15. CASE HandleReadDoneState
    BY <1>15 DEF HandleReadDoneState
  <1>16. CASE AddClient
    BY <1>16 DEF AddClient
  <1>17. CASE HandleWritingState
    BY <1>17 DEF HandleWritingState
  <1>18. CASE HandleWriteDoneState
    BY <1>18 DEF HandleWriteDoneState, StartRead
  <1>19. CASE HandleReadingAckState
    BY <1>19 DEF HandleReadingAckState
  <1>20. CASE HandleDisconnectingState
    BY <1>20 DEF HandleDisconnectingState, EnterErrorState
  <1>21. CASE DisconnectingChecks
    BY <1>21 DEF DisconnectingChecks
  <1>22. CASE HandleErrorState
    BY <1>22 DEF HandleErrorState
  <1>23. CASE ErrorClosesPipe
    BY <1>23 DEF ErrorClosesPipe
  <1>24. CASE ErrorReturns
    BY <1>24 DEF ErrorReturns
  <1>25. CASE ReadCompletes
    BY <1>25 DEF ReadCompletes, Readable
  <1>26. CASE WriteCompletes
    BY <1>26 DEF WriteCompletes
  <1>27. CASE BeginShutdown
    BY <1>27 DEF BeginShutdown
  <1>28. CASE DisconnectPipe
    BY <1>28 DEF DisconnectPipe
  <1>29. CASE AwaitError
    BY <1>29 DEF AwaitError
  <1>30. CASE UnregisterPipeWait
    BY <1>30 DEF UnregisterPipeWait
  <1>31. CASE ClosePipe
    BY <1>31 DEF ClosePipe
  <1>32. CASE DeleteClients
    BY <1>32 DEF DeleteClients
  <1>33. ASSUME NEW c \in Clients, ConnectToPipe(c) PROVE DataOK'
    BY <1>33 DEF ConnectToPipe
  <1>34. ASSUME NEW c \in Clients, ConnectFails(c) PROVE DataOK'
    BY <1>34 DEF ConnectFails
  <1>35. ASSUME NEW c \in Clients, WriteRequest(c) PROVE DataOK'
    BY <1>35 DEF WriteRequest
  <1>36. ASSUME NEW c \in Clients, ReadReply(c) PROVE DataOK'
    BY <1>36 DEF ReadReply
  <1>37. ASSUME NEW c \in Clients, WriteAck(c) PROVE DataOK'
    BY <1>37 DEF WriteAck, HangUp
  <1>38. ASSUME NEW c \in Clients, WriteOther(c) PROVE DataOK'
    BY <1>38 DEF WriteOther
  <1>39. ASSUME NEW c \in Clients, OtherCloses(c) PROVE DataOK'
    BY <1>39 DEF OtherCloses, HangUp
  <1>40. ASSUME NEW c \in Clients, CallFails(c) PROVE DataOK'
    BY <1>40 DEF CallFails
  <1>41. ASSUME NEW c \in Clients, Close(c) PROVE DataOK'
    BY <1>41 DEF Close, HangUp
  <1>42. ASSUME NEW c \in Clients, Die(c) PROVE DataOK'
    BY <1>42 DEF Die, HangUp
  <1>43. ASSUME NEW c \in Clients, CleanupClient(c) PROVE DataOK'
    BY <1>43 DEF CleanupClient
  <1> QED
    BY <1>1, <1>2, <1>3, <1>4, <1>5, <1>6, <1>7, <1>8, <1>9, <1>10, <1>11,
        <1>12, <1>13, <1>14, <1>15, <1>16, <1>17, <1>18, <1>19, <1>20, <1>21,
        <1>22, <1>23, <1>24, <1>25, <1>26, <1>27, <1>28, <1>29, <1>30, <1>31,
        <1>32, <1>33, <1>34, <1>35, <1>36, <1>37, <1>38, <1>39, <1>40, <1>41,
        <1>42, <1>43
    DEF Next, StartThread, WaitThread, Destructor, Registers, Finished

\* What the pipe holds comes from the process at its other end.
LEMMA StepPipeInv == ~StartRaces /\ LifeInv /\ HandshakeInv /\ [Next]_vars => PipeInv'
  <1> SUFFICES ASSUME ~StartRaces, LifeInv, HandshakeInv, [Next]_vars PROVE PipeInv'
    OBVIOUS
  <1> USE DEF LifeInv, HandshakeInv, ShapeInv, PipeInv, ListenInv, InfoInv,
      LateInv, Hold, Adding, States, Setting, Late, Acknowledged, HasRead,
      TypeOK, FlagsOK, DataOK, Registering, Messages,
      Spoken
  <1>1. CASE UNCHANGED <<pipe, peer, toServer, toClient, client, info>>
    BY <1>1
  <1>2. CASE Start
    BY <1>2 DEF Start
  <1>3. CASE HandleInitialState("start")
    BY <1>3 DEF HandleInitialState, EnterErrorState
  <1>4. CASE HandleInitialState("wait")
    BY <1>4 DEF HandleInitialState, EnterErrorState
  <1>5. CASE HandleReadDoneState
    BY <1>5 DEF HandleReadDoneState
  <1>6. CASE AddClient
    BY <1>6 DEF AddClient
  <1>7. CASE HandleDisconnectingState
    BY <1>7 DEF HandleDisconnectingState, EnterErrorState
  <1>8. CASE ErrorClosesPipe
    BY <1>8 DEF ErrorClosesPipe
  <1>9. CASE ReadCompletes
    BY <1>9 DEF ReadCompletes, Readable
  <1>10. CASE DisconnectPipe
    BY <1>10 DEF DisconnectPipe
  <1>11. CASE ClosePipe
    BY <1>11 DEF ClosePipe
  <1>12. CASE DeleteClients
    BY <1>12 DEF DeleteClients
  <1>13. ASSUME NEW c \in Clients, ConnectToPipe(c) PROVE PipeInv'
    BY <1>13 DEF ConnectToPipe
  <1>14. ASSUME NEW c \in Clients, ConnectFails(c) PROVE PipeInv'
    BY <1>14 DEF ConnectFails
  <1>15. ASSUME NEW c \in Clients, WriteRequest(c) PROVE PipeInv'
    BY <1>15 DEF WriteRequest
  <1>16. ASSUME NEW c \in Clients, ReadReply(c) PROVE PipeInv'
    BY <1>16 DEF ReadReply
  <1>17. ASSUME NEW c \in Clients, WriteAck(c) PROVE PipeInv'
    BY <1>17 DEF WriteAck, HangUp
  <1>18. ASSUME NEW c \in Clients, WriteOther(c) PROVE PipeInv'
    BY <1>18 DEF WriteOther
  <1>19. ASSUME NEW c \in Clients, OtherCloses(c) PROVE PipeInv'
    BY <1>19 DEF OtherCloses, HangUp
  <1>20. ASSUME NEW c \in Clients, CallFails(c) PROVE PipeInv'
    BY <1>20 DEF CallFails
  <1>21. ASSUME NEW c \in Clients, Close(c) PROVE PipeInv'
    BY <1>21 DEF Close, HangUp
  <1>22. ASSUME NEW c \in Clients, Die(c) PROVE PipeInv'
    BY <1>22 DEF Die, HangUp
  <1>23. ASSUME NEW c \in Clients, CleanupClient(c) PROVE PipeInv'
    BY <1>23 DEF CleanupClient
  <1> QED
    BY <1>1, <1>2, <1>3, <1>4, <1>5, <1>6, <1>7, <1>8, <1>9, <1>10, <1>11,
        <1>12, <1>13, <1>14, <1>15, <1>16, <1>17, <1>18, <1>19, <1>20, <1>21,
        <1>22, <1>23
    DEF Next, StartThread, WaitThread, Destructor, Registers, Finished,
        StartFails, EnterState, SetEventFails, StartReturns, OnPipeConnected,
        HandleConnectingState, HandleConnectedState, HandleReadingState,
        HandleWritingState, HandleWriteDoneState, HandleReadingAckState,
        DisconnectingChecks, HandleErrorState, ErrorReturns, WriteCompletes,
        BeginShutdown, AwaitError, UnregisterPipeWait

\* Replies are for clients that have a ClientInfo.
LEMMA StepInfoInv == ~StartRaces /\ LifeInv /\ HandshakeInv /\ [Next]_vars => InfoInv'
  <1> SUFFICES ASSUME ~StartRaces, LifeInv, HandshakeInv, [Next]_vars PROVE InfoInv'
    OBVIOUS
  <1> USE DEF LifeInv, HandshakeInv, ShapeInv, PipeInv, InfoInv, LateInv,
      Hold, Adding, States, Setting, Late, Acknowledged, HasRead, TypeOK,
      FlagsOK, DataOK, Registering, Messages,
      Spoken
  <1>1. CASE UNCHANGED <<client, info, at, dtor>>
    BY <1>1
  <1>2. CASE Start
    BY <1>2 DEF Start
  <1>3. CASE EnterState("start")
    BY <1>3 DEF EnterState
  <1>4. CASE HandleInitialState("start")
    BY <1>4 DEF HandleInitialState, EnterErrorState
  <1>5. CASE StartReturns
    BY <1>5 DEF StartReturns
  <1>6. CASE OnPipeConnected
    <2>1. CASE shutting_down_
      BY <1>6, <2>1 DEF OnPipeConnected
    <2>2. CASE ~shutting_down_
      BY <1>6, <2>2 DEF OnPipeConnected
    <2> QED
      BY <2>1, <2>2
  <1>7. CASE EnterState("wait")
    BY <1>7 DEF EnterState
  <1>8. CASE SetEventFails("start")
    BY <1>8 DEF SetEventFails
  <1>9. CASE SetEventFails("wait")
    BY <1>9 DEF SetEventFails
  <1>10. CASE HandleInitialState("wait")
    BY <1>10 DEF HandleInitialState, EnterErrorState
  <1>11. CASE HandleConnectingState
    BY <1>11 DEF HandleConnectingState
  <1>12. CASE HandleConnectedState
    BY <1>12 DEF HandleConnectedState, StartRead
  <1>13. CASE HandleReadingState
    BY <1>13 DEF HandleReadingState
  <1>14. CASE HandleReadDoneState
    BY <1>14 DEF HandleReadDoneState
  <1>15. CASE AddClient
    BY <1>15 DEF AddClient
  <1>16. CASE HandleWritingState
    BY <1>16 DEF HandleWritingState
  <1>17. CASE HandleWriteDoneState
    BY <1>17 DEF HandleWriteDoneState, StartRead
  <1>18. CASE HandleReadingAckState
    BY <1>18 DEF HandleReadingAckState
  <1>19. CASE HandleDisconnectingState
    BY <1>19 DEF HandleDisconnectingState, EnterErrorState
  <1>20. CASE DisconnectingChecks
    BY <1>20 DEF DisconnectingChecks
  <1>21. CASE HandleErrorState
    BY <1>21 DEF HandleErrorState
  <1>22. CASE ErrorClosesPipe
    BY <1>22 DEF ErrorClosesPipe
  <1>23. CASE ErrorReturns
    BY <1>23 DEF ErrorReturns
  <1>24. CASE BeginShutdown
    BY <1>24 DEF BeginShutdown
  <1>25. CASE DisconnectPipe
    BY <1>25 DEF DisconnectPipe
  <1>26. CASE AwaitError
    BY <1>26 DEF AwaitError
  <1>27. CASE UnregisterPipeWait
    BY <1>27 DEF UnregisterPipeWait
  <1>28. CASE ClosePipe
    BY <1>28 DEF ClosePipe
  <1>29. CASE DeleteClients
    BY <1>29 DEF DeleteClients
  <1>30. ASSUME NEW c \in Clients, ConnectToPipe(c) PROVE InfoInv'
    BY <1>30 DEF ConnectToPipe
  <1>31. ASSUME NEW c \in Clients, ConnectFails(c) PROVE InfoInv'
    BY <1>31 DEF ConnectFails
  <1>32. ASSUME NEW c \in Clients, WriteRequest(c) PROVE InfoInv'
    BY <1>32 DEF WriteRequest
  <1>33. ASSUME NEW c \in Clients, ReadReply(c) PROVE InfoInv'
    BY <1>33 DEF ReadReply
  <1>34. ASSUME NEW c \in Clients, WriteAck(c) PROVE InfoInv'
    BY <1>34 DEF WriteAck, HangUp
  <1>35. ASSUME NEW c \in Clients, WriteOther(c) PROVE InfoInv'
    BY <1>35 DEF WriteOther
  <1>36. ASSUME NEW c \in Clients, OtherCloses(c) PROVE InfoInv'
    BY <1>36 DEF OtherCloses, HangUp
  <1>37. ASSUME NEW c \in Clients, CallFails(c) PROVE InfoInv'
    BY <1>37 DEF CallFails
  <1>38. ASSUME NEW c \in Clients, Close(c) PROVE InfoInv'
    BY <1>38 DEF Close, HangUp
  <1>39. ASSUME NEW c \in Clients, Die(c) PROVE InfoInv'
    BY <1>39 DEF Die, HangUp
  <1>40. ASSUME NEW c \in Clients, CleanupClient(c) PROVE InfoInv'
    BY <1>40 DEF CleanupClient
  <1> QED
    BY <1>1, <1>2, <1>3, <1>4, <1>5, <1>6, <1>7, <1>8, <1>9, <1>10, <1>11,
        <1>12, <1>13, <1>14, <1>15, <1>16, <1>17, <1>18, <1>19, <1>20, <1>21,
        <1>22, <1>23, <1>24, <1>25, <1>26, <1>27, <1>28, <1>29, <1>30, <1>31,
        <1>32, <1>33, <1>34, <1>35, <1>36, <1>37, <1>38, <1>39, <1>40
    DEF Next, StartThread, WaitThread, Destructor, Registers, Finished,
        StartFails, ReadCompletes, WriteCompletes

\* The pipe listens until a client comes, and not again before it is dropped.
LEMMA StepListenInv == ~StartRaces /\ LifeInv /\ HandshakeInv /\ [Next]_vars => ListenInv'
  <1> SUFFICES ASSUME ~StartRaces, LifeInv, HandshakeInv, [Next]_vars PROVE ListenInv'
    OBVIOUS
  <1> USE DEF LifeInv, HandshakeInv, ShapeInv, MachineInv, PipeInv,
      ListenInv, Allowed, StartInv, Hold, States, Setting, Late,
      Acknowledged, HasRead, TypeOK, FlagsOK, DataOK, Registering, Messages,
      Spoken
  <1>1. CASE UNCHANGED <<pipe, peer, state, io, at>>
    BY <1>1
  <1>2. CASE Start
    BY <1>2 DEF Start
  <1>3. CASE StartFails
    BY <1>3 DEF StartFails
  <1>4. CASE EnterState("start")
    BY <1>4 DEF EnterState
  <1>5. CASE HandleInitialState("start")
    BY <1>5 DEF HandleInitialState, EnterErrorState
  <1>6. CASE StartReturns
    BY <1>6 DEF StartReturns
  <1>7. CASE OnPipeConnected
    <2>1. CASE shutting_down_
      BY <1>7, <2>1 DEF OnPipeConnected
    <2>2. CASE ~shutting_down_
      BY <1>7, <2>2 DEF OnPipeConnected
    <2> QED
      BY <2>1, <2>2
  <1>8. CASE EnterState("wait")
    BY <1>8 DEF EnterState
  <1>9. CASE SetEventFails("start")
    BY <1>9 DEF SetEventFails
  <1>10. CASE SetEventFails("wait")
    BY <1>10 DEF SetEventFails
  <1>11. CASE HandleInitialState("wait")
    BY <1>11 DEF HandleInitialState, EnterErrorState
  <1>12. CASE HandleConnectingState
    BY <1>12 DEF HandleConnectingState
  <1>13. CASE HandleConnectedState
    BY <1>13 DEF HandleConnectedState, StartRead
  <1>14. CASE HandleReadingState
    BY <1>14 DEF HandleReadingState
  <1>15. CASE HandleReadDoneState
    BY <1>15 DEF HandleReadDoneState
  <1>16. CASE AddClient
    BY <1>16 DEF AddClient
  <1>17. CASE HandleWritingState
    BY <1>17 DEF HandleWritingState
  <1>18. CASE HandleWriteDoneState
    BY <1>18 DEF HandleWriteDoneState, StartRead
  <1>19. CASE HandleReadingAckState
    BY <1>19 DEF HandleReadingAckState
  <1>20. CASE HandleDisconnectingState
    BY <1>20 DEF HandleDisconnectingState, EnterErrorState
  <1>21. CASE DisconnectingChecks
    BY <1>21 DEF DisconnectingChecks
  <1>22. CASE HandleErrorState
    BY <1>22 DEF HandleErrorState
  <1>23. CASE ErrorClosesPipe
    BY <1>23 DEF ErrorClosesPipe
  <1>24. CASE ErrorReturns
    BY <1>24 DEF ErrorReturns
  <1>25. CASE ReadCompletes
    BY <1>25 DEF ReadCompletes, Readable
  <1>26. CASE WriteCompletes
    BY <1>26 DEF WriteCompletes
  <1>27. CASE DisconnectPipe
    BY <1>27 DEF DisconnectPipe
  <1>28. CASE ClosePipe
    BY <1>28 DEF ClosePipe
  <1>29. ASSUME NEW c \in Clients, ConnectToPipe(c) PROVE ListenInv'
    BY <1>29 DEF ConnectToPipe
  <1>30. ASSUME NEW c \in Clients, WriteAck(c) PROVE ListenInv'
    BY <1>30 DEF WriteAck, HangUp
  <1>31. ASSUME NEW c \in Clients, WriteOther(c) PROVE ListenInv'
    BY <1>31 DEF WriteOther
  <1>32. ASSUME NEW c \in Clients, OtherCloses(c) PROVE ListenInv'
    BY <1>32 DEF OtherCloses, HangUp
  <1>33. ASSUME NEW c \in Clients, Close(c) PROVE ListenInv'
    BY <1>33 DEF Close, HangUp
  <1>34. ASSUME NEW c \in Clients, Die(c) PROVE ListenInv'
    BY <1>34 DEF Die, HangUp
  <1> QED
    BY <1>1, <1>2, <1>3, <1>4, <1>5, <1>6, <1>7, <1>8, <1>9, <1>10, <1>11,
        <1>12, <1>13, <1>14, <1>15, <1>16, <1>17, <1>18, <1>19, <1>20, <1>21,
        <1>22, <1>23, <1>24, <1>25, <1>26, <1>27, <1>28, <1>29, <1>30, <1>31,
        <1>32, <1>33, <1>34
    DEF Next, StartThread, WaitThread, Destructor, Registers, Finished,
        BeginShutdown, AwaitError, UnregisterPipeWait, DeleteClients,
        ConnectFails, WriteRequest, ReadReply, CallFails, CleanupClient

\* A read completes with what the client has sent.
LEMMA StepReadInv == ~StartRaces /\ LifeInv /\ HandshakeInv /\ [Next]_vars => ReadInv'
  <1> SUFFICES ASSUME ~StartRaces, LifeInv, HandshakeInv, [Next]_vars PROVE ReadInv'
    OBVIOUS
  <1> USE DEF LifeInv, HandshakeInv, ShapeInv, MachineInv, Allowed, PipeInv,
      ListenInv, ReadInv, LateInv, Hold, States, Setting, Late,
      Acknowledged, HasRead, TypeOK, FlagsOK, DataOK, Registering, Messages,
      Spoken
  <1>1. CASE UNCHANGED <<state, io, at, peer, client, toServer>>
    BY <1>1
  <1>2. CASE Start
    BY <1>2 DEF Start
  <1>3. CASE StartFails
    BY <1>3 DEF StartFails
  <1>4. CASE EnterState("start")
    BY <1>4 DEF EnterState
  <1>5. CASE HandleInitialState("start")
    BY <1>5 DEF HandleInitialState, EnterErrorState
  <1>6. CASE StartReturns
    BY <1>6 DEF StartReturns
  <1>7. CASE OnPipeConnected
    <2>1. CASE shutting_down_
      BY <1>7, <2>1 DEF OnPipeConnected
    <2>2. CASE ~shutting_down_
      BY <1>7, <2>2 DEF OnPipeConnected
    <2> QED
      BY <2>1, <2>2
  <1>8. CASE EnterState("wait")
    BY <1>8 DEF EnterState
  <1>9. CASE SetEventFails("start")
    BY <1>9 DEF SetEventFails
  <1>10. CASE SetEventFails("wait")
    BY <1>10 DEF SetEventFails
  <1>11. CASE HandleInitialState("wait")
    BY <1>11 DEF HandleInitialState, EnterErrorState
  <1>12. CASE HandleConnectingState
    BY <1>12 DEF HandleConnectingState
  <1>13. CASE HandleConnectedState
    BY <1>13 DEF HandleConnectedState, StartRead
  <1>14. CASE HandleReadingState
    BY <1>14 DEF HandleReadingState
  <1>15. CASE HandleReadDoneState
    BY <1>15 DEF HandleReadDoneState
  <1>16. CASE AddClient
    BY <1>16 DEF AddClient
  <1>17. CASE HandleWritingState
    BY <1>17 DEF HandleWritingState
  <1>18. CASE HandleWriteDoneState
    BY <1>18 DEF HandleWriteDoneState, StartRead
  <1>19. CASE HandleReadingAckState
    BY <1>19 DEF HandleReadingAckState
  <1>20. CASE HandleDisconnectingState
    BY <1>20 DEF HandleDisconnectingState, EnterErrorState
  <1>21. CASE DisconnectingChecks
    BY <1>21 DEF DisconnectingChecks
  <1>22. CASE HandleErrorState
    BY <1>22 DEF HandleErrorState
  <1>23. CASE ErrorClosesPipe
    BY <1>23 DEF ErrorClosesPipe
  <1>24. CASE ErrorReturns
    BY <1>24 DEF ErrorReturns
  <1>25. CASE ReadCompletes
    BY <1>25 DEF ReadCompletes, Readable
  <1>26. CASE WriteCompletes
    BY <1>26 DEF WriteCompletes
  <1>27. CASE DisconnectPipe
    BY <1>27 DEF DisconnectPipe
  <1>28. CASE ClosePipe
    BY <1>28 DEF ClosePipe
  <1>29. ASSUME NEW c \in Clients, ConnectToPipe(c) PROVE ReadInv'
    BY <1>29 DEF ConnectToPipe
  <1>30. ASSUME NEW c \in Clients, ConnectFails(c) PROVE ReadInv'
    BY <1>30 DEF ConnectFails
  <1>31. ASSUME NEW c \in Clients, WriteRequest(c) PROVE ReadInv'
    BY <1>31 DEF WriteRequest
  <1>32. ASSUME NEW c \in Clients, ReadReply(c) PROVE ReadInv'
    BY <1>32 DEF ReadReply
  <1>33. ASSUME NEW c \in Clients, WriteAck(c) PROVE ReadInv'
    BY <1>33 DEF WriteAck, HangUp
  <1>34. ASSUME NEW c \in Clients, WriteOther(c) PROVE ReadInv'
    BY <1>34 DEF WriteOther
  <1>35. ASSUME NEW c \in Clients, OtherCloses(c) PROVE ReadInv'
    BY <1>35 DEF OtherCloses, HangUp
  <1>36. ASSUME NEW c \in Clients, CallFails(c) PROVE ReadInv'
    BY <1>36 DEF CallFails
  <1>37. ASSUME NEW c \in Clients, Close(c) PROVE ReadInv'
    BY <1>37 DEF Close, HangUp
  <1>38. ASSUME NEW c \in Clients, Die(c) PROVE ReadInv'
    BY <1>38 DEF Die, HangUp
  <1> QED
    BY <1>1, <1>2, <1>3, <1>4, <1>5, <1>6, <1>7, <1>8, <1>9, <1>10, <1>11,
        <1>12, <1>13, <1>14, <1>15, <1>16, <1>17, <1>18, <1>19, <1>20, <1>21,
        <1>22, <1>23, <1>24, <1>25, <1>26, <1>27, <1>28, <1>29, <1>30, <1>31,
        <1>32, <1>33, <1>34, <1>35, <1>36, <1>37, <1>38
    DEF Next, StartThread, WaitThread, Destructor, Registers, Finished,
        BeginShutdown, AwaitError, UnregisterPipeWait, DeleteClients,
        CleanupClient

\* From AddClient to the acknowledgement the server is with one client.
LEMMA StepLateInv == ~StartRaces /\ LifeInv /\ HandshakeInv /\ [Next]_vars => LateInv'
  <1> SUFFICES ASSUME ~StartRaces, LifeInv, HandshakeInv, [Next]_vars PROVE LateInv'
    OBVIOUS
  <1> USE DEF LifeInv, HandshakeInv, ShapeInv, MachineInv, Allowed, PipeInv,
      ListenInv, ReadInv, LateInv, Hold, States, Setting, Late,
      Acknowledged, HasRead, TypeOK, FlagsOK, DataOK, Registering, Messages,
      Spoken
  <1>1. CASE UNCHANGED <<state, io, at, peer, client, client_info_>>
    BY <1>1
  <1>2. CASE Start
    BY <1>2 DEF Start
  <1>3. CASE StartFails
    BY <1>3 DEF StartFails
  <1>4. CASE EnterState("start")
    BY <1>4 DEF EnterState
  <1>5. CASE HandleInitialState("start")
    BY <1>5 DEF HandleInitialState, EnterErrorState
  <1>6. CASE StartReturns
    BY <1>6 DEF StartReturns
  <1>7. CASE OnPipeConnected
    <2>1. CASE shutting_down_
      BY <1>7, <2>1 DEF OnPipeConnected
    <2>2. CASE ~shutting_down_
      BY <1>7, <2>2 DEF OnPipeConnected
    <2> QED
      BY <2>1, <2>2
  <1>8. CASE EnterState("wait")
    BY <1>8 DEF EnterState
  <1>9. CASE SetEventFails("start")
    BY <1>9 DEF SetEventFails
  <1>10. CASE SetEventFails("wait")
    BY <1>10 DEF SetEventFails
  <1>11. CASE HandleInitialState("wait")
    BY <1>11 DEF HandleInitialState, EnterErrorState
  <1>12. CASE HandleConnectingState
    BY <1>12 DEF HandleConnectingState
  <1>13. CASE HandleConnectedState
    BY <1>13 DEF HandleConnectedState, StartRead
  <1>14. CASE HandleReadingState
    BY <1>14 DEF HandleReadingState
  <1>15. CASE HandleReadDoneState
    BY <1>15 DEF HandleReadDoneState
  <1>16. CASE AddClient
    BY <1>16 DEF AddClient
  <1>17. CASE HandleWritingState
    BY <1>17 DEF HandleWritingState
  <1>18. CASE HandleWriteDoneState
    BY <1>18 DEF HandleWriteDoneState, StartRead
  <1>19. CASE HandleReadingAckState
    BY <1>19 DEF HandleReadingAckState
  <1>20. CASE HandleDisconnectingState
    BY <1>20 DEF HandleDisconnectingState, EnterErrorState
  <1>21. CASE DisconnectingChecks
    BY <1>21 DEF DisconnectingChecks
  <1>22. CASE HandleErrorState
    BY <1>22 DEF HandleErrorState
  <1>23. CASE ErrorClosesPipe
    BY <1>23 DEF ErrorClosesPipe
  <1>24. CASE ErrorReturns
    BY <1>24 DEF ErrorReturns
  <1>25. CASE ReadCompletes
    BY WindowsPipeServerAssumption, <1>25 DEF ReadCompletes, Readable
  <1>26. CASE WriteCompletes
    BY <1>26 DEF WriteCompletes
  <1>27. CASE DisconnectPipe
    BY <1>27 DEF DisconnectPipe
  <1>28. CASE ClosePipe
    BY <1>28 DEF ClosePipe
  <1>29. ASSUME NEW c \in Clients, ConnectToPipe(c) PROVE LateInv'
    BY <1>29 DEF ConnectToPipe
  <1>30. ASSUME NEW c \in Clients, ConnectFails(c) PROVE LateInv'
    BY <1>30 DEF ConnectFails
  <1>31. ASSUME NEW c \in Clients, WriteRequest(c) PROVE LateInv'
    BY <1>31 DEF WriteRequest
  <1>32. ASSUME NEW c \in Clients, ReadReply(c) PROVE LateInv'
    BY <1>32 DEF ReadReply
  <1>33. ASSUME NEW c \in Clients, WriteAck(c) PROVE LateInv'
    BY <1>33 DEF WriteAck, HangUp
  <1>34. ASSUME NEW c \in Clients, WriteOther(c) PROVE LateInv'
    BY <1>34 DEF WriteOther
  <1>35. ASSUME NEW c \in Clients, OtherCloses(c) PROVE LateInv'
    BY <1>35 DEF OtherCloses, HangUp
  <1>36. ASSUME NEW c \in Clients, CallFails(c) PROVE LateInv'
    BY <1>36 DEF CallFails
  <1>37. ASSUME NEW c \in Clients, Close(c) PROVE LateInv'
    BY <1>37 DEF Close, HangUp
  <1>38. ASSUME NEW c \in Clients, Die(c) PROVE LateInv'
    BY <1>38 DEF Die, HangUp
  <1> QED
    BY <1>1, <1>2, <1>3, <1>4, <1>5, <1>6, <1>7, <1>8, <1>9, <1>10, <1>11,
        <1>12, <1>13, <1>14, <1>15, <1>16, <1>17, <1>18, <1>19, <1>20, <1>21,
        <1>22, <1>23, <1>24, <1>25, <1>26, <1>27, <1>28, <1>29, <1>30, <1>31,
        <1>32, <1>33, <1>34, <1>35, <1>36, <1>37, <1>38
    DEF Next, StartThread, WaitThread, Destructor, Registers, Finished,
        BeginShutdown, AwaitError, UnregisterPipeWait, DeleteClients,
        CleanupClient

\* connect_callback_ hears of a client when its second message was read.
LEMMA StepCalledInv == ~StartRaces /\ LifeInv /\ HandshakeInv /\ [Next]_vars => CalledInv'
  <1> SUFFICES ASSUME ~StartRaces, LifeInv, HandshakeInv, [Next]_vars PROVE CalledInv'
    OBVIOUS
  <1> USE DEF LifeInv, HandshakeInv, ShapeInv, MachineInv, Allowed, PipeInv,
      ListenInv, LateInv, CalledInv, Hold, States, Setting, Late,
      Acknowledged, HasRead, TypeOK, FlagsOK, DataOK, Registering, Messages,
      Spoken
  <1>1. CASE UNCHANGED <<state, at, peer, client, client_info_, called>>
    BY <1>1
  <1>2. CASE Start
    BY <1>2 DEF Start
  <1>3. CASE StartFails
    BY <1>3 DEF StartFails
  <1>4. CASE EnterState("start")
    BY <1>4 DEF EnterState
  <1>5. CASE HandleInitialState("start")
    BY <1>5 DEF HandleInitialState, EnterErrorState
  <1>6. CASE StartReturns
    BY <1>6 DEF StartReturns
  <1>7. CASE OnPipeConnected
    <2>1. CASE shutting_down_
      BY <1>7, <2>1 DEF OnPipeConnected
    <2>2. CASE ~shutting_down_
      BY <1>7, <2>2 DEF OnPipeConnected
    <2> QED
      BY <2>1, <2>2
  <1>8. CASE EnterState("wait")
    BY <1>8 DEF EnterState
  <1>9. CASE SetEventFails("start")
    BY <1>9 DEF SetEventFails
  <1>10. CASE SetEventFails("wait")
    BY <1>10 DEF SetEventFails
  <1>11. CASE HandleInitialState("wait")
    BY <1>11 DEF HandleInitialState, EnterErrorState
  <1>12. CASE HandleConnectingState
    BY <1>12 DEF HandleConnectingState
  <1>13. CASE HandleConnectedState
    BY <1>13 DEF HandleConnectedState, StartRead
  <1>14. CASE HandleReadingState
    BY <1>14 DEF HandleReadingState
  <1>15. CASE HandleReadDoneState
    BY WindowsPipeServerAssumption, <1>15 DEF HandleReadDoneState
  <1>16. CASE AddClient
    BY <1>16 DEF AddClient
  <1>17. CASE HandleWritingState
    BY <1>17 DEF HandleWritingState
  <1>18. CASE HandleWriteDoneState
    BY <1>18 DEF HandleWriteDoneState, StartRead
  <1>19. CASE HandleReadingAckState
    BY <1>19 DEF HandleReadingAckState
  <1>20. CASE HandleDisconnectingState
    BY <1>20 DEF HandleDisconnectingState, EnterErrorState
  <1>21. CASE DisconnectingChecks
    BY <1>21 DEF DisconnectingChecks
  <1>22. CASE HandleErrorState
    BY <1>22 DEF HandleErrorState
  <1>23. CASE ErrorClosesPipe
    BY <1>23 DEF ErrorClosesPipe
  <1>24. CASE ErrorReturns
    BY <1>24 DEF ErrorReturns
  <1>25. CASE DisconnectPipe
    BY <1>25 DEF DisconnectPipe
  <1>26. CASE ClosePipe
    BY <1>26 DEF ClosePipe
  <1>27. ASSUME NEW c \in Clients, ConnectToPipe(c) PROVE CalledInv'
    BY <1>27 DEF ConnectToPipe
  <1>28. ASSUME NEW c \in Clients, ConnectFails(c) PROVE CalledInv'
    BY <1>28 DEF ConnectFails
  <1>29. ASSUME NEW c \in Clients, WriteRequest(c) PROVE CalledInv'
    BY <1>29 DEF WriteRequest
  <1>30. ASSUME NEW c \in Clients, ReadReply(c) PROVE CalledInv'
    BY <1>30 DEF ReadReply
  <1>31. ASSUME NEW c \in Clients, WriteAck(c) PROVE CalledInv'
    BY <1>31 DEF WriteAck, HangUp
  <1>32. ASSUME NEW c \in Clients, WriteOther(c) PROVE CalledInv'
    BY <1>32 DEF WriteOther
  <1>33. ASSUME NEW c \in Clients, OtherCloses(c) PROVE CalledInv'
    BY <1>33 DEF OtherCloses, HangUp
  <1>34. ASSUME NEW c \in Clients, CallFails(c) PROVE CalledInv'
    BY <1>34 DEF CallFails
  <1>35. ASSUME NEW c \in Clients, Close(c) PROVE CalledInv'
    BY <1>35 DEF Close, HangUp
  <1>36. ASSUME NEW c \in Clients, Die(c) PROVE CalledInv'
    BY <1>36 DEF Die, HangUp
  <1> QED
    BY <1>1, <1>2, <1>3, <1>4, <1>5, <1>6, <1>7, <1>8, <1>9, <1>10, <1>11,
        <1>12, <1>13, <1>14, <1>15, <1>16, <1>17, <1>18, <1>19, <1>20, <1>21,
        <1>22, <1>23, <1>24, <1>25, <1>26, <1>27, <1>28, <1>29, <1>30, <1>31,
        <1>32, <1>33, <1>34, <1>35, <1>36
    DEF Next, StartThread, WaitThread, Destructor, Registers, Finished,
        ReadCompletes, WriteCompletes, BeginShutdown, AwaitError,
        UnregisterPipeWait, DeleteClients, CleanupClient


-----------------------------------------------------------------------------
\* Nobody has connected.
LEMMA InitHandshakeInv == Init => HandshakeInv
  <1> SUFFICES ASSUME Init PROVE HandshakeInv
    OBVIOUS
  <1> USE WindowsPipeServerAssumption
      DEF WindowsPipeServerAssumption, Init, States, Adding, Setting
  <1>0. FlagsOK
    BY DEF FlagsOK
  <1>1. DataOK
    BY DEF DataOK, Registering, Messages,
      Spoken
  <1>2. MachineInv /\ PipeInv /\ InfoInv
    BY DEF MachineInv, PipeInv, InfoInv
  <1>3. ListenInv /\ ReadInv /\ LateInv /\ CalledInv
    BY DEF ListenInv, ReadInv, HasRead, LateInv, Late, CalledInv
  <1> QED
    BY <1>0, <1>1, <1>2, <1>3 DEF HandshakeInv, TypeOK

\* If no callback runs before Start returns, both sides are at the same point of the handshake.
LEMMA HandshakeIsInvariant == ASSUME ~StartRaces PROVE Spec => []HandshakeInv
  <1>1. LifeInv /\ HandshakeInv /\ [Next]_vars => HandshakeInv'
    BY StepFlagsOK, StepDataOK, StepMachineInv, StepPipeInv, StepInfoInv, StepListenInv,
       StepReadInv, StepLateInv, StepCalledInv
    DEF HandshakeInv, TypeOK
  <1> QED
    BY InitLifeInv, StepLifeInv, InitHandshakeInv, <1>1, PTL DEF Spec

\* Types; connect_callback_ is called at most once for a client because the
\* client is at the other end of the pipe during one handshake only.
THEOREM TypeCorrect == ASSUME ~StartRaces PROVE Spec => []TypeOK
  <1>1. HandshakeInv => TypeOK
    BY DEF HandshakeInv
  <1> QED
    BY <1>1, HandshakeIsInvariant, PTL

\* Server and client agree on the registration: the callback hears of a client
\* once, after a second message of it, whatever programs open the pipe, and a
\* client that registered has a ClientInfo.
THEOREM ServerAndClientAgree == ASSUME ~StartRaces PROVE Spec => []HandshakeAgrees
  <1> USE DEF Spoken
  <1>1. HandshakeInv => HandshakeAgrees
    <2> SUFFICES ASSUME HandshakeInv, NEW c \in Clients
                 PROVE  /\ called[c] <= 1
                        /\ called[c] = 1 => client[c] \in Spoken
                        /\ client[c] = "true" => \/ info[c] \in {"listed", "refused"}
                                                 \/ info[c] = "new" /\ Adding(c)
                                                 \/ info[c] = "deleted" /\ dtor = "gone"
      BY DEF HandshakeAgrees
    <2>1. called[c] \in 0..1 /\ info[c] \in {None, "new", "listed", "refused", "deleted"}
      BY DEF HandshakeInv, TypeOK, DataOK
    <2> QED
      BY <2>1 DEF HandshakeInv, InfoInv, CalledInv
  <1> QED
    BY <1>1, HandshakeIsInvariant, PTL
=============================================================================
