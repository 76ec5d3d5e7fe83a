---------------------- MODULE MacOutOfProcess_proofs ----------------------
(***************************************************************************)
(* What holds of the Mac exception handlers for any program, any handlers    *)
(* and any server: the task's exception port is that of the newest handler   *)
(* installed.  A handler that does not handle an exception gives its port    *)
(* back although it may not be the newest; but then it has suspended all the *)
(* other threads, and nobody resumes them.  And a dump that WriteMinidump    *)
(* says was written was written.                                             *)
(***************************************************************************)
EXTENDS MacOutOfProcess, SequenceTheorems, TLAPS

ThreadPlaces == {"run", "begin", "lock1", "lock2", "faulted"}
HandlerPlaces == {"none", "loop", "receive", "suspend", "write", "asking", "callback",
                  "written", "unlock", "await", "faulted", "run"}
Messages == {<<kind, a>> : kind \in {"exception", "dump", "dumpx"}, a \in Actors}
               \cup {<<"shutdown">>, <<"child">>}

\* Where everybody is, what they are sent, and a handler that was not constructed has no
\* thread.
PlacesInv ==
    /\ pc \in [Actors -> ThreadPlaces \cup HandlerPlaces]
    /\ \A t \in Threads : pc[t] \in ThreadPlaces
    /\ \A h \in Handlers : pc[h] \in HandlerPlaces
    /\ suspended \in [Actors -> Nat]
    /\ order \in Seq(Handlers) /\ installed \subseteq Handlers
    /\ previous \in [Handlers -> SUBSET (Handlers \cup {"outer"})]
    /\ port \subseteq Handlers \cup {"outer"}
    /\ life \in [Handlers -> {"none", "alive", "torn", "deleted"}]
    /\ queue \in [Handlers -> Seq(Messages)] /\ cur \in [Handlers -> Messages \cup {<<>>}]
    /\ \A h \in Handlers : life[h] = "none" => pc[h] = "none"

\* Who raised an exception that is on its way stands still, or goes on when another
\* process has handled it; a handler's thread never gets back into its loop.
FromFaulted(m) ==
    m[1] = "exception" /\ m[2] \in Handlers => pc[m[2]] \in {"faulted", "run"}

\* The handlers' threads that are at work have suspended everybody else.
Stopping == {"write", "asking", "callback", "written"}
AtWork == Stopping \cup {"suspend", "await"}

MessageInv ==
    /\ \A h \in Handlers : \A i \in 1..Len(queue[h]) : FromFaulted(queue[h][i])
    /\ \A h \in Handlers : pc[h] \in AtWork =>
          /\ cur[h] \in Messages /\ FromFaulted(cur[h])
          /\ pc[h] = "await" => cur[h][1] = "exception"

\* p is the port of the newest of those in s among the first n of the handlers in q.
TopIs(p, q, s, n) ==
    \/ \E j \in 1..n : q[j] \in s /\ p = {q[j]} /\ \A l \in (j + 1)..n : q[l] \notin s
    \/ (\A j \in 1..n : q[j] \notin s) /\ p = Original

\* The live handlers are in the order of their construction, and each that is installed
\* has saved the port of the newest installed before it.
ChainInv ==
    /\ \A i, j \in 1..Len(order) : order[i] = order[j] => i = j
    /\ \A h \in Handlers : life[h] = "alive" <=> \E i \in 1..Len(order) : order[i] = h
    /\ \A h \in installed : life[h] = "alive"
    /\ \A i \in 1..Len(order) :
          order[i] \in installed => TopIs(previous[order[i]], order, installed, i - 1)
    /\ TopIs(port, order, installed, Len(order))

\* Everybody but this handler's thread is suspended k times.
Alone(h, k) == \A a \in Actors \ {h} : pc[a] = "none" \/ suspended[a] >= k

\* One handler's thread works at a time, and an exception that a handler does not handle
\* is the end of this.
OneAtWork ==
    \A h \in Handlers : /\ pc[h] \notin {"run", "await"}
                        /\ pc[h] \in Stopping \cup {"faulted"} => Alone(h, 1)

\* A handler that is alive is among the live ones.
LiveInv == \A h \in Handlers : life[h] = "alive" => \E i \in 1..Len(order) : order[i] = h

Orderly == LiveInv /\ (Lifo => ChainInv) /\ OneAtWork

\* After that only the handler's thread may run, and what it suspends and resumes again is
\* suspended already.
Frozen ==
    \E h \in Handlers : Alone(h, IF proc = "alive" /\ pc[h] \in Stopping THEN 2 ELSE 1)

PortsInv == PlacesInv /\ MessageInv /\ (Orderly \/ Frozen)

-----------------------------------------------------------------------------
(* Places and messages. *)

\* What is known of the constants.
LEMMA Constants ==
    /\ Owner \in Threads /\ \A x \in Threads : x \notin Handlers
    /\ Actors = Threads \cup Handlers /\ Original \subseteq {"outer"}
    /\ Remote \subseteq Handlers /\ Installing \subseteq Handlers
  BY MacExceptionHandlerAssumption DEF MacExceptionHandlerAssumption, Actors

\* A message at the end of a queue.
LEMMA SendFacts ==
    ASSUME PlacesInv, NEW h \in Handlers, NEW m \in Messages, Send(h, m)
    PROVE  /\ queue' \in [Handlers -> Seq(Messages)]
           /\ \A g \in Handlers : \A i \in 1..Len(queue'[g]) :
                 \/ queue'[g][i] = m
                 \/ i \in 1..Len(queue[g]) /\ queue'[g][i] = queue[g][i]
  <1>1. /\ queue' = [queue EXCEPT ![h] = Append(queue[h], m)]
        /\ queue \in [Handlers -> Seq(Messages)]
    BY DEF Send, PlacesInv
  <1>2. /\ Append(queue[h], m) \in Seq(Messages) /\ Len(queue[h]) \in Nat
        /\ Len(Append(queue[h], m)) = Len(queue[h]) + 1
        /\ \A i \in 1..Len(queue[h]) : Append(queue[h], m)[i] = queue[h][i]
        /\ Append(queue[h], m)[Len(queue[h]) + 1] = m
    BY <1>1, AppendProperties, LenProperties
  <1>3. \A g \in Handlers : queue'[g] = IF g = h THEN Append(queue[h], m) ELSE queue[g]
    BY <1>1
  <1>4. queue' \in [Handlers -> Seq(Messages)]
    BY <1>1, <1>2
  <1>5. ASSUME NEW i \in 1..Len(Append(queue[h], m))
        PROVE  \/ Append(queue[h], m)[i] = m
               \/ i \in 1..Len(queue[h]) /\ Append(queue[h], m)[i] = queue[h][i]
    <2>1. i \in 1..Len(queue[h]) \/ i = Len(queue[h]) + 1
      BY <1>2
    <2> QED
      BY <1>2, <2>1
  <1> QED
    BY <1>3, <1>4, <1>5

\* What keeps the messages right: whoever faulted stays so, and what is new in a queue or
\* received comes from somebody who did.
LEMMA MessagesKeep ==
    ASSUME MessageInv,
           \A a \in Handlers : pc[a] \in {"faulted", "run"} => pc'[a] \in {"faulted", "run"},
           \A g \in Handlers : \A i \in 1..Len(queue'[g]) :
              \/ \E m \in Messages : queue'[g][i] = m /\ FromFaulted(m)'
              \/ \E j \in 1..Len(queue[g]) : queue'[g][i] = queue[g][j],
           \A g \in Handlers : pc'[g] \in AtWork =>
              \/ /\ pc[g] \in AtWork /\ cur'[g] = cur[g]
                 /\ pc'[g] = "await" => pc[g] = "await" \/ cur[g][1] = "exception"
              \/ /\ pc'[g] = "suspend"
                 /\ \E m \in Messages : cur'[g] = m /\ FromFaulted(m)'
    PROVE  MessageInv'
  <1>1. \A m : FromFaulted(m) => FromFaulted(m)'
    BY DEF FromFaulted
  <1>2. ASSUME NEW g \in Handlers, NEW i \in 1..Len(queue'[g])
        PROVE  \E m : queue'[g][i] = m /\ FromFaulted(m)'
    BY <1>1, <1>2 DEF MessageInv
  <1>3. ASSUME NEW g \in Handlers, pc'[g] \in AtWork
        PROVE  \E m : /\ cur'[g] = m /\ m \in Messages /\ FromFaulted(m)'
                      /\ pc'[g] = "await" => m[1] = "exception"
    <2>1. CASE pc[g] \in AtWork /\ cur'[g] = cur[g]
      <3>1. cur[g] \in Messages /\ FromFaulted(cur[g])
        BY <2>1 DEF MessageInv
      <3>2. pc'[g] = "await" => cur[g][1] = "exception"
        BY <1>3, <2>1 DEF MessageInv, AtWork, Stopping
      <3>3. PICK m : m = cur[g]
        OBVIOUS
      <3> QED
        BY <1>1, <2>1, <3>1, <3>2, <3>3
    <2>2. CASE pc'[g] = "suspend" /\ \E m \in Messages : cur'[g] = m /\ FromFaulted(m)'
      BY <2>2
    <2> QED
      BY <1>3, <2>1, <2>2
  <1>4. \A g \in Handlers : \A i \in 1..Len(queue'[g]) : FromFaulted(queue[g][i])'
    BY <1>2 DEF FromFaulted
  <1>5. \A g \in Handlers : pc'[g] \in AtWork =>
           /\ cur'[g] \in Messages /\ FromFaulted(cur[g])'
           /\ pc'[g] = "await" => cur'[g][1] = "exception"
    BY <1>3 DEF FromFaulted
  <1> QED
    BY <1>4, <1>5 DEF MessageInv

\* What a step of the whole does to the program's side.
HandlerStep(h) ==
    \/ ChildFaults(h) \/ Lifecycle(h) \/ WaitForMessage(h) \/ AskServer(h)
    \/ \E ok \in BOOLEAN : ServerAnswers(h, ok)
ThreadStep(t) ==
    \/ Begin(t) \/ LockAndSend(t) \/ Finish(t)
    \/ \E h \in Handlers : WriteMinidump(t, h)

\* A step is one of these, while the program lives, or only the server's.
LEMMA StepsAre ==
    ASSUME [Next]_allVars
    PROVE  \/ UNCHANGED vars
           \/ /\ proc = "alive"
              /\ \/ \E t \in Threads : ThreadStep(t)
                 \/ \E a \in Actors : Fault(a)
                 \/ \E h \in Handlers : HandlerStep(h)
  <1>1. CASE UNCHANGED allVars
    BY <1>1 DEF allVars
  <1>2. CASE Client
    BY <1>2 DEF Client, Step, Program, ThreadStep, HandlerStep
  <1>3. CASE Server \/ ServerOwner \/ ServerDies
    BY <1>3 DEF Server, ServerOwner, ServerDies
  <1>4. ASSUME NEW h \in Remote, Ask(h) \/ Wait(h) \/ Answered(h)
        PROVE  UNCHANGED vars \/ (proc = "alive" /\ \E g \in Handlers : HandlerStep(g))
    BY <1>4, Constants DEF Ask, Wait, Answered, HandlerStep
  <1> QED
    BY <1>1, <1>2, <1>3, <1>4 DEF Next

\* Threads keep to their places, and so do messages.
LEMMA ThreadKeepsPlaces ==
    ASSUME PlacesInv, MessageInv, NEW t \in Threads, ThreadStep(t)
    PROVE  PlacesInv' /\ MessageInv'
  <1>c. /\ t \in Actors /\ t \notin Handlers /\ Actors = Threads \cup Handlers
        /\ \A x \in Handlers : x \in Actors /\ x # t
        /\ Actors' = Actors /\ Messages' = Messages
    BY Constants DEF Actors, Messages
  <1>1. /\ UNCHANGED <<ports, suspended, cur>>
        /\ \E l \in ThreadPlaces : pc' = [pc EXCEPT ![t] = l]
    BY DEF ThreadStep, Begin, LockAndSend, Finish, WriteMinidump, Goto, ThreadPlaces
  <1>2. /\ pc' \in [Actors -> ThreadPlaces \cup HandlerPlaces]
        /\ \A x \in Threads : pc'[x] \in ThreadPlaces
        /\ \A h \in Handlers : pc'[h] = pc[h]
    BY <1>c, <1>1 DEF PlacesInv
  <1>3. /\ queue' \in [Handlers -> Seq(Messages)]
        /\ \A g \in Handlers : \A i \in 1..Len(queue'[g]) :
              \/ \E m \in Messages : queue'[g][i] = m /\ FromFaulted(m)'
              \/ \E j \in 1..Len(queue[g]) : queue'[g][i] = queue[g][j]
    <2>1. CASE queue' = queue
      BY <2>1 DEF PlacesInv
    <2>2. CASE LockAndSend(t)
      <3>0. pc[t] = "lock1"
        BY <2>2 DEF LockAndSend, At
      <3>1. PICK kind \in {"dump", "dumpx"} : Send(doing[t], <<kind, t>>)
        BY <2>2 DEF LockAndSend
      <3>2. PICK m : m = <<kind, t>>
        OBVIOUS
      <3>3. m \in Messages /\ m[1] # "exception"
        BY <1>c, <3>2 DEF Messages
      <3>4. CASE doing[t] \in Handlers
        BY <3>1, <3>2, <3>3, <3>4, SendFacts DEF FromFaulted
      <3>5. CASE doing[t] \notin Handlers
        <4>1. queue' = queue
          BY <3>1, <3>5 DEF Send, PlacesInv
        <4> QED
          BY <2>1, <4>1
      <3> QED
        BY <3>4, <3>5
    <2> QED
      BY <2>1, <2>2 DEF ThreadStep, Begin, Finish, WriteMinidump
  <1>4. PlacesInv'
    BY <1>c, <1>1, <1>2, <1>3 DEF PlacesInv, ports
  <1>5. MessageInv'
    <2>1. \A g \in Handlers : pc'[g] \in AtWork =>
             /\ pc[g] \in AtWork /\ cur'[g] = cur[g]
             /\ pc'[g] = "await" => pc[g] = "await"
      BY <1>1, <1>2
    <2> QED
      BY <1>2, <1>3, <2>1, MessagesKeep
  <1> QED
    BY <1>4, <1>5

\* An exception is that of an actor who then stands still.
LEMMA FaultKeepsPlaces ==
    ASSUME PlacesInv, MessageInv, NEW a \in Actors, Fault(a)
    PROVE  PlacesInv' /\ MessageInv'
  <1>c. /\ Actors = Threads \cup Handlers /\ \A x \in Threads : x \notin Handlers
        /\ Actors' = Actors /\ Messages' = Messages
    BY Constants DEF Actors, Messages
  <1>1. UNCHANGED <<ports, suspended, cur>> /\ pc[a] \in {"run", "write", "callback"}
    BY DEF Fault, At
  <1>2. CASE UNCHANGED <<queue, pc>>
    <2>1. PlacesInv'
      BY <1>c, <1>1, <1>2 DEF PlacesInv, ports
    <2>2. MessageInv'
      BY <1>1, <1>2 DEF MessageInv, FromFaulted
    <2> QED
      BY <2>1, <2>2
  <1>3. ASSUME NEW h \in Handlers, Send(h, <<"exception", a>>), Goto(a, "faulted")
        PROVE  PlacesInv' /\ MessageInv'
    <2>1. /\ pc' \in [Actors -> ThreadPlaces \cup HandlerPlaces] /\ pc'[a] = "faulted"
          /\ \A x \in Threads : pc'[x] \in ThreadPlaces
          /\ \A x \in Handlers : pc'[x] \in HandlerPlaces
          /\ \A x \in Actors \ {a} : pc'[x] = pc[x]
      BY <1>c, <1>3 DEF PlacesInv, Goto, ThreadPlaces, HandlerPlaces
    <2>2. PICK m : m = <<"exception", a>>
      OBVIOUS
    <2>3. m \in Messages /\ FromFaulted(m)'
      BY <2>1, <2>2 DEF Messages, FromFaulted
    <2>4. /\ queue' \in [Handlers -> Seq(Messages)]
          /\ \A g \in Handlers : \A i \in 1..Len(queue'[g]) :
                \/ queue'[g][i] = m
                \/ i \in 1..Len(queue[g]) /\ queue'[g][i] = queue[g][i]
      <3>1. Send(h, m)
        BY <1>3, <2>2
      <3> QED
        BY <2>3, <3>1, SendFacts
    <2>5. PlacesInv'
      <3>1. \A g \in Handlers : life[g] = "none" => pc'[g] = "none"
        BY <1>1, <1>c, <2>1 DEF PlacesInv
      <3> QED
        BY <1>c, <1>1, <2>1, <2>4, <3>1 DEF PlacesInv, ports
    <2>6. MessageInv'
      <3>1. \A g \in Handlers : pc'[g] \in AtWork =>
               /\ pc[g] \in AtWork /\ cur'[g] = cur[g]
               /\ pc'[g] = "await" => pc[g] = "await"
        BY <1>1, <1>c, <2>1 DEF AtWork, Stopping
      <3>2. \A g \in Handlers : pc[g] \in {"faulted", "run"} => pc'[g] \in {"faulted", "run"}
        BY <1>c, <2>1
      <3> QED
        BY <2>3, <2>4, <3>1, <3>2, MessagesKeep
    <2> QED
      BY <2>5, <2>6
  <1> QED
    BY <1>2, <1>3 DEF Fault

\* What is new in a queue comes from somebody who stands still.
QueuesKeep ==
    /\ queue' \in [Handlers -> Seq(Messages)]
    /\ \A g \in Handlers : \A i \in 1..Len(queue'[g]) :
          \/ \E m \in Messages : queue'[g][i] = m /\ FromFaulted(m)'
          \/ \E j \in 1..Len(queue[g]) : queue'[g][i] = queue[g][j]

\* The message that was received stays or is done with.
CurKeeps(h) == cur' = cur \/ cur' = [cur EXCEPT ![h] = <<>>]

\* A handler's thread goes from one place to another.
LEMMA HandlerMoves ==
    ASSUME PlacesInv, MessageInv, NEW h \in Handlers,
           NEW l \in {"none", "loop", "receive", "write", "asking", "callback", "written",
                      "unlock", "await"},
           pc[h] \notin {"faulted", "run"}, Goto(h, l),
           l \in AtWork => /\ pc[h] \in AtWork /\ cur'[h] = cur[h]
                           /\ l = "await" => cur[h][1] = "exception",
           CurKeeps(h),
           QueuesKeep,
           suspended' \in [Actors -> Nat],
           order' \in Seq(Handlers), installed' \subseteq Handlers,
           previous' \in [Handlers -> SUBSET (Handlers \cup {"outer"})],
           port' \subseteq Handlers \cup {"outer"},
           life' \in [Handlers -> {"none", "alive", "torn", "deleted"}],
           \A g \in Handlers : life'[g] = "none" => life[g] = "none" /\ (g = h => l = "none")
    PROVE  PlacesInv' /\ MessageInv'
  <1>c. /\ h \in Actors /\ h \notin Threads /\ Actors = Threads \cup Handlers
        /\ Actors' = Actors /\ Messages' = Messages
    BY Constants DEF Actors, Messages
  <1>1. /\ pc' \in [Actors -> ThreadPlaces \cup HandlerPlaces] /\ pc'[h] = l
        /\ \A x \in Threads : pc'[x] \in ThreadPlaces
        /\ \A x \in Handlers : pc'[x] \in HandlerPlaces
        /\ \A x \in Actors \ {h} : pc'[x] = pc[x]
    BY <1>c DEF PlacesInv, HandlerPlaces, Goto
  <1>2. cur' \in [Handlers -> Messages \cup {<<>>}] /\ \A g \in Handlers \ {h} : cur'[g] = cur[g]
    <2>1. cur \in [Handlers -> Messages \cup {<<>>}]
      BY DEF PlacesInv
    <2>2. CASE cur' = cur
      BY <2>1, <2>2
    <2>3. CASE cur' = [cur EXCEPT ![h] = <<>>]
      BY <2>1, <2>3
    <2> QED
      BY <2>2, <2>3 DEF CurKeeps
  <1>3. PlacesInv'
    <2>1. \A g \in Handlers : life'[g] = "none" => pc'[g] = "none"
      BY <1>c, <1>1 DEF PlacesInv
    <2> QED
      BY <1>c, <1>1, <1>2, <2>1 DEF PlacesInv, QueuesKeep
  <1>4. MessageInv'
    <2>1. \A g \in Handlers : pc[g] \in {"faulted", "run"} => pc'[g] \in {"faulted", "run"}
      BY <1>c, <1>1
    <2>2. ASSUME NEW g \in Handlers, pc'[g] \in AtWork
          PROVE  /\ pc[g] \in AtWork /\ cur'[g] = cur[g]
                 /\ pc'[g] = "await" => pc[g] = "await" \/ cur[g][1] = "exception"
      BY <1>c, <1>1, <1>2, <2>2
    <2> QED
      BY <2>1, <2>2, MessagesKeep DEF QueuesKeep
  <1> QED
    BY <1>3, <1>4

\* Removing one element of a sequence.
LEMMA RemoveFacts ==
    ASSUME NEW S, NEW s \in Seq(S), NEW i \in 1..Len(s)
    PROVE  /\ RemoveAt(s, i) \in Seq(S)
           /\ i = Len(s) => /\ Len(RemoveAt(s, i)) = Len(s) - 1
                            /\ \A j \in 1..(Len(s) - 1) : RemoveAt(s, i)[j] = s[j]
           /\ \A j \in 1..Len(s) : j # i =>
                 \E k \in 1..Len(RemoveAt(s, i)) : RemoveAt(s, i)[k] = s[j]
  <1> DEFINE front == SubSeq(s, 1, i - 1)
             back == SubSeq(s, i + 1, Len(s))
  <1>1. Len(s) \in Nat /\ i \in Nat /\ 1 <= i /\ i <= Len(s)
    BY LenProperties
  <1>2. front \in Seq(S) /\ Len(front) = i - 1 /\ \A j \in 1..(i - 1) : front[j] = s[j]
    BY <1>1
  <1>3. back \in Seq(S) /\ Len(back) = Len(s) - i
    BY <1>1
  <1> HIDE DEF front, back
  <1>4. /\ front \o back \in Seq(S) /\ Len(front \o back) = Len(front) + Len(back)
        /\ \A j \in 1..(Len(front) + Len(back)) :
              (front \o back)[j] = IF j <= Len(front) THEN front[j] ELSE back[j - Len(front)]
    <2>1. front \in Seq(S) /\ back \in Seq(S)
      BY <1>2, <1>3
    <2> QED
      BY <2>1, ConcatProperties, Zenon
  <1>5. RemoveAt(s, i) = front \o back
    BY DEF RemoveAt, front, back
  <1>6. ASSUME NEW j \in 1..Len(s), j # i
        PROVE  \E k \in 1..Len(front \o back) : (front \o back)[k] = s[j]
    <2>1. CASE j < i
      <3>1. j \in 1..(i - 1) /\ j \in 1..(Len(front) + Len(back)) /\ j <= Len(front)
        BY <1>1, <1>2, <1>3, <2>1
      <3>2. (front \o back)[j] = s[j]
        BY <1>2, <1>4, <3>1
      <3> QED
        BY <1>4, <3>1, <3>2
    <2>2. CASE j > i
      <3>1. j - i \in 1..Len(back) /\ back[j - i] = s[j]
        BY <1>1, <2>2 DEF back
      <3>2. j - 1 \in 1..Len(front \o back) /\ (front \o back)[j - 1] = back[j - i]
        <4>1. /\ j - 1 \in 1..(Len(front) + Len(back)) /\ ~(j - 1 <= Len(front))
              /\ (j - 1) - Len(front) = j - i
          BY <1>1, <1>2, <1>3, <2>2
        <4>2. (front \o back)[j - 1] = back[(j - 1) - Len(front)]
          BY <1>4, <4>1
        <4> QED
          BY <1>4, <4>1, <4>2
      <3> QED
        BY <3>1, <3>2
    <2> QED
      BY <1>1, <1>6, <2>1, <2>2
  <1>7. i = Len(s) => \A j \in 1..(Len(s) - 1) : (front \o back)[j] = s[j]
    BY <1>1, <1>2, <1>3, <1>4
  <1>8. Len(front \o back) = Len(s) - 1
    BY <1>1, <1>2, <1>3, <1>4
  <1> QED
    BY <1>4, <1>5, <1>6, <1>7, <1>8

\* What UninstallHandler leaves are ports.
LEMMA RestoredFacts ==
    ASSUME PlacesInv, NEW h \in Handlers, Restored(h)
    PROVE  /\ installed' \subseteq Handlers /\ port' \subseteq Handlers \cup {"outer"}
           /\ previous' \in [Handlers -> SUBSET (Handlers \cup {"outer"})]
  <1>1. CASE h \in installed
    <2>1. /\ port' = previous[h] /\ installed' = installed \ {h}
          /\ previous' = [previous EXCEPT ![h] = {}]
      BY <1>1 DEF Restored
    <2>2. /\ previous \in [Handlers -> SUBSET (Handlers \cup {"outer"})]
          /\ installed \subseteq Handlers
      BY DEF PlacesInv
    <2>3. previous[h] \in SUBSET (Handlers \cup {"outer"})
      BY <2>2
    <2> QED
      BY <2>1, <2>2, <2>3
  <1>2. CASE h \notin installed
    BY <1>2 DEF PlacesInv, Restored
  <1> QED
    BY <1>1, <1>2

\* A message that tells nothing of an exception of the program.
LEMMA PlainSend ==
    ASSUME PlacesInv, MessageInv, NEW h \in Handlers, NEW m \in {<<"shutdown">>, <<"child">>},
           Send(h, m), UNCHANGED <<port, previous, installed, order, pc, suspended, cur>>,
           life[h] # "none", life' = life \/ life' = [life EXCEPT ![h] = "deleted"]
    PROVE  PlacesInv' /\ MessageInv'
  <1>c. Actors' = Actors /\ Messages' = Messages
    BY DEF Actors, Messages
  <1>1. m \in Messages /\ m[1] # "exception"
    BY DEF Messages
  <1>2. /\ queue' \in [Handlers -> Seq(Messages)]
        /\ \A g \in Handlers : \A i \in 1..Len(queue'[g]) :
              \/ queue'[g][i] = m
              \/ i \in 1..Len(queue[g]) /\ queue'[g][i] = queue[g][i]
    BY <1>1, SendFacts
  <1>3. PlacesInv'
    BY <1>c, <1>2 DEF PlacesInv
  <1>4. MessageInv'
    BY <1>1, <1>2, MessagesKeep DEF FromFaulted
  <1> QED
    BY <1>3, <1>4

\* The exception of a forked child is one such message.
LEMMA ChildKeepsPlaces ==
    ASSUME PlacesInv, MessageInv, NEW h \in Handlers, ChildFaults(h)
    PROVE  PlacesInv' /\ MessageInv'
  BY PlainSend DEF ChildFaults, ports

\* A handler is constructed and destroyed by the program's thread.
LEMMA LifecycleKeepsPlaces ==
    ASSUME PlacesInv, MessageInv, NEW h \in Handlers, Lifecycle(h) \/ ChildFaults(h),
           h \in {order[i] : i \in DOMAIN order} \/ life[h] # "alive"
    PROVE  PlacesInv' /\ MessageInv'
  <1>c. /\ h \in Actors /\ Actors = Threads \cup Handlers
        /\ Actors' = Actors /\ Messages' = Messages
    BY Constants DEF Actors, Messages
  <1>k. queue' = queue =>
          /\ queue' \in [Handlers -> Seq(Messages)]
          /\ \A g \in Handlers : \A i \in 1..Len(queue'[g]) :
                \E j \in 1..Len(queue[g]) : queue'[g][i] = queue[g][j]
    BY DEF PlacesInv
  <1>1. CASE Construct(h)
    <2>1. /\ pc' = [pc EXCEPT ![h] = "loop"] /\ life' = [life EXCEPT ![h] = "alive"]
          /\ order' = Append(order, h) /\ life[h] = "none"
          /\ UNCHANGED <<suspended, queue, cur>>
          /\ \/ /\ previous' = [previous EXCEPT ![h] = port]
                /\ port' = {h} /\ installed' = installed \cup {h}
             \/ UNCHANGED <<port, previous, installed>>
      BY <1>1 DEF Construct, InstallHandler, Goto
    <2>2. pc[h] = "none" /\ order' \in Seq(Handlers)
      BY <2>1 DEF PlacesInv
    <2>3. /\ installed' \subseteq Handlers /\ port' \subseteq Handlers \cup {"outer"}
          /\ previous' \in [Handlers -> SUBSET (Handlers \cup {"outer"})]
          /\ life' \in [Handlers -> {"none", "alive", "torn", "deleted"}]
          /\ \A g \in Handlers : life'[g] = "none" => life[g] = "none" /\ g # h
          /\ suspended' \in [Actors -> Nat]
      BY <2>1 DEF PlacesInv
    <2>4. "loop" \notin AtWork
      BY DEF AtWork, Stopping
    <2>5. PICK l \in {"none", "loop", "receive", "write", "asking", "callback", "written",
                      "unlock", "await"} : l = "loop"
      OBVIOUS
    <2>6. pc[h] \notin {"faulted", "run"} /\ CurKeeps(h) /\ Goto(h, l)
      BY <2>1, <2>2, <2>5 DEF CurKeeps, Goto
    <2>7. l \notin AtWork /\ l # "none"
      BY <2>4, <2>5
    <2> HIDE DEF PlacesInv
    <2>8. QueuesKeep
      BY <1>k, <2>1 DEF QueuesKeep
    <2>9. \A g \in Handlers : life'[g] = "none" => life[g] = "none" /\ (g = h => l = "none")
      BY <2>3
    <2>10. /\ suspended' \in [Actors -> Nat]
           /\ order' \in Seq(Handlers) /\ installed' \subseteq Handlers
           /\ previous' \in [Handlers -> SUBSET (Handlers \cup {"outer"})]
           /\ port' \subseteq Handlers \cup {"outer"}
           /\ life' \in [Handlers -> {"none", "alive", "torn", "deleted"}]
      BY <2>2, <2>3
    <2> QED
      BY <2>6, <2>7, <2>8, <2>9, <2>10, HandlerMoves
  <1>2. CASE Uninstall(h)
    <2>1. /\ life' = [life EXCEPT ![h] = "torn"] /\ order' = Removed(h) /\ Restored(h)
          /\ life[h] = "alive" /\ UNCHANGED <<pc, suspended, queue, cur>>
      BY <1>2 DEF Uninstall
    <2>2. order' \in Seq(Handlers)
      <3> DEFINE i == CHOOSE i \in DOMAIN order : order[i] = h
      <3>1. i \in 1..Len(order)
        BY <2>1 DEF PlacesInv
      <3>2. order' = RemoveAt(order, i)
        BY <2>1 DEF Removed
      <3> HIDE DEF i
      <3> QED
        BY <3>1, <3>2, RemoveFacts DEF PlacesInv
    <2>3. \A g \in Handlers : life'[g] = "none" => life[g] = "none"
      BY <2>1 DEF PlacesInv
    <2>4. PlacesInv'
      BY <1>c, <2>1, <2>2, <2>3, RestoredFacts DEF PlacesInv
    <2>5. MessageInv'
      BY <2>1 DEF MessageInv, FromFaulted
    <2> QED
      BY <2>4, <2>5
  <1>4. CASE Teardown(h)
    BY <1>4, PlainSend DEF Teardown
  <1>5. CASE ChildFaults(h)
    BY <1>5, ChildKeepsPlaces
  <1> QED
    BY <1>1, <1>2, <1>4, <1>5 DEF Lifecycle

\* A step of a handler's thread that moves it and no port.
LEMMA PlainMoves ==
    ASSUME PlacesInv, MessageInv, NEW h \in Handlers,
           NEW l \in {"none", "loop", "receive", "write", "asking", "callback", "written",
                      "unlock", "await"},
           pc[h] \notin {"none", "faulted", "run"}, Goto(h, l),
           l \in AtWork => /\ pc[h] \in AtWork /\ cur'[h] = cur[h]
                           /\ l = "await" => cur[h][1] = "exception",
           CurKeeps(h), UNCHANGED <<ports, queue>>, suspended' \in [Actors -> Nat]
    PROVE  PlacesInv' /\ MessageInv'
  <1>1. QueuesKeep
    BY DEF PlacesInv, QueuesKeep
  <1>2. /\ order' \in Seq(Handlers) /\ installed' \subseteq Handlers
        /\ previous' \in [Handlers -> SUBSET (Handlers \cup {"outer"})]
        /\ port' \subseteq Handlers \cup {"outer"}
        /\ life' \in [Handlers -> {"none", "alive", "torn", "deleted"}]
    BY DEF PlacesInv, ports
  <1>3. \A g \in Handlers : life'[g] = "none" => life[g] = "none" /\ (g = h => l = "none")
    BY DEF PlacesInv, ports
  <1> QED
    BY <1>1, <1>2, <1>3, HandlerMoves

\* A step that touches neither a place nor a message.
LEMMA StandingStill ==
    ASSUME PlacesInv, MessageInv, UNCHANGED <<pc, suspended, queue, cur, ports>>
    PROVE  PlacesInv' /\ MessageInv'
  <1>1. Actors' = Actors /\ Messages' = Messages
    BY DEF Actors, Messages
  <1>2. PlacesInv'
    BY <1>1 DEF PlacesInv, ports
  <1>3. MessageInv'
    BY <1>1 DEF MessageInv, FromFaulted
  <1> QED
    BY <1>2, <1>3

\* A handler's thread takes the first message of its queue.
LEMMA ReceiveKeepsPlaces ==
    ASSUME PlacesInv, MessageInv, NEW h \in Handlers, Receive(h)
    PROVE  PlacesInv' /\ MessageInv'
  <1>c. /\ h \in Actors /\ h \notin Threads /\ Actors = Threads \cup Handlers
        /\ Actors' = Actors /\ Messages' = Messages
    BY Constants DEF Actors, Messages
  <1>q. queue[h] \in Seq(Messages) /\ queue[h] # <<>>
    BY DEF PlacesInv, Receive
  <1>1. PICK m : m = Head(queue[h])
    OBVIOUS
  <1>2. m \in Messages /\ m = queue[h][1] /\ 1 \in 1..Len(queue[h])
    BY <1>q, <1>1, HeadTailProperties, LenProperties
  <1>3. /\ Tail(queue[h]) \in Seq(Messages) /\ Len(Tail(queue[h])) = Len(queue[h]) - 1
        /\ Len(queue[h]) \in Nat
        /\ \A i \in 1..Len(Tail(queue[h])) : Tail(queue[h])[i] = queue[h][i + 1]
    BY <1>q, HeadTailProperties, LenProperties
  <1>4. PICK l \in {"none", "loop", "suspend"} :
           /\ Goto(h, l)
           /\ l # "suspend" => cur' = [cur EXCEPT ![h] = <<>>]
           /\ l = "suspend" => cur' = [cur EXCEPT ![h] = m]
    BY <1>1 DEF Receive
  <1>5. /\ UNCHANGED <<ports, suspended>> /\ pc[h] = "receive"
        /\ queue' = [queue EXCEPT ![h] = Tail(queue[h])]
    BY DEF Receive, At
  <1>6. /\ pc' \in [Actors -> ThreadPlaces \cup HandlerPlaces] /\ pc'[h] = l
        /\ \A x \in Threads : pc'[x] \in ThreadPlaces
        /\ \A x \in Handlers : pc'[x] \in HandlerPlaces
        /\ \A x \in Actors \ {h} : pc'[x] = pc[x]
    BY <1>c, <1>4 DEF PlacesInv, HandlerPlaces, Goto
  <1>7. cur' \in [Handlers -> Messages \cup {<<>>}] /\ \A g \in Handlers \ {h} : cur'[g] = cur[g]
    <2>1. cur \in [Handlers -> Messages \cup {<<>>}]
      BY DEF PlacesInv
    <2> QED
      BY <2>1, <1>2, <1>4
  <1>8. /\ queue' \in [Handlers -> Seq(Messages)]
        /\ \A g \in Handlers : \A i \in 1..Len(queue'[g]) :
              \E j \in 1..Len(queue[g]) : queue'[g][i] = queue[g][j]
    <2>1. queue \in [Handlers -> Seq(Messages)]
      BY DEF PlacesInv
    <2>2. queue' \in [Handlers -> Seq(Messages)]
      BY <2>1, <1>3, <1>5
    <2>3. ASSUME NEW i \in 1..Len(Tail(queue[h]))
          PROVE  \E j \in 1..Len(queue[h]) : Tail(queue[h])[i] = queue[h][j]
      <3>1. i + 1 \in 1..Len(queue[h])
        BY <1>3
      <3> QED
        BY <3>1, <1>3
    <2>4. \A g \in Handlers : queue'[g] = IF g = h THEN Tail(queue[h]) ELSE queue[g]
      BY <2>1, <1>5
    <2> QED
      BY <2>2, <2>3, <2>4
  <1>9. PlacesInv'
    <2>1. \A g \in Handlers : life'[g] = "none" => pc'[g] = "none"
      BY <1>c, <1>5, <1>6 DEF PlacesInv, ports
    <2> QED
      BY <1>c, <1>5, <1>6, <1>7, <1>8, <2>1 DEF PlacesInv, ports
  <1>10. MessageInv'
    <2>1. \A g \in Handlers : pc[g] \in {"faulted", "run"} => pc'[g] \in {"faulted", "run"}
      BY <1>c, <1>5, <1>6
    <2>2. FromFaulted(m)'
      <3>1. FromFaulted(m)
        BY <1>2 DEF MessageInv
      <3> QED
        BY <2>1, <3>1 DEF FromFaulted
    <2>3. ASSUME NEW g \in Handlers, pc'[g] \in AtWork
          PROVE  \/ /\ pc[g] \in AtWork /\ cur'[g] = cur[g]
                    /\ pc'[g] = "await" => pc[g] = "await" \/ cur[g][1] = "exception"
                 \/ pc'[g] = "suspend" /\ \E k \in Messages : cur'[g] = k /\ FromFaulted(k)'
      <3>1. CASE g # h
        BY <1>c, <1>6, <1>7, <2>3, <3>1
      <3>2. CASE g = h
        <4>1. l = "suspend"
          BY <1>6, <2>3, <3>2 DEF AtWork, Stopping
        <4>2. cur'[h] = m
          BY <1>4, <4>1 DEF PlacesInv
        <4> QED
          BY <1>2, <1>6, <2>2, <3>2, <4>1, <4>2
      <3> QED
        BY <3>1, <3>2
    <2> QED
      BY <1>8, <2>1, <2>3, MessagesKeep
  <1> QED
    BY <1>9, <1>10

\* A handler's thread at its work.
LEMMA WorkKeepsPlaces ==
    ASSUME PlacesInv, MessageInv, NEW h \in Handlers,
           \/ Loop(h) \/ SuspendThreads(h) \/ Write(h) \/ NothingToAsk(h) \/ Callback(h)
           \/ ResumeThreads(h) \/ Unlock(h) \/ AskServer(h)
           \/ \E ok \in BOOLEAN : ServerAnswers(h, ok)
    PROVE  PlacesInv' /\ MessageInv'
  <1>1. /\ UNCHANGED <<ports, queue>>
        /\ pc[h] \in {"loop", "suspend", "write", "callback", "written", "unlock", "asking"}
    BY DEF Loop, SuspendThreads, Write, NothingToAsk, Callback, ResumeThreads, Unlock,
           AskServer, ServerAnswers, At
  <1>2. suspended' \in [Actors -> Nat]
    <2>1. suspended \in [Actors -> Nat]
      BY DEF PlacesInv
    <2>2. CASE SuspendThreads(h)
      BY <2>1, <2>2 DEF SuspendThreads
    <2>3. CASE ResumeThreads(h)
      BY <2>1, <2>3 DEF ResumeThreads
    <2>4. CASE UNCHANGED suspended
      BY <2>1, <2>4
    <2> QED
      BY <2>2, <2>3, <2>4 DEF Loop, Write, NothingToAsk, Callback, Unlock, AskServer,
                              ServerAnswers
  <1>3. ASSUME UNCHANGED <<pc, suspended, cur>>
        PROVE  PlacesInv' /\ MessageInv'
    BY <1>1, <1>3, StandingStill
  <1>4. ASSUME NEW l \in {"loop", "receive", "write", "asking", "callback", "written",
                          "unlock"},
               Goto(h, l), CurKeeps(h),
               l \in AtWork => pc[h] \in AtWork /\ cur'[h] = cur[h]
        PROVE  PlacesInv' /\ MessageInv'
    <2>1. /\ l \in {"none", "loop", "receive", "write", "asking", "callback", "written",
                    "unlock", "await"}
          /\ pc[h] \notin {"none", "faulted", "run"} /\ l # "await"
      BY <1>1
    <2> QED
      BY <1>1, <1>2, <1>4, <2>1, PlainMoves
  <1>5. CASE Loop(h)
    <2>1. \/ UNCHANGED <<pc, suspended, cur>>
          \/ Goto(h, "receive") /\ cur' = cur
      BY <1>5 DEF Loop
    <2> QED
      BY <1>3, <1>4, <2>1 DEF CurKeeps, AtWork, Stopping
  <1>6. CASE SuspendThreads(h) \/ NothingToAsk(h) \/ AskServer(h)
             \/ \E ok \in BOOLEAN : ServerAnswers(h, ok)
    <2>1. /\ Goto(h, "write") \/ Goto(h, "written") \/ Goto(h, "asking")
          /\ cur' = cur /\ pc[h] \in {"suspend", "write", "asking"}
      BY <1>6 DEF SuspendThreads, NothingToAsk, AskServer, ServerAnswers, At
    <2> QED
      BY <1>4, <2>1 DEF CurKeeps, AtWork, Stopping
  <1>7. CASE Write(h) \/ Callback(h)
    <2>1. /\ cur' = cur /\ pc[h] \in {"write", "callback"}
          /\ Goto(h, "written") \/ Goto(h, "callback") \/ UNCHANGED <<pc, suspended, cur>>
      BY <1>7 DEF Write, Callback, At
    <2> QED
      BY <1>3, <1>4, <2>1 DEF CurKeeps, AtWork, Stopping
  <1>8. CASE ResumeThreads(h)
    <2>1. Goto(h, "unlock") /\ cur' = cur
      BY <1>8 DEF ResumeThreads
    <2> QED
      BY <1>4, <2>1 DEF CurKeeps, AtWork, Stopping
  <1>9. CASE Unlock(h)
    <2>1. Goto(h, "loop") /\ CurKeeps(h)
      BY <1>9 DEF Unlock, CurKeeps
    <2> QED
      BY <1>4, <2>1 DEF AtWork, Stopping
  <1> QED
    BY <1>5, <1>6, <1>7, <1>8, <1>9

\* An exception goes on to the task's next port.
LEMMA ForwardKeepsPlaces ==
    ASSUME PlacesInv, MessageInv, NEW h \in Handlers, UninstallAndForward(h)
    PROVE  PlacesInv' /\ MessageInv'
  <1>1. /\ UNCHANGED <<life, order, suspended, cur>> /\ Restored(h)
        /\ pc[h] = "written" /\ cur[h][1] = "exception"
        /\ cur[h] \in Messages /\ FromFaulted(cur[h])
    BY DEF UninstallAndForward, At, IsException, MessageInv, AtWork, Stopping
  <1>2. /\ installed' \subseteq Handlers /\ port' \subseteq Handlers \cup {"outer"}
        /\ previous' \in [Handlers -> SUBSET (Handlers \cup {"outer"})]
    BY <1>1, RestoredFacts
  <1>3. CASE UNCHANGED <<pc, queue>>
    <2>1. Actors' = Actors /\ Messages' = Messages
      BY DEF Actors, Messages
    <2>2. PlacesInv'
      BY <1>1, <1>2, <1>3, <2>1 DEF PlacesInv
    <2>3. MessageInv'
      BY <1>1, <1>3, <2>1 DEF MessageInv, FromFaulted
    <2> QED
      BY <2>2, <2>3
  <1>4. ASSUME Goto(h, "await"), QueuesKeep
        PROVE  PlacesInv' /\ MessageInv'
    <2>1. PICK l \in {"none", "loop", "receive", "write", "asking", "callback", "written",
                      "unlock", "await"} : l = "await"
      OBVIOUS
    <2>2. /\ Goto(h, l) /\ pc[h] \notin {"faulted", "run"} /\ CurKeeps(h)
          /\ pc[h] \in AtWork /\ cur'[h] = cur[h] /\ cur[h][1] = "exception"
      BY <1>1, <1>4, <2>1 DEF CurKeeps, AtWork, Stopping
    <2>3. /\ suspended' \in [Actors -> Nat] /\ order' \in Seq(Handlers)
          /\ life' \in [Handlers -> {"none", "alive", "torn", "deleted"}]
          /\ \A g \in Handlers : life'[g] = "none" => life[g] = "none" /\ (g = h => l = "none")
      BY <1>1 DEF PlacesInv
    <2> QED
      BY <1>2, <1>4, <2>2, <2>3, HandlerMoves
  <1>5. queue' = queue => QueuesKeep
    BY DEF PlacesInv, QueuesKeep
  <1>6. ASSUME NEW g \in Handlers, Goto(h, "await"), Send(g, <<"exception", cur[h][2]>>)
        PROVE  QueuesKeep
    <2>1. PICK m : m = cur[h]
      OBVIOUS
    <2>2. m \in Messages /\ m[1] = "exception" /\ FromFaulted(m)
      BY <1>1, <2>1
    <2>3. m = <<"exception", m[2]>>
      BY <2>2 DEF Messages
    <2>4. Send(g, m)
      BY <1>6, <2>1, <2>3
    <2>5. FromFaulted(m)'
      <3>1. \A x \in Handlers : pc[x] \in {"faulted", "run"} => pc'[x] \in {"faulted", "run"}
        BY <1>1, <1>6 DEF Goto, PlacesInv
      <3> QED
        BY <2>2, <3>1 DEF FromFaulted
    <2> QED
      BY <2>2, <2>4, <2>5, SendFacts DEF QueuesKeep
  <1> QED
    BY <1>3, <1>4, <1>5, <1>6 DEF UninstallAndForward

\* Another process has handled the exception.
LEMMA AnswerKeepsPlaces ==
    ASSUME PlacesInv, MessageInv, NEW h \in Handlers, OuterAnswers(h)
    PROVE  PlacesInv' /\ MessageInv'
  <1>c. /\ h \in Actors /\ h \notin Threads /\ Actors = Threads \cup Handlers
        /\ Actors' = Actors /\ Messages' = Messages
    BY Constants DEF Actors, Messages
  <1>1. CASE UNCHANGED <<pc, cur>>
    BY <1>1, StandingStill DEF OuterAnswers
  <1>2. CASE /\ pc' = [pc EXCEPT ![h] = "loop", ![cur[h][2]] = "run"]
             /\ cur' = [cur EXCEPT ![h] = <<>>]
    <2>1. UNCHANGED <<ports, suspended, queue>> /\ pc[h] = "await"
      BY DEF OuterAnswers, At
    <2>2. PICK m : m = cur[h]
      OBVIOUS
    <2>3. m \in Messages /\ m[1] = "exception" /\ FromFaulted(m)
      BY <2>1, <2>2 DEF MessageInv, AtWork
    <2>4. PICK a \in Actors : a = m[2]
      BY <2>3 DEF Messages
    <2>5. a # h /\ (a \in Handlers => pc[a] \in {"faulted", "run"})
      BY <2>1, <2>3, <2>4 DEF FromFaulted
    <2>6. /\ pc' \in [Actors -> ThreadPlaces \cup HandlerPlaces]
          /\ pc'[h] = "loop" /\ pc'[a] = "run"
          /\ \A x \in Actors \ {h, a} : pc'[x] = pc[x]
      <3>1. pc' = [pc EXCEPT ![h] = "loop", ![a] = "run"]
        BY <1>2, <2>2, <2>4
      <3> QED
        BY <1>c, <2>5, <3>1 DEF PlacesInv, HandlerPlaces, ThreadPlaces
    <2>7. /\ \A x \in Threads : pc'[x] \in ThreadPlaces
          /\ \A x \in Handlers : pc'[x] \in HandlerPlaces
      BY <1>c, <2>5, <2>6 DEF PlacesInv, HandlerPlaces, ThreadPlaces
    <2>8. /\ cur' \in [Handlers -> Messages \cup {<<>>}]
          /\ \A g \in Handlers \ {h} : cur'[g] = cur[g]
      BY <1>2 DEF PlacesInv
    <2>9. PlacesInv'
      <3>1. \A g \in Handlers : life'[g] = "none" => pc'[g] = "none"
        BY <1>c, <2>1, <2>5, <2>6 DEF PlacesInv, ports
      <3> QED
        BY <1>c, <2>1, <2>6, <2>7, <2>8, <3>1 DEF PlacesInv, ports
    <2>10. MessageInv'
      <3>1. \A g \in Handlers : pc[g] \in {"faulted", "run"} => pc'[g] \in {"faulted", "run"}
        BY <1>c, <2>1, <2>5, <2>6
      <3>2. ASSUME NEW g \in Handlers, pc'[g] \in AtWork
            PROVE  pc[g] \in AtWork /\ cur'[g] = cur[g] /\ pc'[g] = pc[g]
        BY <1>c, <2>6, <2>8, <3>2 DEF AtWork, Stopping
      <3>3. \A g \in Handlers : \A i \in 1..Len(queue'[g]) :
               \E j \in 1..Len(queue[g]) : queue'[g][i] = queue[g][j]
        BY <2>1
      <3> QED
        BY <3>1, <3>2, <3>3, MessagesKeep
    <2> QED
      BY <2>9, <2>10
  <1> QED
    BY <1>1, <1>2 DEF OuterAnswers

-----------------------------------------------------------------------------
(* The chain of the saved ports. *)

\* Only the first n of the handlers tell.
LEMMA TopAgrees ==
    ASSUME NEW p, NEW q, NEW s, NEW q2, NEW s2, NEW n \in Nat, TopIs(p, q, s, n),
           \A j \in 1..n : q2[j] = q[j] /\ (q[j] \in s2 <=> q[j] \in s)
    PROVE  TopIs(p, q2, s2, n)
  <1>1. CASE \A j \in 1..n : q[j] \notin s
    <2>1. p = Original \/ \E j \in 1..n : q[j] \in s
      BY DEF TopIs
    <2> QED
      BY <1>1, <2>1 DEF TopIs
  <1>2. ASSUME NEW j \in 1..n, q[j] \in s, p = {q[j]}, \A l \in (j + 1)..n : q[l] \notin s
        PROVE  TopIs(p, q2, s2, n)
    <2>1. q2[j] \in s2 /\ p = {q2[j]} /\ \A l \in (j + 1)..n : q2[l] \notin s2
      BY <1>2
    <2> QED
      BY <2>1 DEF TopIs
  <1> QED
    BY <1>1, <1>2 DEF TopIs

\* A handler put on top.
LEMMA TopPushed ==
    ASSUME NEW p, NEW q, NEW s, NEW n \in Nat, TopIs(p, q, s, n)
    PROVE  q[n + 1] \notin s => TopIs(p, q, s, n + 1)
  <1>1. SUFFICES ASSUME q[n + 1] \notin s PROVE TopIs(p, q, s, n + 1)
    OBVIOUS
  <1>2. CASE \A j \in 1..n : q[j] \notin s
    <2>1. \A j \in 1..(n + 1) : q[j] \notin s
      BY <1>1, <1>2
    <2>2. p = Original
      BY <1>2 DEF TopIs
    <2> QED
      BY <2>1, <2>2 DEF TopIs
  <1>3. ASSUME NEW j \in 1..n, q[j] \in s, p = {q[j]}, \A l \in (j + 1)..n : q[l] \notin s
        PROVE  TopIs(p, q, s, n + 1)
    <2>1. \A l \in (j + 1)..(n + 1) : q[l] \notin s
      BY <1>1, <1>3
    <2>2. j \in 1..(n + 1)
      OBVIOUS
    <2> QED
      BY <1>3, <2>1, <2>2 DEF TopIs
  <1> QED
    BY <1>2, <1>3 DEF TopIs

\* A handler taken from the top that is not installed.
LEMMA TopPopped ==
    ASSUME NEW p, NEW q, NEW s, NEW n \in Nat, n > 0, TopIs(p, q, s, n), q[n] \notin s
    PROVE  TopIs(p, q, s, n - 1)
  <1>1. CASE \A j \in 1..n : q[j] \notin s
    <2>1. \A j \in 1..(n - 1) : q[j] \notin s
      BY <1>1
    <2>2. p = Original
      BY <1>1 DEF TopIs
    <2> QED
      BY <2>1, <2>2 DEF TopIs
  <1>2. ASSUME NEW j \in 1..n, q[j] \in s, p = {q[j]}, \A l \in (j + 1)..n : q[l] \notin s
        PROVE  TopIs(p, q, s, n - 1)
    <2>1. j \in 1..(n - 1) /\ \A l \in (j + 1)..(n - 1) : q[l] \notin s
      BY <1>2
    <2> QED
      BY <1>2, <2>1 DEF TopIs
  <1> QED
    BY <1>1, <1>2 DEF TopIs

\* A handler is constructed on top of the others.
LEMMA ConstructKeepsChain ==
    ASSUME PlacesInv, ChainInv, NEW h \in Handlers, Construct(h)
    PROVE  ChainInv'
  <1> DEFINE n == Len(order)
  <1>1. /\ life[h] = "none" /\ life' = [life EXCEPT ![h] = "alive"]
        /\ order' = Append(order, h)
        /\ \/ /\ previous' = [previous EXCEPT ![h] = port]
              /\ port' = {h} /\ installed' = installed \cup {h}
           \/ UNCHANGED <<port, previous, installed>>
    BY DEF Construct, InstallHandler
  <1>2. /\ n \in Nat /\ Len(order') = n + 1 /\ order'[n + 1] = h
        /\ \A j \in 1..n : order'[j] = order[j] /\ order[j] \in Handlers
    BY <1>1, AppendProperties, LenProperties DEF PlacesInv
  <1>3. h \notin installed /\ \A j \in 1..n : order[j] # h
    BY <1>1 DEF ChainInv
  <1> HIDE DEF n
  <1>4. \A j \in 1..n : order'[j] \in installed' <=> order[j] \in installed
    BY <1>1, <1>2, <1>3
  <1>5. \A p : \A k \in 0..n :
           TopIs(p, order, installed, k) => TopIs(p, order', installed', k)
    <2> SUFFICES ASSUME NEW p, NEW k \in 0..n, TopIs(p, order, installed, k)
                 PROVE  TopIs(p, order', installed', k)
      OBVIOUS
    <2>1. /\ k \in Nat
          /\ \A j \in 1..k : /\ order'[j] = order[j]
                             /\ order[j] \in installed' <=> order[j] \in installed
      BY <1>2, <1>4
    <2> QED
      BY <2>1, TopAgrees
  <1>6. TopIs(port, order', installed', n)
    BY <1>2, <1>5 DEF ChainInv, n
  <1>7. \A i, j \in 1..(n + 1) : order'[i] = order'[j] => i = j
    BY <1>2, <1>3 DEF ChainInv, n
  <1>8. \A g \in Handlers : life'[g] = "alive" <=> \E i \in 1..(n + 1) : order'[i] = g
    <2>1. life'[h] = "alive" /\ \A g \in Handlers \ {h} : life'[g] = life[g]
      BY <1>1 DEF PlacesInv
    <2>2. n + 1 \in 1..(n + 1) /\ \A i \in 1..(n + 1) : i \in 1..n \/ i = n + 1
      BY <1>2
    <2>3. \A g \in Handlers : life[g] = "alive" <=> \E i \in 1..n : order[i] = g
      BY DEF ChainInv, n
    <2>4. \A i \in 1..n : i \in 1..(n + 1)
      BY <1>2
    <2>5. ASSUME NEW g \in Handlers \ {h}
          PROVE  life'[g] = "alive" <=> \E i \in 1..(n + 1) : order'[i] = g
      BY <1>2, <2>1, <2>2, <2>3, <2>4
    <2> QED
      BY <1>2, <2>1, <2>2, <2>5
  <1>9. \A g \in installed' : life'[g] = "alive"
    BY <1>1 DEF PlacesInv, ChainInv
  <1>10. ASSUME NEW i \in 1..(n + 1), order'[i] \in installed'
         PROVE  TopIs(previous'[order'[i]], order', installed', i - 1)
    <2>1. CASE i = n + 1
      <3>1. previous'[h] = port
        BY <1>1, <1>2, <1>3, <1>10, <2>1 DEF PlacesInv
      <3>2. i - 1 = n
        BY <1>2, <2>1
      <3> QED
        BY <1>2, <1>6, <2>1, <3>1, <3>2
    <2>2. CASE i \in 1..n
      <3>1. previous'[order[i]] = previous[order[i]]
        BY <1>1, <1>2, <1>3, <2>2 DEF PlacesInv
      <3>2. TopIs(previous[order[i]], order, installed, i - 1)
        BY <1>4, <1>10, <2>2 DEF ChainInv, n
      <3>3. i - 1 \in 0..n
        BY <1>2, <2>2
      <3> QED
        BY <1>2, <1>5, <2>2, <3>1, <3>2, <3>3
    <2> QED
      BY <1>2, <2>1, <2>2
  <1>11. TopIs(port', order', installed', n + 1)
    <2>1. CASE port' = {h} /\ installed' = installed \cup {h}
      <3>1. n + 1 \in 1..(n + 1) /\ order'[n + 1] \in installed' /\ port' = {order'[n + 1]}
        BY <1>2, <2>1
      <3>2. \A l \in (n + 1 + 1)..(n + 1) : order'[l] \notin installed'
        BY <1>2
      <3> QED
        BY <3>1, <3>2 DEF TopIs
    <2>2. CASE UNCHANGED <<port, previous, installed>>
      BY <1>2, <1>3, <1>6, <2>2, TopPushed
    <2> QED
      BY <1>1, <2>1, <2>2
  <1> QED
    BY <1>2, <1>7, <1>8, <1>9, <1>10, <1>11 DEF ChainInv

\* The newest handler is destroyed: it gives back the port it had saved.
LEMMA UninstallKeepsChain ==
    ASSUME Lifo, PlacesInv, ChainInv, NEW h \in Handlers, Uninstall(h)
    PROVE  ChainInv'
  <1> DEFINE n == Len(order)
  <1>1. /\ life[h] = "alive" /\ h = order[n] /\ life' = [life EXCEPT ![h] = "torn"]
        /\ order' = Removed(h) /\ Restored(h)
    BY DEF Uninstall
  <1>2. n \in Nat /\ n > 0 /\ n \in 1..n /\ \A j \in 1..n : order[j] \in Handlers
    <2>1. n \in Nat /\ \A j \in 1..n : order[j] \in Handlers
      BY LenProperties DEF PlacesInv
    <2>2. \E i \in 1..n : order[i] = h
      BY <1>1 DEF ChainInv
    <2> QED
      BY <2>1, <2>2
  <1>3. \A j \in 1..(n - 1) : order[j] # h
    BY <1>1, <1>2 DEF ChainInv
  <1>4. Len(order') = n - 1 /\ \A j \in 1..(n - 1) : order'[j] = order[j]
    <2> DEFINE i == CHOOSE i \in DOMAIN order : order[i] = h
    <2>1. DOMAIN order = 1..n /\ order \in Seq(Handlers)
      BY DEF PlacesInv
    <2>2. i \in 1..n /\ order[i] = h
      BY <1>1, <1>2, <2>1
    <2>3. i = n
      BY <1>1, <1>2, <2>2 DEF ChainInv
    <2>4. order' = RemoveAt(order, i)
      BY <1>1 DEF Removed
    <2> HIDE DEF i
    <2> QED
      BY <1>2, <2>1, <2>3, <2>4, RemoveFacts
  <1>5. installed' = installed \ {h} /\ \A g \in Handlers \ {h} : previous'[g] = previous[g]
    BY <1>1 DEF Restored, PlacesInv
  <1> HIDE DEF n
  <1>6. \A p : \A k \in 0..(n - 1) :
           TopIs(p, order, installed, k) => TopIs(p, order', installed', k)
    <2> SUFFICES ASSUME NEW p, NEW k \in 0..(n - 1), TopIs(p, order, installed, k)
                 PROVE  TopIs(p, order', installed', k)
      OBVIOUS
    <2>1. /\ k \in Nat
          /\ \A j \in 1..k : /\ order'[j] = order[j]
                             /\ order[j] \in installed' <=> order[j] \in installed
      BY <1>2, <1>3, <1>4, <1>5
    <2> QED
      BY <2>1, TopAgrees
  <1>7. TopIs(port', order', installed', n - 1)
    <2>0. n - 1 \in 0..(n - 1)
      BY <1>2
    <2>1. CASE h \in installed
      <3>1. TopIs(previous[h], order, installed, n - 1)
        BY <1>1, <1>2, <2>1 DEF ChainInv, n
      <3>2. port' = previous[h]
        BY <1>1, <2>1 DEF Restored
      <3> QED
        BY <1>6, <2>0, <3>1, <3>2
    <2>2. CASE h \notin installed
      <3>1. TopIs(port, order, installed, n - 1)
        BY <1>1, <1>2, <2>2, TopPopped DEF ChainInv, n
      <3>2. port' = port
        BY <1>1, <2>2 DEF Restored
      <3> QED
        BY <1>6, <2>0, <3>1, <3>2
    <2> QED
      BY <2>1, <2>2
  <1>8. \A i, j \in 1..(n - 1) : order'[i] = order'[j] => i = j
    BY <1>2, <1>4 DEF ChainInv, n
  <1>9. \A g \in Handlers : life'[g] = "alive" <=> \E i \in 1..(n - 1) : order'[i] = g
    <2>1. life'[h] = "torn" /\ \A g \in Handlers \ {h} : life'[g] = life[g]
      BY <1>1 DEF PlacesInv
    <2>2. \A i \in 1..n : i \in 1..(n - 1) \/ i = n
      BY <1>2
    <2>3. \A g \in Handlers : life[g] = "alive" <=> \E i \in 1..n : order[i] = g
      BY DEF ChainInv, n
    <2>4. \A i \in 1..(n - 1) : i \in 1..n
      BY <1>2
    <2>5. ASSUME NEW g \in Handlers \ {h}
          PROVE  life'[g] = "alive" <=> \E i \in 1..(n - 1) : order'[i] = g
      <3>1. life'[g] = "alive" <=> \E i \in 1..n : order[i] = g
        BY <2>1, <2>3
      <3>2. ASSUME NEW i \in 1..n, order[i] = g PROVE i \in 1..(n - 1) /\ order'[i] = g
        BY <1>1, <1>4, <2>2, <3>2
      <3> QED
        BY <1>4, <2>4, <3>1, <3>2
    <2> QED
      BY <1>3, <1>4, <2>1, <2>5
  <1>10. \A g \in installed' : life'[g] = "alive"
    BY <1>1, <1>5 DEF PlacesInv, ChainInv
  <1>11. ASSUME NEW i \in 1..(n - 1), order'[i] \in installed'
         PROVE  TopIs(previous'[order'[i]], order', installed', i - 1)
    <2>1. i \in 1..n /\ i - 1 \in 0..(n - 1)
      BY <1>2
    <2>2. previous'[order[i]] = previous[order[i]]
      BY <1>2, <1>3, <1>5, <2>1
    <2>3. TopIs(previous[order[i]], order, installed, i - 1)
      BY <1>4, <1>5, <1>11, <2>1 DEF ChainInv, n
    <2> QED
      BY <1>4, <1>6, <2>1, <2>2, <2>3
  <1> QED
    BY <1>4, <1>7, <1>8, <1>9, <1>10, <1>11 DEF ChainInv

\* Handlers come and go in any order: the live ones are among those in order.
LEMMA LifecycleKeepsLive ==
    ASSUME PlacesInv, LiveInv, NEW h \in Handlers, Lifecycle(h)
    PROVE  LiveInv'
  <1>1. order \in Seq(Handlers) /\ DOMAIN order = 1..Len(order) /\ Len(order) \in Nat
    BY DEF PlacesInv
  <1>2. CASE Construct(h)
    <2>1. order' = Append(order, h) /\ life' = [life EXCEPT ![h] = "alive"]
      BY <1>2 DEF Construct
    <2>2. /\ Len(order') = Len(order) + 1 /\ order'[Len(order) + 1] = h
          /\ \A i \in 1..Len(order) : order'[i] = order[i]
      BY <1>1, <2>1, AppendProperties
    <2>3. \A g \in Handlers \ {h} : life'[g] = life[g]
      BY <2>1 DEF PlacesInv
    <2> QED
      BY <1>1, <2>2, <2>3 DEF LiveInv
  <1>3. CASE Uninstall(h)
    <2> DEFINE i == CHOOSE i \in DOMAIN order : order[i] = h
    <2>1. life[h] = "alive" /\ order' = RemoveAt(order, i) /\ life' = [life EXCEPT ![h] = "torn"]
      BY <1>3 DEF Uninstall, Removed
    <2>2. i \in 1..Len(order) /\ order[i] = h
      BY <1>1, <2>1 DEF LiveInv
    <2> HIDE DEF i
    <2>3. \A j \in 1..Len(order) : j # i => \E k \in 1..Len(order') : order'[k] = order[j]
      BY <1>1, <2>1, <2>2, RemoveFacts
    <2>4. life'[h] = "torn" /\ \A g \in Handlers \ {h} : life'[g] = life[g]
      BY <2>1 DEF PlacesInv
    <2> QED
      BY <2>2, <2>3, <2>4 DEF LiveInv
  <1>4. CASE Teardown(h)
    <2>1. UNCHANGED order /\ life' = [life EXCEPT ![h] = "deleted"]
      BY <1>4 DEF Teardown
    <2> QED
      BY <2>1 DEF LiveInv, PlacesInv
  <1> QED
    BY <1>2, <1>3, <1>4 DEF Lifecycle

-----------------------------------------------------------------------------
(* Order, and what is frozen. *)

\* Nobody runs beside a handler's thread that has suspended everybody.
LEMMA NobodyElse ==
    ASSUME PlacesInv, NEW h \in Handlers, Alone(h, 1), NEW a \in Actors,
           pc[a] # "none", suspended[a] = 0
    PROVE  a = h
  BY DEF Alone, PlacesInv

\* A thread of the program has not ended.
LEMMA OwnerRuns ==
    PlacesInv => Owner \in Actors /\ \A t \in Threads : t \in Actors /\ pc[t] # "none"
  BY Constants DEF PlacesInv, ThreadPlaces

\* The chain is what it was if the ports and the live handlers are.
LEMMA ChainStays ==
    ASSUME PlacesInv, ChainInv, UNCHANGED <<port, previous, installed, order>>,
           \A h \in Handlers : life'[h] = "alive" <=> life[h] = "alive"
    PROVE  ChainInv'
  <1>1. \A h \in installed' : life'[h] = "alive"
    BY DEF ChainInv, PlacesInv
  <1>2. \A h \in Handlers : life'[h] = "alive" <=> \E i \in 1..Len(order') : order'[i] = h
    BY DEF ChainInv
  <1>3. /\ \A i, j \in 1..Len(order') : order'[i] = order'[j] => i = j
        /\ \A i \in 1..Len(order') :
              order'[i] \in installed' => TopIs(previous'[order'[i]], order', installed', i - 1)
        /\ TopIs(port', order', installed', Len(order'))
    BY DEF ChainInv
  <1> QED
    BY <1>1, <1>2, <1>3 DEF ChainInv

\* A step of the program's threads, or a fault, suspends nobody and lets nobody begin.
LEMMA AloneStays ==
    ASSUME NEW h, NEW k, Alone(h, k), UNCHANGED suspended,
           \A a \in Actors \ {h} : pc[a] = "none" => pc'[a] = "none"
    PROVE  Alone(h, k)'
  BY DEF Alone, Actors

\* Frozen is frozen: a thread of the program does not run.
LEMMA FrozenThread ==
    ASSUME PlacesInv, Frozen, NEW t \in Threads, suspended[t] = 0
    PROVE  FALSE
  <1>1. t \in Actors /\ t \notin Handlers /\ pc[t] # "none"
    BY Constants, OwnerRuns
  <1>2. suspended \in [Actors -> Nat]
    BY DEF PlacesInv
  <1>3. PICK h \in Handlers : Alone(h, IF proc = "alive" /\ pc[h] \in Stopping THEN 2 ELSE 1)
    BY DEF Frozen
  <1>4. suspended[t] >= 2 \/ suspended[t] >= 1
    BY <1>1, <1>3 DEF Alone
  <1> QED
    BY <1>1, <1>2, <1>4

\* The program's threads leave everything in order.
LEMMA ThreadKeepsOrder ==
    ASSUME PlacesInv, Orderly, NEW t \in Threads, ThreadStep(t)
    PROVE  Orderly'
  <1>1. /\ UNCHANGED <<ports, suspended>> /\ suspended[t] = 0
        /\ \E l \in ThreadPlaces : pc' = [pc EXCEPT ![t] = l]
    BY DEF ThreadStep, Begin, LockAndSend, Finish, WriteMinidump, Goto, ThreadPlaces, At
  <1>2. \A a \in Actors \ {t} : pc'[a] = pc[a]
    BY <1>1 DEF PlacesInv
  <1>3. \A h \in Handlers : pc'[h] = pc[h]
    BY <1>2, Constants
  <1>4. \A a \in Actors : pc[a] = "none" => pc'[a] = "none"
    BY <1>2, OwnerRuns
  <1>5. OneAtWork'
    <2>1. \A h \in Handlers : Alone(h, 1) => Alone(h, 1)'
      BY <1>1, <1>4, AloneStays
    <2> QED
      BY <1>3, <2>1 DEF Orderly, OneAtWork, Stopping
  <1> QED
    BY <1>1, <1>5, ChainStays DEF Orderly, LiveInv, ports

\* An exception leaves everything in order: who has it stands still.
LEMMA FaultKeepsOrder ==
    ASSUME PlacesInv, Orderly, NEW a \in Actors, Fault(a)
    PROVE  Orderly'
  <1>1. /\ UNCHANGED <<ports, suspended>> /\ suspended[a] = 0
        /\ pc[a] \in {"run", "write", "callback"}
        /\ pc' = pc \/ pc' = [pc EXCEPT ![a] = "faulted"]
    BY DEF Fault, At, Goto
  <1>2. \A x \in Actors \ {a} : pc'[x] = pc[x]
    BY <1>1 DEF PlacesInv
  <1>3. pc'[a] = pc[a] \/ pc'[a] = "faulted"
    BY <1>1 DEF PlacesInv
  <1>4. \A x \in Actors : pc[x] = "none" => pc'[x] = "none"
    BY <1>1, <1>2
  <1>5. \A h \in Handlers : Alone(h, 1) => Alone(h, 1)'
    BY <1>1, <1>4, AloneStays
  <1>6. ASSUME NEW h \in Handlers
        PROVE  /\ pc'[h] \notin {"run", "await"}
               /\ pc'[h] \in Stopping \cup {"faulted"} => Alone(h, 1)'
    <2>0. h \in Actors
      BY Constants
    <2>1. CASE pc'[h] = pc[h]
      BY <1>5, <2>1 DEF Orderly, OneAtWork, Stopping
    <2>2. CASE h = a /\ pc'[a] = "faulted"
      <3>1. pc[a] \in Stopping
        BY <1>1, <2>2 DEF Orderly, OneAtWork, Stopping
      <3> QED
        BY <1>5, <2>2, <3>1 DEF Orderly, OneAtWork
    <2> QED
      BY <1>2, <1>3, <2>0, <2>1, <2>2
  <1>7. OneAtWork'
    BY <1>6 DEF OneAtWork, Stopping
  <1> QED
    BY <1>1, <1>7, ChainStays DEF Orderly, LiveInv, ports

\* Handlers come and go while none of their threads is at work.
LEMMA LifecycleKeepsOrder ==
    ASSUME PlacesInv, Orderly, NEW h \in Handlers, Lifecycle(h)
    PROVE  Orderly'
  <1>1. /\ suspended[Owner] = 0 /\ UNCHANGED suspended
        /\ pc' = pc \/ pc' = [pc EXCEPT ![h] = "loop"]
    BY DEF Lifecycle, Construct, Uninstall, Teardown, At, Goto
  <1>2. \A g \in Handlers : pc[g] \notin Stopping \cup {"faulted"}
    BY <1>1, OwnerRuns, NobodyElse, Constants DEF Orderly, OneAtWork
  <1>3. \A g \in Handlers : pc'[g] = pc[g] \/ pc'[g] = "loop"
    <2>1. CASE pc' = pc
      BY <2>1
    <2>2. CASE pc' = [pc EXCEPT ![h] = "loop"]
      BY <2>2, Constants DEF PlacesInv
    <2> QED
      BY <1>1, <2>1, <2>2
  <1>4. OneAtWork'
    BY <1>2, <1>3 DEF OneAtWork, Orderly, Stopping
  <1>5. Lifo => ChainInv'
    <2> SUFFICES ASSUME Lifo PROVE ChainInv'
      OBVIOUS
    <2>1. CASE Construct(h)
      BY <2>1, ConstructKeepsChain DEF Orderly
    <2>2. CASE Uninstall(h)
      BY <2>2, UninstallKeepsChain DEF Orderly
    <2>3. CASE Teardown(h)
      <3>1. /\ UNCHANGED <<port, previous, installed, order>> /\ life[h] = "torn"
            /\ life' = [life EXCEPT ![h] = "deleted"]
        BY <2>3 DEF Teardown
      <3>2. /\ life[h] # "alive" /\ life'[h] # "alive"
            /\ \A g \in Handlers \ {h} : life'[g] = life[g]
        BY <3>1 DEF PlacesInv
      <3> QED
        BY <3>1, <3>2, ChainStays DEF Orderly
    <2> QED
      BY <2>1, <2>2, <2>3 DEF Lifecycle
  <1> QED
    BY <1>4, <1>5, LifecycleKeepsLive DEF Orderly

\* A handler's thread at work leaves everything in order, or forwards an exception while
\* all the others are suspended.
LEMMA WorkKeepsOrder ==
    ASSUME PlacesInv, MessageInv, Orderly, NEW h \in Handlers,
           WaitForMessage(h) \/ AskServer(h) \/ \E ok \in BOOLEAN : ServerAnswers(h, ok)
    PROVE  Orderly' \/ Frozen'
  <1>c. h \in Actors /\ \A g \in Handlers : g \in Actors
    BY Constants
  <1>1. suspended[h] = 0 /\ pc[h] \notin {"none", "run", "await", "faulted"}
    <2>1. suspended[h] = 0 /\ pc[h] \notin {"none", "run", "faulted"}
      BY DEF WaitForMessage, Loop, Receive, SuspendThreads, Write, NothingToAsk, Callback,
             ResumeThreads, Unlock, UninstallAndForward, OuterAnswers, AskServer,
             ServerAnswers, At
    <2> QED
      BY <2>1 DEF Orderly, OneAtWork
  <1>2. \A g \in Handlers \ {h} : pc[g] \notin Stopping \cup {"faulted"}
    BY <1>c, <1>1, NobodyElse DEF Orderly, OneAtWork
  <1>3. ASSUME UNCHANGED ports, NEW l \in HandlerPlaces, pc' = pc \/ Goto(h, l),
               l \notin {"run", "await"},
               pc'[h] \in Stopping \cup {"faulted"} => Alone(h, 1)'
        PROVE  Orderly'
    <2>1. /\ \A g \in Handlers \ {h} : pc'[g] = pc[g]
          /\ pc'[h] = pc[h] \/ pc'[h] = l
      <3>1. CASE pc' = pc
        BY <3>1
      <3>2. CASE Goto(h, l)
        BY <1>c, <3>2 DEF Goto, PlacesInv
      <3> QED
        BY <1>3, <3>1, <3>2
    <2>2. OneAtWork'
      BY <1>1, <1>2, <1>3, <2>1 DEF OneAtWork, Stopping, Orderly
    <2> QED
      BY <1>3, <2>2, ChainStays DEF Orderly, LiveInv, ports
  <1>4. ASSUME pc[h] \in Stopping, UNCHANGED suspended, NEW l, pc' = pc \/ Goto(h, l)
        PROVE  Alone(h, 1)'
    <2>1. Alone(h, 1)
      BY <1>4 DEF Orderly, OneAtWork
    <2>2. \A a \in Actors \ {h} : pc'[a] = pc[a]
      BY <1>4 DEF Goto, PlacesInv
    <2> QED
      BY <1>4, <2>1, <2>2, AloneStays
  <1>5. CASE Loop(h) \/ Receive(h) \/ Unlock(h) \/ ResumeThreads(h)
    <2>1. PICK l \in HandlerPlaces :
             /\ (pc' = pc /\ pc[h] = "loop") \/ Goto(h, l)
             /\ l \in {"loop", "none", "receive", "suspend", "unlock"}
             /\ UNCHANGED ports
      <3>1. CASE Loop(h)
        BY <3>1 DEF Loop, At, HandlerPlaces
      <3>2. CASE Receive(h)
        BY <3>2 DEF Receive, HandlerPlaces
      <3>3. CASE Unlock(h) \/ ResumeThreads(h)
        BY <3>3 DEF Unlock, ResumeThreads, HandlerPlaces
      <3> QED
        BY <1>5, <3>1, <3>2, <3>3
    <2>2. pc'[h] \notin Stopping \cup {"faulted"}
      BY <1>c, <2>1 DEF Goto, PlacesInv, Stopping
    <2> QED
      BY <1>3, <2>1, <2>2
  <1>6. CASE SuspendThreads(h)
    <2>1. /\ Goto(h, "write") /\ UNCHANGED ports
          /\ suspended' = [a \in Actors |-> IF a = h \/ pc[a] = "none" THEN suspended[a]
                                            ELSE suspended[a] + 1]
      BY <1>6 DEF SuspendThreads
    <2>2. Alone(h, 1)'
      <3>1. \A a \in Actors \ {h} : pc'[a] = pc[a]
        BY <2>1 DEF Goto, PlacesInv
      <3>2. \A a \in Actors \ {h} : pc[a] # "none" => suspended'[a] = suspended[a] + 1
        BY <2>1
      <3>3. \A a \in Actors : suspended[a] \in Nat
        BY DEF PlacesInv
      <3>4. \A a \in Actors \ {h} : pc'[a] = "none" \/ suspended'[a] >= 1
        BY <3>1, <3>2, <3>3
      <3> QED
        BY <3>4 DEF Alone, Actors
    <2> QED
      BY <1>3, <2>1, <2>2 DEF HandlerPlaces
  <1>7. CASE Write(h) \/ NothingToAsk(h) \/ Callback(h) \/ AskServer(h)
             \/ \E ok \in BOOLEAN : ServerAnswers(h, ok)
    <2>1. PICK l \in HandlerPlaces :
             /\ pc' = pc \/ Goto(h, l)
             /\ l \in Stopping /\ pc[h] \in Stopping
             /\ UNCHANGED <<ports, suspended>>
      BY <1>7 DEF Write, NothingToAsk, Callback, AskServer, ServerAnswers, At, Stopping,
                  HandlerPlaces
    <2> QED
      BY <1>3, <1>4, <2>1 DEF Stopping
  <1>8. CASE UninstallAndForward(h)
    <2>1. /\ UNCHANGED suspended /\ pc[h] = "written"
          /\ (pc' = pc /\ proc' = "exit") \/ Goto(h, "await")
      BY <1>8 DEF UninstallAndForward, At
    <2>2. Alone(h, 1)'
      BY <1>4, <2>1 DEF Stopping
    <2>3. proc' # "alive" \/ pc'[h] \notin Stopping
      BY <1>c, <2>1 DEF Goto, PlacesInv, Stopping
    <2> QED
      BY <2>2, <2>3 DEF Frozen, Stopping
  <1>9. CASE OuterAnswers(h)
    BY <1>1, <1>9 DEF OuterAnswers, At
  <1> QED
    BY <1>5, <1>6, <1>7, <1>8, <1>9 DEF WaitForMessage

\* How many times a handler's thread has suspended the others, for certain.
Level(h) == IF proc = "alive" /\ pc[h] \in Stopping THEN 2 ELSE 1

\* What is frozen stays so if nobody is resumed who may run then.
LEMMA FrozenStays ==
    ASSUME PlacesInv, NEW h \in Handlers, proc = "alive", Alone(h, Level(h)),
           UNCHANGED suspended, \A a \in Actors \ {h} : pc[a] = "none" => pc'[a] = "none",
           proc' = "alive" /\ pc'[h] \in Stopping => pc[h] \in Stopping
    PROVE  Frozen'
  <1>1. \A a \in Actors : suspended[a] \in Nat
    BY DEF PlacesInv
  <1>2. \A a \in Actors \ {h} : pc'[a] = "none" \/ suspended'[a] >= 1
    BY <1>1 DEF Alone, Level
  <1>3. pc[h] \in Stopping => \A a \in Actors \ {h} : pc'[a] = "none" \/ suspended'[a] >= 2
    BY DEF Alone, Level
  <1>4. Alone(h, 1)' /\ (pc[h] \in Stopping => Alone(h, 2)')
    BY <1>2, <1>3 DEF Alone, Actors
  <1> QED
    BY <1>4 DEF Frozen, Stopping

\* Nothing but the handler's thread goes on.
LEMMA FrozenSteps ==
    ASSUME PlacesInv, MessageInv, Frozen, proc = "alive", NEW g \in Handlers, HandlerStep(g)
    PROVE  Frozen'
  <1>1. PICK h \in Handlers : Alone(h, Level(h))
    BY DEF Frozen, Level
  <1>2. Alone(h, 1)
    <2>1. \A a \in Actors : suspended[a] \in Nat
      BY DEF PlacesInv
    <2> QED
      BY <1>1, <2>1 DEF Alone, Level
  <1>c. h \in Actors /\ g \in Actors /\ \A x \in Threads : x \notin Handlers
    BY Constants
  <1>3. CASE ChildFaults(g)
    BY <1>1, <1>3, FrozenStays DEF ChildFaults
  <1>4. CASE Lifecycle(g)
    <2>1. suspended[Owner] = 0
      BY <1>4 DEF Lifecycle, Construct, Uninstall, Teardown, At
    <2> QED
      BY <2>1, FrozenThread, Constants
  <1>5. ASSUME WaitForMessage(g) \/ AskServer(g) \/ \E ok \in BOOLEAN : ServerAnswers(g, ok)
        PROVE  suspended[h] = 0 /\ h = g
    <2>1. suspended[g] = 0 /\ pc[g] # "none"
      BY <1>5 DEF WaitForMessage, Loop, Receive, SuspendThreads, Write, NothingToAsk,
                  Callback, ResumeThreads, Unlock, UninstallAndForward, OuterAnswers,
                  AskServer, ServerAnswers, At
    <2> QED
      BY <1>2, <1>c, <2>1, NobodyElse
  <1>6. ASSUME UNCHANGED suspended, NEW l, pc' = pc \/ Goto(h, l),
               proc' = "alive" /\ l \in Stopping => pc[h] \in Stopping
        PROVE  Frozen'
    <2>1. (\A a \in Actors \ {h} : pc'[a] = pc[a]) /\ (pc'[h] = pc[h] \/ pc'[h] = l)
      <3>1. CASE pc' = pc
        BY <3>1
      <3>2. CASE Goto(h, l)
        BY <1>c, <3>2 DEF Goto, PlacesInv
      <3> QED
        BY <1>6, <3>1, <3>2
    <2> QED
      BY <1>1, <1>6, <2>1, FrozenStays
  <1>7. CASE h = g /\ (Loop(g) \/ Receive(g) \/ Unlock(g))
    <2>1. PICK l : l \notin Stopping /\ (pc' = pc \/ Goto(h, l)) /\ UNCHANGED suspended
      <3>1. CASE Loop(g)
        BY <1>7, <3>1 DEF Loop, Stopping
      <3>2. CASE Receive(g)
        BY <1>7, <3>2 DEF Receive, Stopping
      <3>3. CASE Unlock(g)
        BY <1>7, <3>3 DEF Unlock, Stopping
      <3> QED
        BY <1>7, <3>1, <3>2, <3>3
    <2> QED
      BY <1>6, <2>1
  <1>8. CASE h = g /\ (Write(g) \/ NothingToAsk(g) \/ Callback(g) \/ AskServer(g)
                       \/ \E ok \in BOOLEAN : ServerAnswers(g, ok))
    <2>1. PICK l : pc[h] \in Stopping /\ (pc' = pc \/ Goto(h, l)) /\ UNCHANGED suspended
      BY <1>8 DEF Write, NothingToAsk, Callback, AskServer, ServerAnswers, At, Stopping
    <2> QED
      BY <1>6, <2>1
  <1>9. CASE h = g /\ UninstallAndForward(g)
    <2>1. pc[h] \in Stopping /\ (pc' = pc \/ Goto(h, "await")) /\ UNCHANGED suspended
      BY <1>9 DEF UninstallAndForward, At, Stopping
    <2> QED
      BY <1>6, <2>1
  <1>10. CASE h = g /\ SuspendThreads(g)
    <2>1. /\ Goto(h, "write")
          /\ suspended' = [a \in Actors |-> IF a = h \/ pc[a] = "none" THEN suspended[a]
                                            ELSE suspended[a] + 1]
      BY <1>10 DEF SuspendThreads
    <2>2. \A a \in Actors \ {h} : pc'[a] = pc[a]
      BY <2>1 DEF Goto, PlacesInv
    <2>3. \A a \in Actors \ {h} : pc[a] # "none" => suspended'[a] = suspended[a] + 1
      BY <2>1
    <2>4. \A a \in Actors : suspended[a] \in Nat
      BY DEF PlacesInv
    <2>5. \A a \in Actors \ {h} : pc'[a] = "none" \/ (suspended'[a] >= 2 /\ suspended'[a] >= 1)
      BY <1>2, <2>2, <2>3, <2>4 DEF Alone
    <2>6. Alone(h, 1)' /\ Alone(h, 2)'
      BY <2>5 DEF Alone, Actors
    <2> QED
      BY <2>6 DEF Frozen
  <1>11. CASE h = g /\ ResumeThreads(g)
    <2>1. /\ Goto(h, "unlock") /\ pc[h] = "written"
          /\ suspended' = [a \in Actors |-> IF a = h \/ suspended[a] = 0 THEN suspended[a]
                                            ELSE suspended[a] - 1]
      BY <1>11 DEF ResumeThreads, At
    <2>2. (\A a \in Actors \ {h} : pc'[a] = pc[a]) /\ pc'[h] \notin Stopping
      BY <1>c, <2>1 DEF Goto, PlacesInv, Stopping
    <2>3. \A a \in Actors : suspended[a] \in Nat
      BY DEF PlacesInv
    <2>4. \A a \in Actors \ {h} : pc[a] = "none" \/ suspended[a] >= 2
      BY <1>1, <2>1 DEF Alone, Level, Stopping
    <2>5. \A a \in Actors \ {h} : pc'[a] = "none" \/ suspended'[a] >= 1
      BY <2>1, <2>2, <2>3, <2>4
    <2>6. Alone(h, 1)'
      BY <2>5 DEF Alone, Actors
    <2> QED
      BY <2>2, <2>6 DEF Frozen, Stopping
  <1>12. CASE h = g /\ OuterAnswers(g)
    <2>1. CASE UNCHANGED pc
      BY <1>6, <1>12, <2>1 DEF OuterAnswers
    <2>2. CASE pc' = [pc EXCEPT ![h] = "loop", ![cur[h][2]] = "run"]
      <3>1. pc[h] = "await" /\ UNCHANGED suspended
        BY <1>12 DEF OuterAnswers, At
      <3>2. PICK m : m = cur[h]
        OBVIOUS
      <3>3. m \in Messages /\ m[1] = "exception" /\ FromFaulted(m)
        BY <3>1, <3>2 DEF MessageInv, AtWork
      <3>4. PICK a \in Actors : a = m[2]
        BY <3>3 DEF Messages
      <3>5. pc[a] # "none" /\ a # h
        <4>1. CASE a \in Handlers
          BY <3>1, <3>3, <3>4, <4>1 DEF FromFaulted
        <4>2. CASE a \in Threads
          BY <1>c, <4>2, OwnerRuns
        <4> QED
          BY <4>1, <4>2, Constants
      <3>6. pc' = [pc EXCEPT ![h] = "loop", ![a] = "run"]
        BY <2>2, <3>2, <3>4
      <3>7. pc'[h] = "loop" /\ \A x \in Actors \ {h, a} : pc'[x] = pc[x]
        BY <1>c, <3>5, <3>6 DEF PlacesInv
      <3>8. \A x \in Actors \ {h} : pc[x] = "none" => pc'[x] = "none"
        BY <3>5, <3>7
      <3> QED
        BY <1>1, <3>1, <3>7, <3>8, FrozenStays DEF Stopping
    <2> QED
      BY <1>12, <2>1, <2>2 DEF OuterAnswers
  <1> QED
    BY <1>3, <1>4, <1>5, <1>7, <1>8, <1>9, <1>10, <1>11, <1>12 DEF HandlerStep, WaitForMessage

\* The handler's thread may have an exception of its own.
LEMMA FrozenFault ==
    ASSUME PlacesInv, Frozen, proc = "alive", NEW a \in Actors, Fault(a)
    PROVE  Frozen'
  <1>1. PICK h \in Handlers : Alone(h, Level(h))
    BY DEF Frozen, Level
  <1>2. /\ UNCHANGED suspended /\ pc[a] # "none"
        /\ pc' = pc \/ pc' = [pc EXCEPT ![a] = "faulted"]
    BY DEF Fault, At, Goto
  <1>3. \A x \in Actors : pc[x] = "none" => pc'[x] = "none"
    BY <1>2 DEF PlacesInv
  <1>4. pc'[h] = pc[h] \/ pc'[h] = "faulted"
    BY <1>2, Constants DEF PlacesInv
  <1> QED
    BY <1>1, <1>2, <1>3, <1>4, FrozenStays DEF Stopping

-----------------------------------------------------------------------------
(* The theorem. *)

\* At first there is no handler, and the port is the original one.
LEMMA InitOrdered == InitAll => PortsInv
  <1>1. SUFFICES ASSUME Init PROVE PortsInv
    BY DEF InitAll
  <1>2. PlacesInv
    <2>1. \A x \in Actors : x \in Threads \/ x \in Handlers
      BY Constants
    <2>2. <<>> \in Seq(Handlers) /\ <<>> \in Seq(Messages)
      OBVIOUS
    <2>3. Original \subseteq {"outer"}
      BY Constants
    <2> QED
      BY <1>1, <2>1, <2>2, <2>3, Constants DEF Init, PlacesInv, ThreadPlaces, HandlerPlaces
  <1>3. \A h \in Handlers : h \in Actors /\ pc[h] = "none" /\ Len(queue[h]) = 0
    BY <1>1, Constants DEF Init
  <1>4. MessageInv
    BY <1>3 DEF MessageInv, AtWork, Stopping
  <1>5. ChainInv /\ LiveInv
    <2>1. /\ Len(order) = 0 /\ port = Original /\ installed = {}
          /\ \A h \in Handlers : life[h] = "none"
      BY <1>1 DEF Init
    <2>2. TopIs(port, order, installed, Len(order))
      BY <2>1 DEF TopIs
    <2> QED
      BY <2>1, <2>2 DEF ChainInv, LiveInv
  <1>6. OneAtWork
    BY <1>3 DEF OneAtWork, Stopping
  <1> QED
    BY <1>2, <1>4, <1>5, <1>6 DEF PortsInv, Orderly

\* Every step keeps order, or what is frozen.
LEMMA NextOrdered ==
    ASSUME PortsInv, [Next]_allVars
    PROVE  PortsInv'
  <1>1. CASE UNCHANGED vars
    <2>1. PlacesInv' /\ MessageInv'
      BY <1>1, StandingStill DEF vars, PortsInv
    <2>2. CASE Orderly
      <3>1. (Lifo => ChainInv') /\ LiveInv'
        BY <1>1, <2>2, ChainStays DEF vars, ports, Orderly, LiveInv, PortsInv
      <3>2. OneAtWork'
        BY <1>1, <2>2 DEF vars, Orderly, OneAtWork, Alone, Actors, Stopping
      <3> QED
        BY <2>1, <3>1, <3>2 DEF PortsInv, Orderly
    <2>3. CASE Frozen
      BY <1>1, <2>1, <2>3 DEF vars, Frozen, Alone, Actors, Stopping, PortsInv
    <2> QED
      BY <2>2, <2>3 DEF PortsInv
  <1>2. ASSUME proc = "alive", NEW t \in Threads, ThreadStep(t)
        PROVE  PortsInv'
    <2>1. suspended[t] = 0
      BY <1>2 DEF ThreadStep, Begin, LockAndSend, Finish, WriteMinidump, At
    <2> QED
      BY <1>2, <2>1, FrozenThread, ThreadKeepsPlaces, ThreadKeepsOrder DEF PortsInv
  <1>3. ASSUME proc = "alive", NEW a \in Actors, Fault(a)
        PROVE  PortsInv'
    BY <1>3, FaultKeepsPlaces, FaultKeepsOrder, FrozenFault DEF PortsInv
  <1>4. ASSUME proc = "alive", NEW h \in Handlers, HandlerStep(h)
        PROVE  PortsInv'
    <2>1. CASE Orderly /\ (Lifecycle(h) \/ ChildFaults(h))
      <3>1. h \in {order[i] : i \in DOMAIN order} \/ life[h] # "alive"
        <4>1. DOMAIN order = 1..Len(order)
          BY DEF PortsInv, PlacesInv
        <4> QED
          BY <2>1, <4>1 DEF Orderly, LiveInv
      <3>2. PlacesInv' /\ MessageInv'
        BY <2>1, <3>1, LifecycleKeepsPlaces DEF PortsInv
      <3>3. CASE Lifecycle(h)
        BY <2>1, <3>2, <3>3, LifecycleKeepsOrder DEF PortsInv
      <3>4. CASE ChildFaults(h)
        <4>1. UNCHANGED <<ports, pc, suspended>>
          BY <3>4 DEF ChildFaults
        <4>2. (Lifo => ChainInv') /\ LiveInv'
          BY <2>1, <4>1, ChainStays DEF ports, Orderly, LiveInv, PortsInv
        <4>3. OneAtWork'
          BY <2>1, <4>1 DEF Orderly, OneAtWork, Alone, Actors, Stopping
        <4> QED
          BY <3>2, <4>2, <4>3 DEF PortsInv, Orderly
      <3> QED
        BY <2>1, <3>3, <3>4
    <2>2. CASE Frozen /\ (Lifecycle(h) \/ ChildFaults(h))
      <3>1. CASE Lifecycle(h)
        <4>1. suspended[Owner] = 0
          BY <3>1 DEF Lifecycle, Construct, Uninstall, Teardown, At
        <4> QED
          BY <2>2, <4>1, FrozenThread, Constants DEF PortsInv
      <3>2. CASE ChildFaults(h)
        <4>1. PlacesInv' /\ MessageInv'
          BY <3>2, ChildKeepsPlaces DEF PortsInv
        <4> QED
          BY <1>4, <2>2, <4>1, FrozenSteps DEF PortsInv
      <3> QED
        BY <2>2, <3>1, <3>2
    <2>3. CASE WaitForMessage(h) \/ AskServer(h) \/ \E ok \in BOOLEAN : ServerAnswers(h, ok)
      <3>1. PlacesInv' /\ MessageInv'
        BY <2>3, WorkKeepsPlaces, ReceiveKeepsPlaces, ForwardKeepsPlaces, AnswerKeepsPlaces
           DEF PortsInv, WaitForMessage
      <3> QED
        BY <1>4, <2>3, <3>1, WorkKeepsOrder, FrozenSteps DEF PortsInv
    <2> QED
      BY <1>4, <2>1, <2>2, <2>3 DEF HandlerStep, PortsInv
  <1> QED
    BY <1>1, <1>2, <1>3, <1>4, StepsAre

\* UninstallHandler gives the task back the port it had: whatever exceptions are raised,
\* dumped and forwarded in between, and whatever the server does, while the program's
\* threads run the task's port is that of the newest handler installed.
THEOREM PortsComeBack == ASSUME Lifo PROVE Spec => []PortsAgree
  <1>1. PortsInv => PortsAgree
    <2> SUFFICES ASSUME PortsInv, \A a \in Actors : suspended[a] = 0 PROVE PortsAgree
      BY DEF PortsAgree
    <2>1. Orderly
      BY Constants, FrozenThread DEF PortsInv
    <2>2. DOMAIN order = 1..Len(order) /\ Len(order) \in Nat
      BY DEF PortsInv, PlacesInv
    <2>3. TopIs(port, order, installed, Len(order))
      BY <2>1 DEF Orderly, ChainInv
    <2>4. ASSUME NEW j \in 1..Len(order), order[j] \in installed, port = {order[j]},
                 \A l \in (j + 1)..Len(order) : order[l] \notin installed
          PROVE  NewestAt(j)
      <3>1. \A l \in 1..Len(order) : l > j => l \in (j + 1)..Len(order)
        BY <2>2
      <3> QED
        BY <2>2, <2>4, <3>1 DEF NewestAt
    <2> QED
      BY <2>2, <2>3, <2>4 DEF TopIs, PortsAgree
  <1>2. PortsInv /\ [Next]_allVars => PortsInv'
    BY NextOrdered
  <1> QED
    BY <1>1, <1>2, InitOrdered, PTL DEF Spec
-----------------------------------------------------------------------------
(* What WriteMinidump returns. *)

\* Requests for a dump, and what is on its way.
Dumps == {<<kind, a>> : kind \in {"dump", "dumpx"}, a \in Actors}
InQueue(m) == \E h \in Handlers : \E i \in 1..Len(queue[h]) : queue[h][i] = m
Pending(m) == InQueue(m) \/ \E h \in Handlers : cur[h] = m

\* A request that a handler's thread has not answered holds the mutex, and there is one
\* at a time; there is none once an identifier was used up, and nobody unlocks the mutex
\* after that.
MutexInv(h) ==
    /\ \A i, j \in 1..Len(queue[h]) : queue[h][i] \in Dumps /\ queue[h][j] \in Dumps => i = j
    /\ \A i \in 1..Len(queue[h]) : queue[h][i] \in Dumps =>
          cur[h] \notin Dumps /\ h \in mutex /\ nextId[h] = 0
    /\ cur[h] \in Dumps => h \in mutex /\ nextId[h] = 0
    /\ nextId[h] # 0 => h \in mutex
    /\ pc[h] \in AtWork => cur[h][1] = "exception" \/ cur[h] \in Dumps
    /\ pc[h] = "unlock" => cur[h] \in Dumps

\* The dump of a handler's last request, or of its name, was tried or written: what a
\* result that is kept stands for.  A handler of the server's may be at its next request;
\* but then it stores another result, or nobody goes on.
Done(h) == IF h \in Remote THEN <<h, number[h]>> \in tried ELSE <<h, 0>> \in files
Asked(h) == h \in Remote /\ pc[h] \in {"asking", "written"}
ResultInv(h) ==
    /\ h \in Remote => pc[h] # "callback"
    /\ pc[h] \in {"callback", "written"} /\ cur[h] \in Dumps /\ h \in result => Done(h)
    /\ h \in last => Done(h) \/ Asked(h) \/ Frozen

\* The server has tried what it acknowledges.
ServerInv ==
    /\ number \in [Remote -> Nat]
    /\ req \in [Remote -> {"idle", "sent", "true", "false"}]
    /\ acked \subseteq tried
    /\ server \in {"callback", "ack"} => job \in tried
    /\ \A c \in Remote : req[c] = "true" => <<c, number[c]>> \in tried

\* Who raised an exception stands still, for good if another process has handled it; and
\* who has called WriteMinidump knows of which handler.
Still(t) == pc[t] = "faulted" \/ (pc[t] = "run" /\ Frozen)
ThreadInv(t) ==
    /\ Pending(<<"exception", t>>) => Still(t)
    /\ pc[t] \in {"begin", "lock1", "lock2"} => doing[t] \in Handlers

TypesInv ==
    /\ nextId \in [Handlers -> Nat] /\ doing \in [Threads -> Handlers \cup {NoCall}]
    /\ mutex \subseteq Handlers

AnswerInv ==
    /\ PortsInv /\ ServerInv /\ TypesInv
    /\ \A h \in Handlers : MutexInv(h) /\ ResultInv(h)
    /\ \A t \in Threads : ThreadInv(t)

\* What the server does leaves a request's dump tried, and a request has the number it
\* was given until the next.
LEMMA ServerKeeps ==
    ASSUME ServerInv, [Next]_allVars
    PROVE  /\ ServerInv' /\ tried \subseteq tried'
           /\ \A c \in Remote : number'[c] = number[c] \/ Ask(c)
  <1>1. CASE UNCHANGED cgVars
    BY <1>1 DEF cgVars, ServerInv
  <1>2. ASSUME NEW h \in Remote, Ask(h)
        PROVE  /\ ServerInv' /\ tried \subseteq tried'
               /\ \A c \in Remote : number'[c] = number[c] \/ Ask(c)
    <2>1. /\ number' = [number EXCEPT ![h] = @ + 1]
          /\ \E r \in {"sent", "false"} : req' = [req EXCEPT ![h] = r]
          /\ UNCHANGED <<acked, server, job, tried>>
      BY <1>2 DEF Ask, CG!RequestDump
    <2>2. /\ number' \in [Remote -> Nat] /\ \A c \in Remote \ {h} : number'[c] = number[c]
          /\ req' \in [Remote -> {"idle", "sent", "true", "false"}]
          /\ req'[h] # "true" /\ \A c \in Remote \ {h} : req'[c] = req[c]
      BY <2>1 DEF ServerInv
    <2> QED
      BY <1>2, <2>1, <2>2 DEF ServerInv
  <1>3. ASSUME NEW h \in Remote, Wait(h) \/ Answered(h)
        PROVE  ServerInv' /\ UNCHANGED <<tried, number>>
    <2>1. PICK r \in {"idle", "true", "false"} : req' = [req EXCEPT ![h] = r]
      BY <1>3 DEF Wait, Answered, CG!Acknowledged, CG!TimesOut, CG!Return
    <2>2. /\ UNCHANGED <<number, acked, server, job, tried>>
          /\ r = "true" => <<h, number[h]>> \in acked
      <3>1. CASE Wait(h)
        BY <2>1, <3>1 DEF Wait, CG!Acknowledged, CG!TimesOut, ServerInv
      <3>2. CASE Answered(h)
        BY <2>1, <3>2 DEF Answered, CG!Return, ServerInv
      <3> QED
        BY <1>3, <3>1, <3>2
    <2>3. /\ req' \in [Remote -> {"idle", "sent", "true", "false"}]
          /\ req'[h] = r /\ \A c \in Remote \ {h} : req'[c] = req[c]
      BY <2>1 DEF ServerInv
    <2> QED
      BY <2>2, <2>3 DEF ServerInv
  <1>4. CASE Server
    <2>1. UNCHANGED <<number, req>>
      BY <1>4 DEF Server, CG!Receive, CG!Dump, CG!Callback, CG!Ack, CG!ask
    <2>2. /\ tried \subseteq tried' /\ acked' \subseteq tried'
          /\ server' \in {"callback", "ack"} => job' \in tried'
      BY <1>4 DEF Server, CG!Receive, CG!Dump, CG!Callback, CG!Ack, ServerInv
    <2> QED
      BY <2>1, <2>2 DEF ServerInv
  <1>5. CASE ServerOwner \/ ServerDies
    <2>1. /\ UNCHANGED <<number, req, acked, job, tried>>
          /\ server' = server \/ server' \in {"receive", "none"}
      BY <1>5 DEF ServerOwner, ServerDies, CG!Own, CG!Start, CG!Stop, CG!Destroy, CG!Join,
                  CG!ServerDies, CG!ask
    <2> QED
      BY <2>1 DEF ServerInv
  <1> QED
    BY <1>1, <1>2, <1>3, <1>4, <1>5 DEF Next, Client, allVars

\* What is frozen stays so, whatever the step.
LEMMA FrozenForGood ==
    ASSUME PortsInv, Frozen, [Next]_allVars
    PROVE  Frozen'
  <1>1. CASE UNCHANGED vars
    BY <1>1 DEF vars, Frozen, Alone, Actors, Stopping
  <1>2. ASSUME NEW t \in Threads, ThreadStep(t)
        PROVE  FALSE
    <2>1. suspended[t] = 0
      BY <1>2 DEF ThreadStep, Begin, LockAndSend, Finish, WriteMinidump, At
    <2> QED
      BY <2>1, FrozenThread DEF PortsInv
  <1> QED
    BY <1>1, <1>2, StepsAre, FrozenFault, FrozenSteps DEF PortsInv

\* A handler that waits for the answer of another has everybody suspended.
LEMMA AwaitIsFrozen ==
    ASSUME PortsInv, NEW h \in Handlers, pc[h] = "await"
    PROVE  Frozen
  BY DEF PortsInv, Orderly, OneAtWork

\* A message at the end of a queue.
LEMMA SendsToEnd ==
    ASSUME PlacesInv, NEW h \in Handlers, NEW m \in Messages, Send(h, m)
    PROVE  /\ \A g \in Handlers \ {h} : queue'[g] = queue[g]
           /\ Len(queue'[h]) = Len(queue[h]) + 1 /\ Len(queue[h]) \in Nat
           /\ \A i \in 1..Len(queue[h]) : queue'[h][i] = queue[h][i]
           /\ queue'[h][Len(queue[h]) + 1] = m
  <1>1. /\ queue' = [queue EXCEPT ![h] = Append(queue[h], m)]
        /\ queue \in [Handlers -> Seq(Messages)]
    BY DEF Send, PlacesInv
  <1>2. /\ Len(queue[h]) \in Nat /\ Len(Append(queue[h], m)) = Len(queue[h]) + 1
        /\ \A i \in 1..Len(queue[h]) : Append(queue[h], m)[i] = queue[h][i]
        /\ Append(queue[h], m)[Len(queue[h]) + 1] = m
    BY <1>1, AppendProperties, LenProperties
  <1> QED
    BY <1>1, <1>2

\* A message taken from its front.
LEMMA TakesFromFront ==
    ASSUME PlacesInv, NEW h \in Handlers, queue[h] # <<>>,
           queue' = [queue EXCEPT ![h] = Tail(@)]
    PROVE  /\ Head(queue[h]) = queue[h][1] /\ 1 \in 1..Len(queue[h])
           /\ Head(queue[h]) \in Messages
           /\ \A g \in Handlers \ {h} : queue'[g] = queue[g]
           /\ Len(queue'[h]) = Len(queue[h]) - 1 /\ Len(queue[h]) \in Nat
           /\ \A i \in 1..Len(queue'[h]) : queue'[h][i] = queue[h][i + 1]
  <1>1. queue \in [Handlers -> Seq(Messages)] /\ queue[h] \in Seq(Messages)
    BY DEF PlacesInv
  <1>2. /\ Head(queue[h]) = queue[h][1] /\ 1 \in 1..Len(queue[h])
        /\ Head(queue[h]) \in Messages
        /\ Len(Tail(queue[h])) = Len(queue[h]) - 1 /\ Len(queue[h]) \in Nat
        /\ \A i \in 1..Len(Tail(queue[h])) : Tail(queue[h])[i] = queue[h][i + 1]
    BY <1>1, HeadTailProperties, LenProperties
  <1> QED
    BY <1>1, <1>2

\* No request for a dump is new in the queue of h.
Quiet(h) == \A i \in 1..Len(queue'[h]) :
    queue'[h][i] \in Dumps => i \in 1..Len(queue[h]) /\ queue'[h][i] = queue[h][i]

\* So it is when a message of another kind is sent.
LEMMA QuietSend ==
    ASSUME PlacesInv, NEW g \in Handlers, NEW m \in Messages, m \notin Dumps, Send(g, m)
    PROVE  \A h \in Handlers : Quiet(h)
  BY SendFacts DEF Quiet

\* The kinds of messages.
LEMMA OtherMessages ==
    /\ <<>> \notin Dumps
    /\ <<"child">> \in Messages \ Dumps /\ <<"shutdown">> \in Messages \ Dumps
    /\ \A a \in Actors : <<"exception", a>> \in Messages \ Dumps
    /\ Dumps \subseteq Messages /\ Dumps' = Dumps
    /\ \A m \in Dumps : m[1] \in {"dump", "dumpx"}
    /\ \A m \in Messages : m[1] \in {"exception", "shutdown", "child"} \/ m \in Dumps
    /\ \A m \in Messages : m[1] = "exception" => \E a \in Actors : m = <<"exception", a>>
  BY DEF Dumps, Messages, Actors

\* Handlers' threads, and those who construct and destroy handlers, request no dump.
LEMMA HandlersAreQuiet ==
    ASSUME PlacesInv, MessageInv, NEW g \in Handlers, HandlerStep(g), ~Receive(g)
    PROVE  \A h \in Handlers : Quiet(h)
  <1>1. CASE queue' = queue
    BY <1>1 DEF Quiet
  <1>2. CASE ChildFaults(g) \/ Teardown(g)
    <2>1. Send(g, <<"child">>) \/ Send(g, <<"shutdown">>)
      BY <1>2 DEF ChildFaults, Teardown
    <2> QED
      BY <2>1, QuietSend, OtherMessages
  <1>3. CASE UninstallAndForward(g)
    <2>1. pc[g] = "written" /\ IsException(g)
      BY <1>3 DEF UninstallAndForward, At
    <2>2. PICK a \in Actors : cur[g] = <<"exception", a>>
      BY <2>1, OtherMessages DEF MessageInv, AtWork, Stopping, IsException
    <2>3. queue' = queue \/ \E h \in Handlers : Send(h, <<"exception", a>>)
      BY <1>3, <2>2 DEF UninstallAndForward
    <2> QED
      BY <1>1, <2>3, QuietSend, OtherMessages
  <1> QED
    BY <1>1, <1>2, <1>3 DEF HandlerStep, WaitForMessage, Lifecycle, Construct, Uninstall, Loop,
       SuspendThreads, Write, NothingToAsk, Callback, ResumeThreads, Unlock, OuterAnswers,
       AskServer, ServerAnswers

\* What a handler's thread has to do with the others.
LEMMA Elsewhere ==
    ASSUME PlacesInv, MessageInv, NEW g \in Handlers, HandlerStep(g), NEW h \in Handlers \ {g}
    PROVE  /\ Quiet(h) /\ cur'[h] = cur[h] /\ nextId'[h] = nextId[h]
           /\ pc'[h] = pc[h] \/ (pc'[h] = "run" /\ pc[g] = "await")
           /\ h \in mutex' <=> h \in mutex
           /\ h \in result' <=> h \in result
           /\ h \in last' <=> h \in last
  <1>c. g \in Actors /\ h \in Actors /\ g # h
    BY Constants
  <1>1. Quiet(h)
    <2>1. CASE Receive(g)
      <3>1. queue' = [queue EXCEPT ![g] = Tail(@)]
        BY <2>1 DEF Receive
      <3> QED
        BY <3>1 DEF PlacesInv, Quiet
    <2> QED
      BY <2>1, HandlersAreQuiet
  <1>2. /\ cur' = cur \/ \E m : cur' = [cur EXCEPT ![g] = m]
        /\ UNCHANGED nextId
        /\ mutex' = mutex \/ mutex' = mutex \ {g}
        /\ last' = last \/ last' = last \cup {g} \/ last' = last \ {g}
        /\ result' = result \/ result' = result \cup {g} \/ result' = result \ {g}
    BY DEF HandlerStep, WaitForMessage, Lifecycle, ChildFaults, Construct, Uninstall, Teardown,
       Loop, Receive, SuspendThreads, Write, NothingToAsk, Callback, ResumeThreads, Unlock,
       UninstallAndForward, OuterAnswers, AskServer, ServerAnswers, minidump
  <1>3. \/ pc' = pc \/ \E l : Goto(g, l)
        \/ pc[g] = "await" /\ pc' = [pc EXCEPT ![g] = "loop", ![cur[g][2]] = "run"]
    BY DEF HandlerStep, WaitForMessage, Lifecycle, ChildFaults, Construct, Uninstall, Teardown,
       Loop, Receive, SuspendThreads, Write, NothingToAsk, Callback, ResumeThreads, Unlock,
       UninstallAndForward, OuterAnswers, AskServer, ServerAnswers, At
  <1>4. pc'[h] = pc[h] \/ (pc'[h] = "run" /\ pc[g] = "await")
    BY <1>c, <1>3 DEF Goto, PlacesInv
  <1>5. cur'[h] = cur[h]
    BY <1>2 DEF PlacesInv
  <1> QED
    BY <1>1, <1>2, <1>4, <1>5

\* The mutex is held as it was if there is nothing new to do.
LEMMA QuietMutex ==
    ASSUME NEW h \in Handlers, MutexInv(h), Quiet(h),
           cur'[h] = cur[h] \/ cur'[h] = <<>>, nextId'[h] = nextId[h], h \in mutex => h \in mutex',
           pc'[h] \in AtWork => pc[h] \in AtWork /\ cur'[h] = cur[h],
           pc'[h] = "unlock" =>
              /\ cur'[h] = cur[h]
              /\ pc[h] = "unlock" \/ (pc[h] \in AtWork /\ cur[h][1] # "exception")
    PROVE  MutexInv(h)'
  <1>1. Dumps' = Dumps /\ <<>> \notin Dumps
    BY OtherMessages
  <1>2. \A i, j \in 1..Len(queue'[h]) : queue'[h][i] \in Dumps /\ queue'[h][j] \in Dumps => i = j
    BY DEF MutexInv, Quiet
  <1>3. \A i \in 1..Len(queue'[h]) : queue'[h][i] \in Dumps =>
           cur'[h] \notin Dumps /\ h \in mutex' /\ nextId'[h] = 0
    BY <1>1 DEF MutexInv, Quiet
  <1>4. /\ cur'[h] \in Dumps => h \in mutex' /\ nextId'[h] = 0
        /\ nextId'[h] # 0 => h \in mutex'
        /\ pc'[h] \in AtWork => cur'[h][1] = "exception" \/ cur'[h] \in Dumps
        /\ pc'[h] = "unlock" => cur'[h] \in Dumps
    BY <1>1 DEF MutexInv
  <1> QED
    BY <1>1, <1>2, <1>3, <1>4 DEF MutexInv

\* The program's threads take the mutex when nothing is asked of its handler.
LEMMA ThreadKeepsMutex ==
    ASSUME PlacesInv, TypesInv, NEW t \in Threads, ThreadInv(t), ThreadStep(t),
           NEW h \in Handlers, MutexInv(h)
    PROVE  MutexInv(h)'
  <1>c. t \in Actors /\ h \in Actors /\ t # h
    BY Constants
  <1>1. /\ cur' = cur /\ pc'[h] = pc[h] /\ mutex \subseteq mutex'
    BY <1>c DEF ThreadStep, Begin, LockAndSend, Finish, WriteMinidump, Goto, PlacesInv, minidump
  <1>2. CASE queue' = queue /\ nextId'[h] = nextId[h]
    BY <1>1, <1>2, QuietMutex DEF Quiet
  <1>3. CASE Begin(t) \/ \E g \in Handlers : WriteMinidump(t, g)
    BY <1>2, <1>3 DEF Begin, WriteMinidump, minidump
  <1>4. CASE LockAndSend(t)
    <2>1. PICK d \in Handlers : d = doing[t]
      BY <1>4 DEF LockAndSend, At, ThreadInv
    <2>2. d \notin mutex /\ mutex' = mutex \cup {d} /\ UNCHANGED nextId
      BY <1>4, <2>1 DEF LockAndSend
    <2>3. PICK kind \in {"dump", "dumpx"} : Send(d, <<kind, t>>)
      BY <1>4, <2>1 DEF LockAndSend
    <2>4. PICK m \in Dumps : m = <<kind, t>>
      BY <1>c, <2>3 DEF Dumps
    <2>5. m \in Messages /\ Send(d, m)
      BY <2>3, <2>4, OtherMessages
    <2>6. /\ \A g \in Handlers \ {d} : queue'[g] = queue[g]
          /\ Len(queue'[d]) = Len(queue[d]) + 1 /\ Len(queue[d]) \in Nat
          /\ \A i \in 1..Len(queue[d]) : queue'[d][i] = queue[d][i]
      BY <2>5, SendsToEnd
    <2>7. CASE h # d
      BY <1>1, <2>2, <2>6, <2>7, QuietMutex DEF Quiet
    <2>8. CASE h = d
      <3>1. /\ \A i \in 1..Len(queue[h]) : queue[h][i] \notin Dumps
            /\ cur[h] \notin Dumps /\ nextId[h] = 0
        BY <2>2, <2>8 DEF MutexInv
      <3>2. \A i \in 1..Len(queue'[h]) : queue'[h][i] \in Dumps => i = Len(queue[h]) + 1
        BY <2>6, <2>8, <3>1
      <3>3. /\ cur'[h] \notin Dumps /\ nextId'[h] = 0 /\ h \in mutex'
        BY <1>1, <2>2, <2>8, <3>1
      <3> QED
        BY <1>1, <3>2, <3>3, OtherMessages DEF MutexInv
    <2> QED
      BY <2>7, <2>8
  <1>5. CASE Finish(t)
    <2>1. PICK d \in Handlers : d = doing[t]
      BY <1>5 DEF Finish, At, ThreadInv
    <2>2. /\ d \notin mutex /\ mutex' = mutex \cup {d} /\ queue' = queue
          /\ nextId' = [nextId EXCEPT ![d] = @ + 1]
      BY <1>5, <2>1 DEF Finish
    <2>3. CASE h # d
      BY <1>2, <2>2, <2>3 DEF TypesInv
    <2>4. CASE h = d
      <3>1. /\ \A i \in 1..Len(queue[h]) : queue[h][i] \notin Dumps
            /\ cur[h] \notin Dumps /\ h \in mutex'
        BY <2>2, <2>4 DEF MutexInv
      <3> QED
        BY <1>1, <2>2, <3>1, OtherMessages DEF MutexInv
    <2> QED
      BY <2>3, <2>4
  <1> QED
    BY <1>3, <1>4, <1>5 DEF ThreadStep

\* A handler's thread unlocks it when it has answered.
LEMMA HandlerKeepsMutex ==
    ASSUME PlacesInv, MessageInv, NEW g \in Handlers, HandlerStep(g), NEW h \in Handlers,
           MutexInv(h)
    PROVE  MutexInv(h)'
  <1>1. CASE h # g
    <2>1. HandlerStep(g) /\ h \in Handlers \ {g}
      BY <1>1
    <2>2. /\ Quiet(h) /\ cur'[h] = cur[h] /\ nextId'[h] = nextId[h]
          /\ pc'[h] = pc[h] \/ pc'[h] = "run"
          /\ h \in mutex' <=> h \in mutex
      BY <2>1, Elsewhere
    <2> QED
      BY <2>2, QuietMutex DEF AtWork, Stopping
  <1>2. CASE h = g /\ Receive(h)
    <2>1. /\ queue' = [queue EXCEPT ![h] = Tail(@)] /\ queue[h] # <<>>
          /\ UNCHANGED <<mutex, nextId>>
      BY <1>2 DEF Receive, minidump
    <2>2. PICK m : m = Head(queue[h])
      OBVIOUS
    <2>3. /\ m = queue[h][1] /\ 1 \in 1..Len(queue[h]) /\ m \in Messages
          /\ Len(queue'[h]) = Len(queue[h]) - 1 /\ Len(queue[h]) \in Nat
          /\ \A i \in 1..Len(queue'[h]) : queue'[h][i] = queue[h][i + 1]
      BY <2>1, <2>2, TakesFromFront
    <2>4. \A i \in 1..Len(queue'[h]) : i + 1 \in 1..Len(queue[h]) /\ i + 1 # 1
      BY <2>3
    <2>5. PICK l \in {"none", "loop", "suspend"} :
             /\ Goto(h, l)
             /\ l # "suspend" => cur' = [cur EXCEPT ![h] = <<>>]
             /\ l = "suspend" => cur' = [cur EXCEPT ![h] = m] /\ m[1] \notin {"shutdown", "child"}
      BY <1>2, <2>2 DEF Receive
    <2>6. /\ pc'[h] = l
          /\ l # "suspend" => cur'[h] = <<>>
          /\ l = "suspend" => cur'[h] = m /\ (m[1] = "exception" \/ m \in Dumps)
      BY <2>3, <2>5, Constants, OtherMessages DEF PlacesInv, Goto
    <2>7. /\ \A i, j \in 1..Len(queue'[h]) :
                queue'[h][i] \in Dumps /\ queue'[h][j] \in Dumps => i = j
          /\ \A i \in 1..Len(queue'[h]) : queue'[h][i] \in Dumps =>
                m \notin Dumps /\ h \in mutex /\ nextId[h] = 0
      <3>1. ASSUME NEW i \in 1..Len(queue'[h]), queue'[h][i] \in Dumps
            PROVE  m \notin Dumps /\ h \in mutex /\ nextId[h] = 0
        BY <2>3, <2>4, <3>1 DEF MutexInv
      <3>2. ASSUME NEW i \in 1..Len(queue'[h]), NEW j \in 1..Len(queue'[h]),
                   queue'[h][i] \in Dumps, queue'[h][j] \in Dumps
            PROVE  i = j
        <4>1. i + 1 = j + 1
          BY <2>3, <2>4, <3>2 DEF MutexInv
        <4> QED
          BY <4>1
      <3> QED
        BY <3>1, <3>2
    <2>8. m \in Dumps => h \in mutex /\ nextId[h] = 0
      BY <2>3 DEF MutexInv
    <2>9. nextId[h] # 0 => h \in mutex
      BY DEF MutexInv
    <2>10. cur'[h] = <<>> \/ (cur'[h] = m /\ (m[1] = "exception" \/ m \in Dumps))
      BY <2>5, <2>6
    <2>11. /\ \A i \in 1..Len(queue'[h]) : queue'[h][i] \in Dumps =>
                 cur'[h] \notin Dumps /\ h \in mutex' /\ nextId'[h] = 0
           /\ cur'[h] \in Dumps => h \in mutex' /\ nextId'[h] = 0
      BY <2>1, <2>7, <2>8, <2>10, OtherMessages
    <2>12. /\ pc'[h] \in AtWork => cur'[h][1] = "exception" \/ cur'[h] \in Dumps
           /\ pc'[h] # "unlock"
      BY <2>5, <2>6 DEF AtWork, Stopping
    <2>13. Dumps' = Dumps
      BY OtherMessages
    <2> QED
      BY <2>1, <2>7, <2>9, <2>11, <2>12, <2>13 DEF MutexInv
  <1>3. CASE h = g /\ Unlock(h)
    <2>1. /\ pc[h] = "unlock" /\ pc' = [pc EXCEPT ![h] = "loop"] /\ UNCHANGED <<queue, nextId>>
          /\ cur' = [cur EXCEPT ![h] = <<>>]
      BY <1>3 DEF Unlock, At, Goto
    <2>2. pc'[h] = "loop" /\ cur'[h] = <<>>
      BY <2>1, Constants DEF PlacesInv
    <2>3. nextId[h] = 0 /\ \A i \in 1..Len(queue[h]) : queue[h][i] \notin Dumps
      BY <2>1 DEF MutexInv
    <2> QED
      BY <2>1, <2>2, <2>3, OtherMessages DEF MutexInv, AtWork, Stopping
  <1>4. CASE h = g /\ ~Receive(h) /\ ~Unlock(h)
    <2>1. Quiet(h)
      BY <1>4, HandlersAreQuiet
    <2>2. UNCHANGED <<mutex, nextId>>
      BY <1>4 DEF HandlerStep, WaitForMessage, Lifecycle, ChildFaults, Construct, Uninstall,
         Teardown, Loop, SuspendThreads, Write, NothingToAsk, Callback, ResumeThreads,
         UninstallAndForward, OuterAnswers, AskServer, ServerAnswers, minidump
    <2>3. CASE cur' = cur /\ pc' = pc
      BY <2>1, <2>2, <2>3, QuietMutex
    <2>4. ASSUME cur' = cur, NEW l, Goto(h, l), l \in AtWork => pc[h] \in AtWork,
                 l = "unlock" => pc[h] \in AtWork /\ ~IsException(h)
          PROVE  MutexInv(h)'
      <3>1. pc'[h] = l
        BY <2>4, Constants DEF Goto, PlacesInv
      <3> QED
        BY <2>1, <2>2, <2>4, <3>1, QuietMutex DEF IsException
    <2>5. CASE ChildFaults(h) \/ Uninstall(h) \/ Teardown(h)
      BY <2>3, <2>5 DEF ChildFaults, Uninstall, Teardown
    <2>6. CASE Construct(h) \/ Loop(h)
      <3>1. cur' = cur /\ (pc' = pc \/ Goto(h, "loop") \/ Goto(h, "receive"))
        BY <2>6 DEF Construct, Loop
      <3> QED
        BY <2>3, <2>4, <3>1 DEF AtWork, Stopping
    <2>7. CASE SuspendThreads(h) \/ Write(h) \/ NothingToAsk(h) \/ Callback(h) \/ AskServer(h)
               \/ (\E ok \in BOOLEAN : ServerAnswers(h, ok)) \/ UninstallAndForward(h)
      <3>1. /\ cur' = cur /\ pc[h] \in AtWork
            /\ \/ pc' = pc
               \/ \E l \in {"write", "written", "callback", "asking", "await"} : Goto(h, l)
        BY <2>7 DEF SuspendThreads, Write, NothingToAsk, Callback, AskServer, ServerAnswers,
           UninstallAndForward, At, AtWork, Stopping
      <3> QED
        BY <2>3, <2>4, <3>1
    <2>8. CASE ResumeThreads(h)
      <3>1. cur' = cur /\ pc[h] \in AtWork /\ Goto(h, "unlock") /\ ~IsException(h)
        BY <2>8 DEF ResumeThreads, At, AtWork, Stopping
      <3> QED
        BY <2>4, <3>1 DEF AtWork, Stopping
    <2>9. CASE OuterAnswers(h)
      <3>1. CASE UNCHANGED <<pc, cur>>
        BY <2>3, <3>1
      <3>2. CASE /\ pc' = [pc EXCEPT ![h] = "loop", ![cur[h][2]] = "run"]
                 /\ cur' = [cur EXCEPT ![h] = <<>>]
        <4>1. pc'[h] \in {"loop", "run"} /\ cur'[h] = <<>>
          BY <3>2, Constants DEF PlacesInv
        <4> QED
          BY <2>1, <2>2, <4>1, QuietMutex DEF AtWork, Stopping
      <3> QED
        BY <2>9, <3>1, <3>2 DEF OuterAnswers
    <2> QED
      BY <1>4, <2>5, <2>6, <2>7, <2>8, <2>9 DEF HandlerStep, WaitForMessage, Lifecycle
  <1> QED
    BY <1>1, <1>2, <1>3, <1>4

\* Only the kernel and a handler's thread send an exception on its way, and who raised it
\* stands still.
LEMMA PendingKeeps ==
    ASSUME PlacesInv, MessageInv, [Next]_allVars, NEW t \in Threads,
           Pending(<<"exception", t>>)'
    PROVE  Pending(<<"exception", t>>) \/ (Fault(t) /\ pc'[t] = "faulted")
  <1>c. t \in Actors
    BY Constants
  <1>1. PICK m \in Messages \ Dumps : m = <<"exception", t>>
    BY <1>c, OtherMessages
  <1>2. SUFFICES ASSUME Pending(m)'
                 PROVE  Pending(m) \/ (Fault(t) /\ pc'[t] = "faulted")
    BY <1>1
  <1>3. m # <<>> /\ m # <<"child">> /\ m # <<"shutdown">> /\ m \notin Dumps
        /\ \A a \in Actors : m = <<"exception", a>> => a = t
    BY <1>1
  <1>q. ASSUME queue' = queue, \A h \in Handlers : cur'[h] \in {cur[h], <<>>}
        PROVE  Pending(m)
    BY <1>2, <1>3, <1>q DEF Pending, InQueue
  <1>s. ASSUME NEW h \in Handlers, NEW n \in Messages, n # m, Send(h, n),
               cur' = cur
        PROVE  Pending(m)
    <2>1. \A g \in Handlers : \A i \in 1..Len(queue'[g]) :
             queue'[g][i] = n \/ (i \in 1..Len(queue[g]) /\ queue'[g][i] = queue[g][i])
      BY <1>s, SendFacts
    <2> QED
      BY <1>2, <1>s, <2>1 DEF Pending, InQueue
  <1>4. CASE UNCHANGED vars
    BY <1>q, <1>4 DEF vars
  <1>5. ASSUME NEW x \in Threads, ThreadStep(x)
        PROVE  Pending(m)
    <2>1. CASE LockAndSend(x)
      <3>1. PICK kind \in {"dump", "dumpx"} : Send(doing[x], <<kind, x>>) /\ cur' = cur
        BY <2>1 DEF LockAndSend
      <3>2. PICK n \in Dumps : n = <<kind, x>>
        BY <3>1, Constants DEF Dumps
      <3>3. n \in Messages /\ n # m
        BY <1>3, <3>2, OtherMessages
      <3>4. CASE doing[x] \in Handlers
        BY <1>s, <3>1, <3>2, <3>3, <3>4
      <3>5. CASE doing[x] \notin Handlers
        <4>1. queue' = queue
          BY <3>1, <3>5 DEF Send, PlacesInv
        <4> QED
          BY <1>q, <3>1, <4>1
      <3> QED
        BY <3>4, <3>5
    <2> QED
      BY <1>5, <1>q, <2>1 DEF ThreadStep, Begin, Finish, WriteMinidump
  <1>6. ASSUME NEW a \in Actors, Fault(a)
        PROVE  Pending(m) \/ (Fault(t) /\ pc'[t] = "faulted")
    <2>1. cur' = cur
      BY <1>6 DEF Fault
    <2>2. CASE queue' = queue
      BY <1>q, <2>1, <2>2
    <2>3. ASSUME NEW h \in Handlers, Send(h, <<"exception", a>>), Goto(a, "faulted")
          PROVE  Pending(m) \/ (Fault(t) /\ pc'[t] = "faulted")
      <3>1. CASE a = t
        BY <1>6, <2>3, <3>1 DEF Goto, PlacesInv
      <3>2. CASE a # t
        <4>1. PICK n \in Messages : n = <<"exception", a>>
          BY OtherMessages
        <4> QED
          BY <1>3, <1>s, <2>1, <2>3, <3>2, <4>1
      <3> QED
        BY <3>1, <3>2
    <2> QED
      BY <1>6, <2>2, <2>3 DEF Fault
  <1>7. ASSUME NEW h \in Handlers, HandlerStep(h)
        PROVE  Pending(m)
    <2>1. CASE ChildFaults(h) \/ Teardown(h)
      <3>1. cur' = cur /\ (Send(h, <<"child">>) \/ Send(h, <<"shutdown">>))
        BY <2>1 DEF ChildFaults, Teardown
      <3> QED
        BY <1>3, <1>s, <3>1, OtherMessages
    <2>2. CASE Receive(h)
      <3>1. /\ queue' = [queue EXCEPT ![h] = Tail(@)] /\ queue[h] # <<>>
            /\ cur' = [cur EXCEPT ![h] = <<>>] \/ cur' = [cur EXCEPT ![h] = Head(queue[h])]
        BY <2>2 DEF Receive
      <3>2. /\ Head(queue[h]) = queue[h][1] /\ 1 \in 1..Len(queue[h])
            /\ \A g \in Handlers \ {h} : queue'[g] = queue[g]
            /\ Len(queue'[h]) = Len(queue[h]) - 1 /\ Len(queue[h]) \in Nat
            /\ \A i \in 1..Len(queue'[h]) : queue'[h][i] = queue[h][i + 1]
        BY <3>1, TakesFromFront
      <3>3. \A i \in 1..Len(queue'[h]) : i + 1 \in 1..Len(queue[h])
        BY <3>2
      <3>4. InQueue(m)' => InQueue(m)
        <4>1. ASSUME NEW g \in Handlers, NEW i \in 1..Len(queue'[g]), queue'[g][i] = m
              PROVE  \E j \in 1..Len(queue[g]) : queue[g][j] = m
          <5>1. CASE g = h
            BY <3>2, <3>3, <4>1, <5>1
          <5>2. CASE g # h
            BY <3>2, <4>1, <5>2
          <5> QED
            BY <5>1, <5>2
        <4> QED
          BY <4>1 DEF InQueue
      <3>5. \A g \in Handlers : cur'[g] \in {cur[g], <<>>, queue[h][1]}
        BY <3>1, <3>2 DEF PlacesInv
      <3>6. (\E g \in Handlers : cur'[g] = m) => Pending(m)
        BY <1>3, <3>2, <3>5 DEF Pending, InQueue
      <3> QED
        BY <1>2, <3>4, <3>6 DEF Pending
    <2>3. CASE UninstallAndForward(h)
      <3>1. pc[h] = "written" /\ IsException(h) /\ cur' = cur
        BY <2>3 DEF UninstallAndForward, At
      <3>2. PICK a \in Actors : cur[h] = <<"exception", a>>
        BY <3>1, OtherMessages DEF MessageInv, AtWork, Stopping, IsException
      <3>3. queue' = queue \/ \E g \in Handlers : Send(g, <<"exception", a>>)
        BY <2>3, <3>2 DEF UninstallAndForward
      <3>4. CASE a = t
        BY <1>1, <3>2, <3>4 DEF Pending
      <3>5. CASE a # t
        <4>1. PICK n \in Messages : n = <<"exception", a>>
          BY OtherMessages
        <4> QED
          BY <1>3, <1>q, <1>s, <3>1, <3>3, <3>5, <4>1
      <3> QED
        BY <3>4, <3>5
    <2>4. CASE Unlock(h) \/ OuterAnswers(h)
      <3>1. queue' = queue /\ (cur' = cur \/ cur' = [cur EXCEPT ![h] = <<>>])
        BY <2>4 DEF Unlock, OuterAnswers
      <3>2. \A g \in Handlers : cur'[g] \in {cur[g], <<>>}
        BY <3>1 DEF PlacesInv
      <3> QED
        BY <1>q, <3>1, <3>2
    <2> QED
      BY <1>7, <1>q, <2>1, <2>2, <2>3, <2>4 DEF HandlerStep, WaitForMessage, Lifecycle,
         Construct, Uninstall, Loop, SuspendThreads, Write, NothingToAsk, Callback,
         ResumeThreads, AskServer, ServerAnswers
  <1> QED
    BY <1>4, <1>5, <1>6, <1>7, StepsAre

\* What a step does to a thread of the program: its own step, its exception, or an answer to
\* that, which sets everybody free or leaves them frozen.
LEMMA ThreadMoves ==
    ASSUME PortsInv, TypesInv, [Next]_allVars, NEW t \in Threads
    PROVE  \/ pc'[t] = pc[t] /\ doing'[t] = doing[t]
           \/ ThreadStep(t) /\ proc = "alive"
           \/ Fault(t) /\ pc[t] = "run" /\ pc'[t] = "faulted" /\ doing'[t] = doing[t]
           \/ Frozen /\ pc'[t] = "run" /\ Pending(<<"exception", t>>)
  <1>c. t \in Actors /\ t \notin Handlers
    BY Constants
  <1>1. CASE UNCHANGED vars
    BY <1>1 DEF vars
  <1>2. ASSUME NEW x \in Threads \ {t}, ThreadStep(x)
        PROVE  pc'[t] = pc[t] /\ doing'[t] = doing[t]
    <2>1. /\ \E l : pc' = [pc EXCEPT ![x] = l]
          /\ doing' = doing \/ \E d : doing' = [doing EXCEPT ![x] = d]
      BY <1>2 DEF ThreadStep, Begin, LockAndSend, Finish, WriteMinidump, Goto
    <2>2. pc'[t] = pc[t]
      BY <1>c, <2>1 DEF PortsInv, PlacesInv
    <2>3. doing'[t] = doing[t]
      BY <2>1 DEF TypesInv
    <2> QED
      BY <2>2, <2>3
  <1>3. ASSUME NEW a \in Actors, Fault(a)
        PROVE  \/ pc'[t] = pc[t] /\ doing'[t] = doing[t]
               \/ Fault(t) /\ pc[t] = "run" /\ pc'[t] = "faulted" /\ doing'[t] = doing[t]
    <2>1. doing' = doing /\ pc[a] \in {"run", "write", "callback"} /\ (pc' = pc \/ Goto(a, "faulted"))
      BY <1>3 DEF Fault, At
    <2>2. pc[t] \in ThreadPlaces
      BY DEF PortsInv, PlacesInv
    <2> QED
      BY <1>3, <1>c, <2>1, <2>2 DEF Goto, PortsInv, PlacesInv, ThreadPlaces
  <1>4. ASSUME NEW h \in Handlers, HandlerStep(h), proc = "alive"
        PROVE  \/ pc'[t] = pc[t] /\ doing'[t] = doing[t]
               \/ Frozen /\ pc'[t] = "run" /\ Pending(<<"exception", t>>)
    <2>1. doing' = doing
      BY <1>4 DEF HandlerStep, WaitForMessage, Lifecycle, ChildFaults, Construct, Uninstall,
         Teardown, Loop, Receive, SuspendThreads, Write, NothingToAsk, Callback, ResumeThreads,
         Unlock, UninstallAndForward, OuterAnswers, AskServer, ServerAnswers
    <2>2. CASE pc' = pc \/ \E l : Goto(h, l)
      BY <1>c, <2>1, <2>2 DEF Goto, PortsInv, PlacesInv
    <2>3. CASE OuterAnswers(h) /\ pc' = [pc EXCEPT ![h] = "loop", ![cur[h][2]] = "run"]
      <3>1. pc[h] = "await"
        BY <2>3 DEF OuterAnswers, At
      <3>2. Frozen
        BY <3>1, AwaitIsFrozen
      <3>3. PICK a \in Actors : cur[h] = <<"exception", a>>
        BY <3>1, OtherMessages DEF PortsInv, MessageInv, AtWork
      <3>4. CASE a = t
        <4>1. pc'[t] = "run"
          BY <1>c, <2>3, <3>3, <3>4 DEF PortsInv, PlacesInv
        <4> QED
          BY <3>2, <3>3, <3>4, <4>1 DEF Pending
      <3>5. CASE a # t
        BY <1>c, <2>1, <2>3, <3>3, <3>5 DEF PortsInv, PlacesInv
      <3> QED
        BY <3>4, <3>5
    <2> QED
      BY <1>4, <2>2, <2>3 DEF HandlerStep, WaitForMessage, Lifecycle, ChildFaults, Construct,
         Uninstall, Teardown, Loop, Receive, SuspendThreads, Write, NothingToAsk, Callback,
         ResumeThreads, Unlock, UninstallAndForward, OuterAnswers, AskServer, ServerAnswers
  <1> QED
    BY <1>1, <1>2, <1>3, <1>4, StepsAre

\* So who raised an exception stands still, and who calls knows whom.
LEMMA ThreadsKeep ==
    ASSUME PortsInv, TypesInv, [Next]_allVars, NEW t \in Threads, ThreadInv(t)
    PROVE  ThreadInv(t)'
  <1>1. Frozen => Frozen'
    BY FrozenForGood
  <1>2. ASSUME ThreadStep(t)
        PROVE  /\ ~Frozen
               /\ pc[t] # "faulted"
               /\ pc'[t] \in {"begin", "lock1", "lock2"} => doing'[t] \in Handlers
    <2>1. suspended[t] = 0 /\ pc[t] # "faulted"
      BY <1>2 DEF ThreadStep, Begin, LockAndSend, Finish, WriteMinidump, At
    <2>2. ~Frozen
      BY <2>1, FrozenThread DEF PortsInv
    <2>3. CASE Begin(t) \/ LockAndSend(t)
      <3>1. pc[t] \in {"begin", "lock1"} /\ doing' = doing
        BY <2>3 DEF Begin, LockAndSend, At
      <3> QED
        BY <2>1, <2>2, <3>1 DEF ThreadInv
    <2>4. CASE Finish(t)
      <3>1. pc'[t] = "run"
        BY <2>4, Constants DEF Finish, Goto, PortsInv, PlacesInv
      <3> QED
        BY <2>1, <2>2, <3>1
    <2>5. ASSUME NEW h \in Handlers, WriteMinidump(t, h)
          PROVE  doing'[t] \in Handlers
      BY <2>5 DEF WriteMinidump, TypesInv
    <2> QED
      BY <1>2, <2>1, <2>2, <2>3, <2>4, <2>5 DEF ThreadStep
  <1>3. ASSUME Fault(t)
        PROVE  ~Frozen
    <2>1. suspended[t] = 0
      BY <1>3 DEF Fault, At
    <2> QED
      BY <2>1, FrozenThread DEF PortsInv
  <1>4. Pending(<<"exception", t>>)' => Still(t)'
    <2>1. SUFFICES ASSUME Pending(<<"exception", t>>)' PROVE Still(t)'
      OBVIOUS
    <2>2. CASE Fault(t) /\ pc'[t] = "faulted"
      BY <2>2 DEF Still
    <2>3. CASE Pending(<<"exception", t>>)
      <3>1. Still(t)
        BY <2>3 DEF ThreadInv
      <3> QED
        BY <1>1, <1>2, <1>3, <3>1, ThreadMoves DEF Still
    <2> QED
      BY <2>1, <2>2, <2>3, PendingKeeps DEF PortsInv
  <1>5. pc'[t] \in {"begin", "lock1", "lock2"} => doing'[t] \in Handlers
    BY <1>2, ThreadMoves DEF ThreadInv
  <1> QED
    BY <1>4, <1>5 DEF ThreadInv

\* Identifiers, calls and the mutex keep their types.
LEMMA TypesKeep ==
    ASSUME TypesInv, [Next]_allVars, \A t \in Threads : ThreadInv(t)
    PROVE  TypesInv'
  <1>1. CASE UNCHANGED <<nextId, doing, mutex>>
    BY <1>1 DEF TypesInv, NoCall
  <1>2. ASSUME NEW t \in Threads, ThreadStep(t)
        PROVE  TypesInv'
    <2>1. CASE Begin(t)
      BY <1>1, <2>1 DEF Begin
    <2>2. CASE LockAndSend(t) \/ Finish(t)
      <3>1. PICK d \in Handlers : d = doing[t]
        BY <2>2 DEF LockAndSend, Finish, At, ThreadInv
      <3>2. /\ mutex' = mutex \cup {d}
            /\ nextId' = nextId \/ nextId' = [nextId EXCEPT ![d] = @ + 1]
            /\ doing' = doing \/ doing' = [doing EXCEPT ![t] = NoCall]
        BY <2>2, <3>1 DEF LockAndSend, Finish
      <3> QED
        BY <3>2 DEF TypesInv, NoCall
    <2>3. ASSUME NEW h \in Handlers, WriteMinidump(t, h)
          PROVE  TypesInv'
      <3>1. doing' = [doing EXCEPT ![t] = h] /\ UNCHANGED <<nextId, mutex>>
        BY <2>3 DEF WriteMinidump, minidump
      <3> QED
        BY <3>1 DEF TypesInv, NoCall
    <2> QED
      BY <1>2, <2>1, <2>2, <2>3 DEF ThreadStep
  <1>3. ASSUME NEW h \in Handlers, HandlerStep(h)
        PROVE  TypesInv'
    <2>1. UNCHANGED <<nextId, doing>> /\ (mutex' = mutex \/ mutex' = mutex \ {h})
      BY <1>3 DEF HandlerStep, WaitForMessage, Lifecycle, ChildFaults, Construct, Uninstall,
         Teardown, Loop, Receive, SuspendThreads, Write, NothingToAsk, Callback, ResumeThreads,
         Unlock, UninstallAndForward, OuterAnswers, AskServer, ServerAnswers, minidump
    <2> QED
      BY <2>1 DEF TypesInv, NoCall
  <1>4. ASSUME NEW a \in Actors, Fault(a)
        PROVE  TypesInv'
    BY <1>1, <1>4 DEF Fault, minidump
  <1> QED
    BY <1>1, <1>2, <1>3, <1>4, StepsAre DEF vars, minidump

\* Everybody keeps the mutexes.
LEMMA MutexesKeep ==
    ASSUME PortsInv, TypesInv, [Next]_allVars, \A t \in Threads : ThreadInv(t),
           NEW h \in Handlers, MutexInv(h)
    PROVE  MutexInv(h)'
  <1>1. CASE UNCHANGED vars
    BY <1>1, QuietMutex DEF vars, minidump, Quiet
  <1>2. ASSUME NEW a \in Actors, Fault(a)
        PROVE  MutexInv(h)'
    <2>1. UNCHANGED <<cur, nextId, mutex>>
      BY <1>2 DEF Fault, minidump
    <2>2. pc'[h] = pc[h] \/ pc'[h] = "faulted"
      BY <1>2, Constants DEF Fault, Goto, PortsInv, PlacesInv
    <2>3. Quiet(h)
      <3>1. queue' = queue \/ \E g \in Handlers : Send(g, <<"exception", a>>)
        BY <1>2 DEF Fault
      <3>2. CASE queue' = queue
        BY <3>2 DEF Quiet
      <3> QED
        BY <3>1, <3>2, QuietSend, OtherMessages DEF PortsInv
    <2> QED
      BY <2>1, <2>2, <2>3, QuietMutex DEF AtWork, Stopping
  <1> QED
    BY <1>1, <1>2, StepsAre, ThreadKeepsMutex, HandlerKeepsMutex DEF PortsInv

\* A step, seen from a handler.
LEMMA StepsOf ==
    ASSUME [Next]_allVars, NEW h \in Handlers
    PROVE  \/ UNCHANGED vars
           \/ \E t \in Threads : ThreadStep(t)
           \/ \E a \in Actors : Fault(a)
           \/ \E g \in Handlers \ {h} : HandlerStep(g)
           \/ ChildFaults(h) \/ Lifecycle(h) \/ WaitForMessage(h)
           \/ h \in Remote /\ (Ask(h) \/ Answered(h))
  <1>1. CASE UNCHANGED allVars
    BY <1>1 DEF allVars
  <1>2. CASE Client
    BY <1>2 DEF Client, Step, Program, ThreadStep, HandlerStep
  <1>3. CASE Server \/ ServerOwner \/ ServerDies
    BY <1>3 DEF Server, ServerOwner, ServerDies
  <1>4. ASSUME NEW g \in Remote, Ask(g) \/ Wait(g) \/ Answered(g)
        PROVE  \/ UNCHANGED vars
               \/ g # h /\ HandlerStep(g)
               \/ g = h /\ (Ask(h) \/ Answered(h))
    <2>1. UNCHANGED vars \/ HandlerStep(g)
      BY <1>4 DEF Ask, Wait, Answered, HandlerStep
    <2>2. UNCHANGED vars \/ Ask(g) \/ Answered(g)
      BY <1>4 DEF Wait
    <2>3. CASE g = h
      BY <2>2, <2>3
    <2>4. CASE g # h
      BY <2>1, <2>4
    <2> QED
      BY <2>3, <2>4
  <1> QED
    BY <1>1, <1>2, <1>3, <1>4, Constants DEF Next

\* A dump that was written or tried stays so, until the handler asks again.
LEMMA DoneStays ==
    ASSUME PlacesInv, ServerInv, [Next]_allVars, NEW h \in Handlers, Done(h)
    PROVE  Done(h)' \/ (h \in Remote /\ pc'[h] = "asking")
  <1>1. files \subseteq files'
    <2>1. ASSUME NEW g \in Handlers, HandlerStep(g)
          PROVE  files \subseteq files'
      BY <2>1 DEF HandlerStep, WaitForMessage, Lifecycle, ChildFaults, Construct, Uninstall,
         Teardown, Loop, Receive, SuspendThreads, Write, NothingToAsk, Callback, ResumeThreads,
         Unlock, UninstallAndForward, OuterAnswers, AskServer, ServerAnswers
    <2>2. ASSUME NEW t \in Threads, ThreadStep(t)
          PROVE  files' = files
      BY <2>2 DEF ThreadStep, Begin, LockAndSend, Finish, WriteMinidump
    <2>3. ASSUME NEW a \in Actors, Fault(a)
          PROVE  files' = files
      BY <2>3 DEF Fault
    <2> QED
      BY <2>1, <2>2, <2>3, StepsAre DEF vars
  <1>2. CASE h \in Remote
    <2>1. CASE Ask(h)
      BY <1>2, <2>1, Constants DEF Ask, AskServer, Goto, PlacesInv
    <2>2. CASE ~Ask(h)
      BY <1>2, <2>2, ServerKeeps DEF Done
    <2> QED
      BY <2>1, <2>2
  <1> QED
    BY <1>1, <1>2 DEF Done

\* A result stands for a dump, whatever the step.
LEMMA ResultsKeep ==
    ASSUME PortsInv, ServerInv, [Next]_allVars, NEW h \in Handlers, MutexInv(h), ResultInv(h)
    PROVE  ResultInv(h)'
  <1>c. h \in Actors /\ \A t \in Threads : t # h
    BY Constants
  <1>d. Done(h) => Done(h)' \/ (h \in Remote /\ pc'[h] = "asking")
    BY DoneStays DEF PortsInv
  <1>f. (Frozen => Frozen') /\ (pc'[h] = "await" => Frozen')
    BY FrozenForGood, NextOrdered DEF PortsInv, Orderly, OneAtWork
  <1>p. pc \in [Actors -> ThreadPlaces \cup HandlerPlaces]
    BY DEF PortsInv, PlacesInv
  <1>k. Dumps' = Dumps
    BY OtherMessages
  <1>1. ASSUME pc'[h] = pc[h], cur'[h] = cur[h], h \in result' <=> h \in result,
               h \in last' => h \in last
        PROVE  ResultInv(h)'
    BY <1>1, <1>d, <1>f, <1>k DEF ResultInv, Asked
  <1>2. ASSUME pc[h] \notin {"asking", "written"}, pc'[h] \notin {"callback", "written"},
               h \in last' => h \in last
        PROVE  ResultInv(h)'
    BY <1>2, <1>d, <1>f DEF ResultInv, Asked
  <1>3. CASE UNCHANGED vars
    BY <1>1, <1>3 DEF vars, minidump
  <1>4. ASSUME NEW t \in Threads, ThreadStep(t)
        PROVE  ResultInv(h)'
    <2>1. \E l : pc' = [pc EXCEPT ![t] = l]
      BY <1>4 DEF ThreadStep, Begin, LockAndSend, Finish, WriteMinidump, Goto
    <2>2. pc'[h] = pc[h]
      BY <1>c, <1>p, <2>1
    <2>3. UNCHANGED <<cur, result>> /\ last' \subseteq last
      BY <1>4 DEF ThreadStep, Begin, LockAndSend, Finish, WriteMinidump, minidump
    <2> QED
      BY <1>1, <2>2, <2>3
  <1>5. ASSUME NEW a \in Actors, Fault(a)
        PROVE  ResultInv(h)'
    <2>1. /\ UNCHANGED <<cur, result, last>> /\ pc[a] \in {"run", "write", "callback"}
          /\ pc' = pc \/ pc' = [pc EXCEPT ![a] = "faulted"]
      BY <1>5 DEF Fault, At, Goto, minidump
    <2>2. pc'[h] = pc[h] \/ (pc'[h] = "faulted" /\ pc[h] \in {"run", "write", "callback"})
      BY <1>c, <1>p, <2>1
    <2> QED
      BY <1>1, <1>2, <2>1, <2>2
  <1>6. ASSUME NEW g \in Handlers \ {h}, HandlerStep(g)
        PROVE  ResultInv(h)'
    <2>1. /\ cur'[h] = cur[h] /\ (h \in result' <=> h \in result) /\ (h \in last' <=> h \in last)
          /\ pc'[h] = pc[h] \/ (pc'[h] = "run" /\ pc[g] = "await")
      <3>1. g \in Handlers /\ h \in Handlers \ {g}
        OBVIOUS
      <3> QED
        BY <1>6, <3>1, Elsewhere DEF PortsInv
    <2>2. CASE pc'[h] = "run" /\ pc[g] = "await"
      <3>1. Frozen'
        BY <1>f, <2>2, AwaitIsFrozen
      <3> QED
        BY <2>2, <3>1 DEF ResultInv
    <2> QED
      BY <1>1, <2>1, <2>2
  <1>7. CASE ChildFaults(h) \/ Uninstall(h) \/ Teardown(h)
    BY <1>1, <1>7 DEF ChildFaults, Uninstall, Teardown, minidump
  <1>8. CASE Construct(h)
    <2>1. pc[h] = "none" /\ pc'[h] = "loop" /\ UNCHANGED last
      BY <1>8, <1>c DEF Construct, Goto, PortsInv, PlacesInv, minidump
    <2> QED
      BY <1>2, <2>1
  <1>9. CASE Loop(h) \/ Receive(h) \/ SuspendThreads(h) \/ Unlock(h)
    <2>1. PICK l \in {"none", "loop", "receive", "suspend", "write"} :
             /\ pc[h] \in {"loop", "receive", "suspend", "unlock"} /\ UNCHANGED last
             /\ pc' = pc \/ Goto(h, l)
      BY <1>9 DEF Loop, Receive, SuspendThreads, Unlock, At, minidump
    <2>2. pc'[h] \in {pc[h], l}
      BY <1>c, <1>p, <2>1 DEF Goto
    <2> QED
      BY <1>2, <2>1, <2>2
  <1>10. CASE Write(h)
    <2>1. /\ pc[h] = "write" /\ h \notin Remote /\ UNCHANGED <<cur, last, nextId>>
          /\ \E l \in {"callback", "written"} : Goto(h, l)
          /\ h \in result' => <<h, nextId[h]>> \in files'
      BY <1>10 DEF Write, At, minidump
    <2>2. pc'[h] \in {"callback", "written"}
      BY <1>c, <1>p, <2>1 DEF Goto
    <2>3. cur[h] \in Dumps => nextId[h] = 0
      BY DEF MutexInv
    <2>4. cur'[h] \in Dumps /\ h \in result' => Done(h)'
      BY <2>1, <2>3 DEF Done
    <2>5. h \in last' => Done(h)' \/ Frozen'
      BY <1>d, <1>f, <2>1 DEF ResultInv, Asked
    <2> QED
      BY <1>k, <2>1, <2>4, <2>5 DEF ResultInv
  <1>11. CASE NothingToAsk(h)
    <2>1. h \in Remote /\ pc'[h] = "written" /\ h \notin result'
      BY <1>11, <1>c, <1>p DEF NothingToAsk, Goto
    <2> QED
      BY <2>1 DEF ResultInv, Asked
  <1>12. CASE Callback(h)
    <2>1. pc[h] = "callback" /\ UNCHANGED <<cur, result, last>> /\ pc'[h] \in {"callback", "written"}
      BY <1>12, <1>c, <1>p DEF Callback, At, Goto, minidump
    <2>2. h \notin Remote
      BY <2>1 DEF ResultInv
    <2> QED
      BY <1>d, <1>f, <1>k, <2>1, <2>2 DEF ResultInv, Asked
  <1>13. CASE ResumeThreads(h)
    <2>1. /\ pc[h] = "written" /\ pc'[h] = "unlock" /\ cur[h][1] # "exception"
          /\ h \in last' => h \in result
      BY <1>13, <1>c, <1>p DEF ResumeThreads, At, Goto, IsException
    <2>2. cur[h] \in Dumps
      BY <2>1 DEF MutexInv, AtWork, Stopping
    <2>3. h \in last' => Done(h)'
      BY <1>d, <2>1, <2>2 DEF ResultInv
    <2> QED
      BY <2>1, <2>3 DEF ResultInv
  <1>14. CASE UninstallAndForward(h)
    <2>1. UNCHANGED <<cur, result, last>> /\ pc'[h] \in {pc[h], "await"}
      BY <1>14, <1>c, <1>p DEF UninstallAndForward, Goto, minidump
    <2> QED
      BY <1>1, <1>f, <2>1 DEF ResultInv
  <1>15. CASE OuterAnswers(h)
    <2>1. pc[h] = "await" /\ UNCHANGED last /\ pc'[h] \in {"await", "loop", "run"}
      BY <1>15, <1>c, <1>p DEF OuterAnswers, At, minidump
    <2> QED
      BY <1>2, <2>1
  <1>16. CASE h \in Remote /\ Ask(h)
    <2>1. pc'[h] = "asking"
      BY <1>16, <1>c, <1>p DEF Ask, AskServer, Goto
    <2> QED
      BY <1>16, <2>1 DEF ResultInv, Asked
  <1>17. CASE h \in Remote /\ Answered(h)
    <2>1. PICK ok \in BOOLEAN : ServerAnswers(h, ok) /\ CG!Return(h, ok)
      BY <1>17 DEF Answered
    <2>2. pc'[h] = "written" /\ (h \in result' => ok)
      BY <2>1, <1>c, <1>p DEF ServerAnswers, Goto
    <2>3. (ok => req[h] = "true") /\ UNCHANGED <<number, tried>>
      BY <2>1 DEF CG!Return
    <2>4. h \in result' => Done(h)'
      BY <1>17, <2>2, <2>3 DEF ServerInv, Done
    <2> QED
      BY <1>17, <2>2, <2>4 DEF ResultInv, Asked
  <1> QED
    BY <1>3, <1>4, <1>5, <1>6, <1>7, <1>8, <1>9, <1>10, <1>11, <1>12, <1>13, <1>14, <1>15, <1>16,
       <1>17, StepsOf DEF Lifecycle, WaitForMessage

\* At first nobody has asked anything.
LEMMA InitAnswers == InitAll => AnswerInv
  <1> SUFFICES ASSUME InitAll PROVE AnswerInv
    OBVIOUS
  <1>1. PortsInv
    BY InitOrdered
  <1>2. Init /\ CG!Init
    BY DEF InitAll
  <1>3. \A h \in Handlers : /\ Len(queue[h]) = 0 /\ cur[h] = <<>> /\ pc[h] = "none"
                            /\ nextId[h] = 0 /\ h \notin last
    BY <1>2, Constants DEF Init
  <1>4. \A t \in Threads : pc[t] = "run" /\ doing[t] = NoCall
    BY <1>2, Constants DEF Init
  <1>5. ServerInv
    BY <1>2 DEF CG!Init, ServerInv
  <1>6. TypesInv
    BY <1>2 DEF Init, TypesInv
  <1>7. ASSUME NEW h \in Handlers PROVE MutexInv(h) /\ ResultInv(h)
    BY <1>3, OtherMessages DEF MutexInv, ResultInv, AtWork, Stopping
  <1>8. ASSUME NEW t \in Threads PROVE ThreadInv(t)
    <2>1. ~Pending(<<"exception", t>>)
      <3>1. <<"exception", t>> # <<>>
        OBVIOUS
      <3>2. \A h \in Handlers : 1..Len(queue[h]) = {}
        BY <1>3
      <3> QED
        BY <1>3, <3>1, <3>2 DEF Pending, InQueue
    <2> QED
      BY <1>4, <2>1 DEF ThreadInv
  <1> QED
    BY <1>1, <1>5, <1>6, <1>7, <1>8 DEF AnswerInv

\* WriteMinidump returns true only when the dump of its handler's current name was written,
\* or, out of process, when the server has tried the dump of the handler's last request:
\* whatever threads call it, handlers fail, and acknowledgements arrive late.  Handlers may
\* be destroyed in any order.
THEOREM ResultsAreTrue == Spec => ResultIsTrue
  <1>1. AnswerInv /\ [Next]_allVars => AnswerInv'
    BY NextOrdered, ServerKeeps, TypesKeep, MutexesKeep, ResultsKeep, ThreadsKeep
       DEF AnswerInv
  <1>2. ASSUME AnswerInv, [Next]_allVars, NEW t \in Threads,
               pc[t] = "lock2", pc'[t] = "run", doing[t] \in last
        PROVE  IF doing[t] \in Remote THEN <<doing[t], number[doing[t]]>> \in tried
               ELSE <<doing[t], nextId[doing[t]]>> \in files
    <2>1. ThreadInv(t) /\ PortsInv
      BY <1>2 DEF AnswerInv
    <2>2. ThreadStep(t)
      BY <1>2, <2>1, ThreadMoves DEF ThreadInv, Still, AnswerInv
    <2>3. Finish(t)
      BY <1>2, <2>2 DEF ThreadStep, Begin, LockAndSend, WriteMinidump, At
    <2>4. PICK h \in Handlers : h = doing[t]
      BY <1>2, <2>1 DEF ThreadInv
    <2>5. h \notin mutex /\ suspended[t] = 0
      BY <2>3, <2>4 DEF Finish, At
    <2>6. ~Frozen
      BY <2>1, <2>5, FrozenThread DEF PortsInv
    <2>7. ~Asked(h)
      <3>1. t \in Actors /\ pc[t] # "none" /\ t # h
        BY <1>2, Constants
      <3>2. pc[h] \notin Stopping
        BY <2>1, <2>5, <2>6, <3>1, NobodyElse DEF PortsInv, Orderly, OneAtWork
      <3> QED
        BY <3>2 DEF Asked, Stopping
    <2>8. Done(h) /\ nextId[h] = 0
      BY <1>2, <2>4, <2>5, <2>6, <2>7 DEF AnswerInv, ResultInv, MutexInv
    <2> QED
      BY <2>4, <2>8 DEF Done
  <1>3. AnswerInv /\ [Next]_allVars =>
          [\A t \in Threads :
             pc[t] = "lock2" /\ pc'[t] = "run" /\ doing[t] \in last
             => IF doing[t] \in Remote THEN <<doing[t], number[doing[t]]>> \in tried
                ELSE <<doing[t], nextId[doing[t]]>> \in files]_allVars
    BY <1>2
  <1> QED
    BY <1>1, <1>3, InitAnswers, PTL DEF Spec, ResultIsTrue
=============================================================================
