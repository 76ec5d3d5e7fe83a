------------------- MODULE WindowsExceptionHandler_proofs -------------------
(***************************************************************************)
(* Proofs about WindowsExceptionHandler, for any threads and handlers.       *)
(*                                                                           *)
(* VerdictInv, for the stack, the frames of the handler functions and the    *)
(* hand-over to a handler's thread, holds whatever the handlers are for and  *)
(* in whatever order they are destroyed.  FilterInv, for the filters, is     *)
(* about handlers for everything that are destroyed in the reverse order.    *)
(***************************************************************************)
EXTENDS WindowsExceptionHandler, FiniteSetTheorems, TLAPS

\* The places of an actor.
PcStates == {"run", "none", "idle", "enter", "chained", "ask", "lock", "wait", "write",
             "callback", "result", "declined", "unwind", "ending"}

\* The types of what the invariant speaks of.
TypeInv ==
    /\ filter \in [Slots -> Values] /\ previous \in [Handlers -> [Slots -> Values]]
    /\ stack \in Seq(Handlers) /\ index \in Nat /\ stackCs \in SUBSET Actors
    /\ life \in [Handlers -> {"none", "built", "alive", "removed", "dead"}]
    /\ pc \in [Actors -> PcStates]
    /\ frames \in [Actors -> Seq(Handlers \X {"enter", "chained"})]
    /\ DOMAIN doing = Threads /\ fault \in [Actors -> Slots \cup {"breakpoint"}]
    /\ hcs \in [Handlers -> SUBSET Actors] /\ start \subseteq Handlers
    /\ request \in [Handlers -> SUBSET Actors] /\ finish \subseteq Handlers
    /\ served \in [Handlers -> SUBSET Actors]

\* The stack holds the handlers that are alive and have filters, each once.
StackInv ==
    /\ \A i \in 1..Len(stack) : life[stack[i]] = "alive" /\ Types[stack[i]] # {}
    /\ \A i, j \in 1..Len(stack) : stack[i] = stack[j] => i = j
    /\ \A h \in Handlers : life[h] = "alive" /\ Types[h] # {} =>
          \E i \in 1..Len(stack) : stack[i] = h

\* Who is in handler functions holds the critical section of the stack, and has gone
\* down the stack from its top, one handler at a time.
FrameInv ==
    /\ stackCs = {} => index = 0
    /\ \A a, b \in stackCs : a = b
    /\ \A a \in stackCs : index = Len(frames[a])
    /\ \A a \in Actors : frames[a] # <<>> =>
          /\ a \in stackCs /\ frames[a][1][2] = "enter"
          /\ Len(frames[a]) <= Len(stack)
          /\ \A i \in 1..Len(frames[a]) : frames[a][i][1] = stack[Len(stack) - i + 1]
    /\ \A a \in Actors : pc[a] \in {"ask", "declined", "chained", "unwind"} =>
          frames[a] # <<>>

\* Who waits for a handler's thread is the one whose request it has.
Waits(a, h) == pc[a] = "wait" /\ At(a) = h
HandoffInv ==
    /\ \A a \in Actors : pc[a] \in {"lock", "wait"} /\ frames[a] = <<>> =>
          a \in Threads /\ doing[a] \in Handlers /\ life[doing[a]] = "alive"
    /\ \A h \in Handlers :
          /\ hcs[h] = request[h]
          /\ \A a \in Actors : a \in request[h] <=> Waits(a, h)
          /\ \A a, b \in request[h] : a = b
          /\ h \in start => pc[h] = "idle"
          /\ h \in finish => pc[h] = "idle" /\ h \notin start /\ served[h] = request[h]
          /\ h \in start \cup finish \/ pc[h] \notin {"none", "idle"} => request[h] # {}

VerdictInv == TypeInv /\ StackInv /\ FrameInv /\ HandoffInv

\* Each handler on the stack has saved the filters of the one below it, and the first
\* one those of the program; the filters that are set are those saved by the last
\* handler that was entered.
Ours == [s \in Slots |-> "breakpad"]
FilterInv ==
    /\ stackCs = {} => filter = IF stack = <<>> THEN Original ELSE Ours
    /\ \A i \in 1..Len(stack) : previous[stack[i]] = IF i = 1 THEN Original ELSE Ours
    /\ \A a \in stackCs : pc[a] \notin {"unwind", "ending"} /\ frames[a] # <<>> =>
          filter = previous[stack[Len(stack) - Len(frames[a]) + 1]]

\* Who holds the critical section has been in a handler function, or is at the end.
HolderInv ==
    \A a \in stackCs : frames[a] # <<>> \/ pc[a] = "ending" \/ proc # "alive"

\* The default HANDLER_ALL, and handlers destroyed in the reverse order.
AllTypesInOrder == Lifo /\ \A h \in Handlers : Types[h] = Slots

-----------------------------------------------------------------------------
(* The handlers and their stack. *)

\* The owner is a thread of the program; the handlers' threads are none of those.
LEMMA Setting ==
    /\ Owner \in Threads /\ Threads \cap Handlers = {} /\ Actors = Threads \cup Handlers
    /\ Original \in [Slots -> Values] /\ \A s \in Slots : Original[s] # "breakpad"
    /\ Types \in [Handlers -> SUBSET Slots] /\ Ours \in [Slots -> Values]
  BY WindowsExceptionHandlerAssumption
  DEF WindowsExceptionHandlerAssumption, Actors, Values, Ours

\* Removing one element of a sequence.
LEMMA RemoveFacts ==
    ASSUME NEW S, NEW s \in Seq(S), NEW i \in 1..Len(s)
    PROVE  /\ RemoveAt(s, i) \in Seq(S) /\ Len(RemoveAt(s, i)) = Len(s) - 1
           /\ \A j \in 1..(Len(s) - 1) :
                 RemoveAt(s, i)[j] = IF j < i THEN s[j] ELSE s[j + 1]
  <1>1. Len(s) \in Nat /\ i \in Nat /\ 1 <= i /\ i <= Len(s)
    OBVIOUS
  <1> DEFINE front == SubSeq(s, 1, i - 1)
             back == SubSeq(s, i + 1, Len(s))
  <1>2. front \in Seq(S) /\ Len(front) = i - 1 /\ \A j \in 1..(i - 1) : front[j] = s[j]
    BY <1>1
  <1>3. /\ back \in Seq(S) /\ Len(back) = Len(s) - i
        /\ \A j \in 1..(Len(s) - i) : back[j] = s[i + j]
    BY <1>1
  <1> HIDE DEF front, back
  <1>4. /\ front \o back \in Seq(S) /\ Len(front \o back) = Len(s) - 1
        /\ \A j \in 1..(i - 1) : (front \o back)[j] = front[j]
        /\ \A j \in i..(Len(s) - 1) : (front \o back)[j] = back[j - (i - 1)]
    BY <1>1, <1>2, <1>3
  <1>5. \A j \in i..(Len(s) - 1) : back[j - (i - 1)] = s[j + 1]
    <2> TAKE j \in i..(Len(s) - 1)
    <2>1. j - (i - 1) \in 1..(Len(s) - i) /\ i + (j - (i - 1)) = j + 1
      BY <1>1
    <2> QED
      BY <2>1, <1>3
  <1>6. RemoveAt(s, i) = front \o back
    BY DEF RemoveAt, front, back
  <1>7. ASSUME NEW j \in 1..(Len(s) - 1)
        PROVE  RemoveAt(s, i)[j] = IF j < i THEN s[j] ELSE s[j + 1]
    <2>1. CASE j < i
      <3>1. j \in 1..(i - 1)
        BY <1>1, <2>1
      <3> QED
        BY <2>1, <3>1, <1>2, <1>4, <1>6
    <2>2. CASE ~(j < i)
      <3>1. j \in i..(Len(s) - 1)
        BY <1>1, <2>2
      <3> QED
        BY <2>2, <3>1, <1>4, <1>5, <1>6
    <2> QED
      BY <2>1, <2>2
  <1> QED
    BY <1>4, <1>6, <1>7

\* What the destructor leaves on the stack.
LEMMA UninstallEffect ==
    ASSUME TypeInv, StackInv, NEW h \in Handlers, Uninstall(h), Types[h] # {}
    PROVE  /\ stackCs = {} /\ life[h] = "alive" /\ life' = [life EXCEPT ![h] = "removed"]
           /\ \E i \in 1..Len(stack) :
                 /\ stack[i] = h /\ stack' \in Seq(Handlers) /\ Len(stack') = Len(stack) - 1
                 /\ \A j \in 1..Len(stack') :
                       stack'[j] = IF j < i THEN stack[j] ELSE stack[j + 1]
  <1> DEFINE i == CHOOSE i \in DOMAIN stack : stack[i] = h
  <1>1. life[h] = "alive" /\ stackCs = {} /\ life' = [life EXCEPT ![h] = "removed"]
    BY DEF Uninstall
  <1>2. i \in 1..Len(stack) /\ stack[i] = h
    <2>1. DOMAIN stack = 1..Len(stack)
      BY DEF TypeInv
    <2>2. \E k \in DOMAIN stack : stack[k] = h
      BY <1>1, <2>1 DEF StackInv
    <2> QED
      BY <2>1, <2>2
  <1>3. stack' = RemoveAt(stack, i)
    BY DEF Uninstall, Removed
  <1>4. stack \in Seq(Handlers)
    BY DEF TypeInv
  <1> HIDE DEF i
  <1>5. /\ stack' \in Seq(Handlers) /\ Len(stack') = Len(stack) - 1
        /\ \A j \in 1..(Len(stack) - 1) :
              stack'[j] = IF j < i THEN stack[j] ELSE stack[j + 1]
    BY <1>2, <1>3, <1>4, RemoveFacts
  <1> QED
    BY <1>1, <1>2, <1>5

\* Who waits, or is about to, does so for a handler.
LEMMA AtHandler ==
    ASSUME TypeInv, HandoffInv, NEW a \in Actors, pc[a] \in {"lock", "wait"}
    PROVE  At(a) \in Handlers
  <1>1. CASE frames[a] = <<>>
    <2>1. a \in Threads /\ doing[a] \in Handlers
      BY <1>1 DEF HandoffInv
    <2> QED
      BY <1>1, <2>1, Setting DEF At
  <1>2. CASE frames[a] # <<>>
    <2>1. frames[a] \in Seq(Handlers \X {"enter", "chained"})
      BY DEF TypeInv
    <2>2. frames[a][Len(frames[a])] \in Handlers \X {"enter", "chained"}
      BY <1>2, <2>1
    <2> QED
      BY <1>2, <2>2 DEF At, Last
  <1> QED
    BY <1>1, <1>2

\* Every step keeps the variables in their types.
LEMMA TypeStays ==
    ASSUME VerdictInv, TypeInv, FrameInv, StackInv, [Next]_vars
    PROVE  TypeInv'
  <1> USE Setting DEF TypeInv, PcStates, Values, statics, object, handoff, output, bounds, Goto
  <1>1. ASSUME NEW h \in Handlers, Construct(h) PROVE TypeInv'
    BY <1>1 DEF Construct
  <1>2. ASSUME NEW h \in Handlers, Install(h) PROVE TypeInv'
    <2>1. /\ UNCHANGED <<index, stackCs, frames, doing, fault, hcs, start, finish,
                          request, served, pc>>
          /\ life' = [life EXCEPT ![h] = "alive"]
      BY <1>2 DEF Install
    <2>2. CASE Types[h] = {}
      BY <1>2, <2>1, <2>2 DEF Install
    <2>3. CASE Types[h] # {}
      <3>1. stack' = Append(stack, h)
        BY <1>2, <2>3 DEF Install
      <3>2. filter' \in [Slots -> Values]
        BY <1>2, <2>3 DEF Install
      <3>3. previous' = [previous EXCEPT ![h] =
                          [s \in Slots |-> IF s \in Types[h] THEN filter[s]
                                           ELSE previous[h][s]]]
        BY <1>2, <2>3 DEF Install
      <3>4. previous' \in [Handlers -> [Slots -> Values]]
        BY <3>3
      <3>5. stack' \in Seq(Handlers)
        BY <3>1
      <3> QED
        BY <2>1, <3>2, <3>4, <3>5
    <2> QED
      BY <2>2, <2>3
  <1>3. ASSUME NEW h \in Handlers, Uninstall(h) PROVE TypeInv'
    <2>1. CASE Types[h] = {}
      BY <1>3, <2>1 DEF Uninstall
    <2>2. CASE Types[h] # {}
      <3>1. stack' \in Seq(Handlers) /\ life' = [life EXCEPT ![h] = "removed"]
        BY <2>2, <1>3, UninstallEffect
      <3>2. /\ UNCHANGED <<index, stackCs, previous, pc, frames, doing, fault, hcs, start,
                          finish, request, served>>
            /\ filter' = [s \in Slots |-> IF s \in Types[h] THEN previous[h][s] ELSE filter[s]]
        BY <2>2, <1>3 DEF Uninstall
      <3> QED
        BY <3>1, <3>2
    <2> QED
      BY <2>1, <2>2
  <1>4. ASSUME NEW h \in Handlers, Destroy(h) PROVE TypeInv'
    BY <1>4 DEF Destroy
  <1>5. ASSUME NEW a \in Actors, NEW f \in FaultKinds, Fault(a, f) PROVE TypeInv'
    <2>1. pc' \in [Actors -> PcStates]
      BY <1>5 DEF Fault
    <2>2. UNCHANGED <<filter, previous, stack, index, stackCs, life, frames, doing,
                    hcs, start, finish,
                        request, served>>
      BY <1>5 DEF Fault
    <2>3. fault' \in [Actors -> Slots \cup {"breakpoint"}]
      BY <1>5, WindowsExceptionHandlerAssumption DEF Fault, WindowsExceptionHandlerAssumption
    <2> QED
      BY <2>1, <2>2, <2>3
  <1>6. ASSUME NEW a \in Actors, Enter(a) PROVE TypeInv'
    <2>1. /\ pc[a] \in {"enter", "chained"} /\ stackCs' = {a}
          /\ UNCHANGED <<stack, previous, life, doing, fault, hcs, start, finish, request,
                         served>>
      BY <1>6 DEF Enter
    <2>2. CASE CsExists /\ index < Len(stack)
      <3> DEFINE h == stack[Len(stack) - index]
      <3>1. h \in Handlers
        BY <2>2
      <3>2. /\ frames' = [frames EXCEPT ![a] = Append(frames[a], <<h, pc[a]>>)]
            /\ filter' = previous[h] /\ index' = index + 1 /\ pc' = [pc EXCEPT ![a] = "ask"]
        BY <1>6, <2>2 DEF Enter
      <3> HIDE DEF h
      <3>3. <<h, pc[a]>> \in Handlers \X {"enter", "chained"}
        BY <2>1, <3>1
      <3>4. Append(frames[a], <<h, pc[a]>>) \in Seq(Handlers \X {"enter", "chained"})
        BY <3>3
      <3>5. frames' \in [Actors -> Seq(Handlers \X {"enter", "chained"})]
        BY <3>2, <3>4
      <3>6. filter' \in [Slots -> Values]
        BY <3>1, <3>2
      <3> QED
        BY <2>1, <3>2, <3>5, <3>6
    <2>3. CASE ~(CsExists /\ index < Len(stack))
      <3>1. /\ UNCHANGED <<filter, index, frames>>
            /\ pc' = pc \/ pc' = [pc EXCEPT ![a] = "ending"]
        BY <1>6, <2>3 DEF Enter
      <3> QED
        BY <2>1, <3>1
    <2> QED
      BY <2>2, <2>3
  <1>7. ASSUME NEW a \in Actors, Ask(a) PROVE TypeInv'
    BY <1>7 DEF Ask
  <1>8. ASSUME NEW a \in Actors, Declined(a) PROVE TypeInv'
    <2>1. pc' \in [Actors -> PcStates]
      BY <1>8 DEF Declined, Chains, GivesUp
    <2>2. UNCHANGED <<filter, previous, stack, index, stackCs, life, frames, doing, fault,
                    hcs, start, finish,
                        request, served>>
      BY <1>8 DEF Declined, Chains, GivesUp
    <2> QED
      BY <2>1, <2>2
  <1>9. ASSUME NEW a \in Actors, Decide(a) PROVE TypeInv'
    <2>1. pc' \in [Actors -> PcStates]
      BY <1>9 DEF Decide
    <2>2. UNCHANGED <<filter, previous, stack, index, stackCs, life, frames, doing, fault,
                    hcs, start, finish,
                        request, served>>
      BY <1>9 DEF Decide
    <2> QED
      BY <2>1, <2>2
  <1>10. ASSUME NEW a \in Actors, Unwind(a) PROVE TypeInv'
    <2>1. frames[a] \in Seq(Handlers \X {"enter", "chained"}) /\ frames[a] # <<>>
      BY <1>10 DEF Unwind, FrameInv
    <2>2. Front(frames[a]) \in Seq(Handlers \X {"enter", "chained"})
      BY <2>1 DEF Front
    <2>3. index = Len(frames[a]) /\ Len(frames[a]) > 0
      BY <2>1 DEF FrameInv
    <2> QED
      BY <1>10, <2>1, <2>2, <2>3 DEF Unwind
  <1>11. ASSUME NEW a \in Actors, End(a) PROVE TypeInv'
    BY <1>11 DEF End
  <1>12. ASSUME NEW t \in Threads, NEW h \in Handlers, WriteMinidump(t, h) PROVE TypeInv'
    BY <1>12 DEF WriteMinidump
  <1>13. ASSUME NEW a \in Actors, HandOver(a) PROVE TypeInv'
    <2>1. pc' \in [Actors -> PcStates]
      BY <1>13 DEF HandOver
    <2>2. UNCHANGED <<filter, previous, stack, index, stackCs, life, frames, doing, fault,
                      finish, served>>
      BY <1>13 DEF HandOver
    <2> DEFINE h == At(a)
    <2>3. h \in Handlers
      BY <1>13, AtHandler DEF HandOver, VerdictInv
    <2>4. \/ UNCHANGED <<hcs, request, start>>
          \/ /\ hcs' = [hcs EXCEPT ![h] = {a}] /\ request' = [request EXCEPT ![h] = {a}]
             /\ start' = start \cup {h}
      BY <1>13 DEF HandOver
    <2> HIDE DEF h
    <2>5. /\ hcs' \in [Handlers -> SUBSET Actors] /\ request' \in [Handlers -> SUBSET Actors]
          /\ start' \subseteq Handlers
      <3>1. {a} \in SUBSET Actors
        OBVIOUS
      <3>2. CASE UNCHANGED <<hcs, request, start>>
        BY <3>2
      <3>3. CASE /\ hcs' = [hcs EXCEPT ![h] = {a}] /\ request' = [request EXCEPT ![h] = {a}]
                 /\ start' = start \cup {h}
        BY <2>3, <3>1, <3>3
      <3> QED
        BY <2>4, <3>2, <3>3
    <2> QED
      BY <2>1, <2>2, <2>5
  <1>14. ASSUME NEW h \in Handlers, WorkerStarts(h) PROVE TypeInv'
    BY <1>14 DEF WorkerStarts
  <1>15. ASSUME NEW a \in Actors, Write(a) PROVE TypeInv'
    <2>1. pc' \in [Actors -> PcStates]
      BY <1>15 DEF Write
    <2>2. UNCHANGED <<filter, previous, stack, index, stackCs, life, frames, doing, fault,
                    hcs, start, finish,
                        request, served>>
      BY <1>15 DEF Write
    <2> QED
      BY <2>1, <2>2
  <1>16. ASSUME NEW a \in Actors, Callback(a) PROVE TypeInv'
    BY <1>16 DEF Callback
  <1>17. ASSUME NEW h \in Handlers, WorkerFinishes(h) PROVE TypeInv'
    BY <1>17 DEF WorkerFinishes
  <1>18. ASSUME NEW a \in Actors, Collect(a) PROVE TypeInv'
    BY <1>18 DEF Collect
  <1>19. ASSUME NEW t \in Threads, WriteReturns(t) PROVE TypeInv'
    BY <1>19 DEF WriteReturns
  <1>20. ASSUME UNCHANGED vars PROVE TypeInv'
    BY <1>20 DEF vars
  <1> HIDE DEF TypeInv, PcStates, Values, statics, object, handoff, output, bounds, Goto
  <1>a. ASSUME NEW a \in Actors, Handle(a) PROVE TypeInv'
    BY <1>a, <1>6, <1>7, <1>8, <1>9, <1>10, <1>11, <1>13, <1>15, <1>16, <1>18
    DEF Handle
  <1> QED
    BY <1>a, <1>1, <1>2, <1>3, <1>4, <1>5, <1>12, <1>14, <1>17, <1>19, <1>20
    DEF Next, Lifecycle, Work

\* What leaves the stack alone, and keeps alive whom it finds alive.
LEMMA StackKept ==
    ASSUME TypeInv, StackInv, stack' = stack,
           \A g \in Handlers : Types[g] # {} => (life'[g] = "alive" <=> life[g] = "alive")
    PROVE  StackInv'
  <1>1. stack \in Seq(Handlers)
    BY DEF TypeInv
  <1>2. \A i \in 1..Len(stack) : stack[i] \in Handlers
    BY <1>1
  <1> QED
    BY <1>2 DEF StackInv

\* A handler is on the stack from its installation until it is removed.
LEMMA StackStays ==
    ASSUME TypeInv, StackInv, [Next]_vars
    PROVE  StackInv'
  <1> USE DEF statics, object, handoff, output, bounds, Goto
  <1>1. ASSUME NEW h \in Handlers, Construct(h) PROVE StackInv'
    <2>1. life' = [life EXCEPT ![h] = "built"] /\ life[h] = "none" /\ stack' = stack
      BY <1>1 DEF Construct
    <2>2. \A g \in Handlers : Types[g] # {} => (life'[g] = "alive" <=> life[g] = "alive")
      BY <2>1 DEF TypeInv
    <2> QED
      BY <2>1, <2>2, StackKept
  <1>2. ASSUME NEW h \in Handlers, Install(h) PROVE StackInv'
    <2>1. life' = [life EXCEPT ![h] = "alive"] /\ life[h] = "built"
      BY <1>2 DEF Install
    <2>2. CASE Types[h] = {}
      <3>1. stack' = stack
        BY <1>2, <2>2 DEF Install
      <3>2. \A g \in Handlers : Types[g] # {} => (life'[g] = "alive" <=> life[g] = "alive")
        BY <2>1, <2>2 DEF TypeInv
      <3> QED
        BY <3>1, <3>2, StackKept
    <2>3. CASE Types[h] # {}
      <3>1. stack' = Append(stack, h) /\ stack \in Seq(Handlers)
        BY <1>2, <2>3 DEF Install, TypeInv
      <3>2. \A i \in 1..Len(stack) : stack[i] \in Handlers /\ stack[i] # h
        BY <2>1, <3>1 DEF StackInv
      <3>3. /\ Len(stack') = Len(stack) + 1 /\ stack'[Len(stack) + 1] = h
            /\ \A i \in 1..Len(stack) : stack'[i] = stack[i]
        BY <3>1
      <3>4. \A i \in 1..Len(stack') : i = Len(stack) + 1 \/ i \in 1..Len(stack)
        BY <3>1, <3>3
      <3>5. life'[h] = "alive" /\ \A g \in Handlers \ {h} : life'[g] = life[g]
        BY <2>1 DEF TypeInv
      <3>6. \A i \in 1..Len(stack') : life'[stack'[i]] = "alive" /\ Types[stack'[i]] # {}
        BY <2>3, <3>2, <3>3, <3>4, <3>5 DEF StackInv
      <3>7. \A i, j \in 1..Len(stack') : stack'[i] = stack'[j] => i = j
        BY <3>2, <3>3, <3>4 DEF StackInv
      <3>8. ASSUME NEW g \in Handlers, life'[g] = "alive", Types[g] # {}
            PROVE  \E i \in 1..Len(stack') : stack'[i] = g
        <4>1. CASE g = h
          <5>1. Len(stack) + 1 \in 1..Len(stack')
            BY <3>1, <3>3
          <5> QED
            BY <3>3, <4>1, <5>1
        <4>2. CASE g # h
          <5>1. PICK i \in 1..Len(stack) : stack[i] = g
            BY <3>5, <3>8, <4>2 DEF StackInv
          <5>2. i \in 1..Len(stack') /\ stack'[i] = g
            BY <3>1, <3>3, <5>1
          <5> QED
            BY <5>2
        <4> QED
          BY <4>1, <4>2
      <3> QED
        BY <3>6, <3>7, <3>8 DEF StackInv
    <2> QED
      BY <2>2, <2>3
  <1>3. ASSUME NEW h \in Handlers, Uninstall(h) PROVE StackInv'
    <2>1. CASE Types[h] = {}
      <3>1. life' = [life EXCEPT ![h] = "removed"] /\ life[h] = "alive" /\ stack' = stack
        BY <1>3, <2>1 DEF Uninstall
      <3>2. \A g \in Handlers : Types[g] # {} => (life'[g] = "alive" <=> life[g] = "alive")
        BY <2>1, <3>1 DEF TypeInv
      <3> QED
        BY <3>1, <3>2, StackKept
    <2>2. CASE Types[h] # {}
      <3>1. life' = [life EXCEPT ![h] = "removed"] /\ life \in [Handlers -> {"none", "built",
              "alive", "removed", "dead"}]
        BY <1>3, <2>2, UninstallEffect DEF TypeInv
      <3>2. PICK i \in 1..Len(stack) :
               /\ stack[i] = h /\ stack' \in Seq(Handlers) /\ Len(stack') = Len(stack) - 1
               /\ \A j \in 1..Len(stack') :
                     stack'[j] = IF j < i THEN stack[j] ELSE stack[j + 1]
        BY <1>3, <2>2, UninstallEffect
      <3>3. /\ i \in Nat /\ Len(stack) \in Nat /\ stack \in Seq(Handlers)
            /\ \A j \in 1..Len(stack') : j \in 1..Len(stack) /\ j + 1 \in 1..Len(stack)
        BY <3>2 DEF TypeInv
      <3>a. \A j, k \in 1..Len(stack) : stack[j] = stack[k] => j = k
        BY DEF StackInv
      <3>4. ASSUME NEW j \in 1..Len(stack')
            PROVE  \E k \in 1..Len(stack) : k # i /\ stack'[j] = stack[k]
        <4>1. CASE j < i
          BY <3>2, <3>3, <4>1
        <4>2. CASE ~(j < i)
          <5>1. j + 1 # i /\ j + 1 \in 1..Len(stack) /\ stack'[j] = stack[j + 1]
            BY <3>2, <3>3, <4>2
          <5> QED
            BY <5>1
        <4> QED
          BY <4>1, <4>2
      <3>6. \A j, k \in 1..Len(stack') : stack'[j] = stack'[k] => j = k
        BY <3>2, <3>3, <3>a
      <3>7. ASSUME NEW g \in Handlers, life'[g] = "alive", Types[g] # {}
            PROVE  \E j \in 1..Len(stack') : stack'[j] = g
        <4>1. PICK k \in 1..Len(stack) : stack[k] = g
          BY <3>1, <3>7 DEF StackInv
        <4>2. k # i
          BY <3>1, <3>2, <3>7, <4>1
        <4>3. CASE k < i
          <5>1. k \in 1..Len(stack') /\ stack'[k] = g
            BY <3>2, <3>3, <4>1, <4>3
          <5> QED
            BY <5>1
        <4>4. CASE ~(k < i)
          <5>1. k - 1 \in 1..Len(stack') /\ ~(k - 1 < i) /\ (k - 1) + 1 = k
            BY <3>2, <3>3, <4>2, <4>4
          <5>2. stack'[k - 1] = g
            BY <3>2, <4>1, <5>1
          <5> QED
            BY <5>1, <5>2
        <4> QED
          BY <4>3, <4>4
      <3>8. \A j \in 1..Len(stack') : life'[stack'[j]] = "alive" /\ Types[stack'[j]] # {}
        <4> TAKE j \in 1..Len(stack')
        <4>1. PICK k \in 1..Len(stack) : k # i /\ stack'[j] = stack[k]
          BY <3>4
        <4>2. stack[k] \in Handlers /\ stack[k] # h
          BY <3>2, <3>3, <3>a, <4>1
        <4> QED
          BY <3>1, <4>1, <4>2 DEF StackInv
      <3> QED
        BY <3>6, <3>7, <3>8 DEF StackInv
    <2> QED
      BY <2>1, <2>2
  <1>4. ASSUME NEW h \in Handlers, Destroy(h) PROVE StackInv'
    <2>1. life' = [life EXCEPT ![h] = "dead"] /\ life[h] = "removed" /\ stack' = stack
      BY <1>4 DEF Destroy
    <2>2. \A g \in Handlers : Types[g] # {} => (life'[g] = "alive" <=> life[g] = "alive")
      BY <2>1 DEF TypeInv
    <2> QED
      BY <2>1, <2>2, StackKept
  <1>5. ASSUME NEW a \in Actors, NEW f \in FaultKinds, Fault(a, f) PROVE StackInv'
    <2>1. stack' = stack /\ life' = life
      BY <1>5 DEF Fault
    <2> QED
      BY <2>1, StackKept
  <1>6. ASSUME NEW a \in Actors, Enter(a) PROVE StackInv'
    <2>1. stack' = stack /\ life' = life
      BY <1>6 DEF Enter
    <2> QED
      BY <2>1, StackKept
  <1>7. ASSUME NEW a \in Actors, Ask(a) PROVE StackInv'
    <2>1. stack' = stack /\ life' = life
      BY <1>7 DEF Ask
    <2> QED
      BY <2>1, StackKept
  <1>8. ASSUME NEW a \in Actors, Declined(a) PROVE StackInv'
    <2>1. stack' = stack /\ life' = life
      BY <1>8 DEF Declined
    <2> QED
      BY <2>1, StackKept
  <1>9. ASSUME NEW a \in Actors, Decide(a) PROVE StackInv'
    <2>1. stack' = stack /\ life' = life
      BY <1>9 DEF Decide
    <2> QED
      BY <2>1, StackKept
  <1>10. ASSUME NEW a \in Actors, Unwind(a) PROVE StackInv'
    <2>1. stack' = stack /\ life' = life
      BY <1>10 DEF Unwind
    <2> QED
      BY <2>1, StackKept
  <1>11. ASSUME NEW a \in Actors, End(a) PROVE StackInv'
    <2>1. stack' = stack /\ life' = life
      BY <1>11 DEF End
    <2> QED
      BY <2>1, StackKept
  <1>12. ASSUME NEW t \in Threads, NEW h \in Handlers, WriteMinidump(t, h) PROVE StackInv'
    <2>1. stack' = stack /\ life' = life
      BY <1>12 DEF WriteMinidump
    <2> QED
      BY <2>1, StackKept
  <1>13. ASSUME NEW a \in Actors, HandOver(a) PROVE StackInv'
    <2>1. stack' = stack /\ life' = life
      BY <1>13 DEF HandOver
    <2> QED
      BY <2>1, StackKept
  <1>14. ASSUME NEW h \in Handlers, WorkerStarts(h) PROVE StackInv'
    <2>1. stack' = stack /\ life' = life
      BY <1>14 DEF WorkerStarts
    <2> QED
      BY <2>1, StackKept
  <1>15. ASSUME NEW a \in Actors, Write(a) PROVE StackInv'
    <2>1. stack' = stack /\ life' = life
      BY <1>15 DEF Write
    <2> QED
      BY <2>1, StackKept
  <1>16. ASSUME NEW a \in Actors, Callback(a) PROVE StackInv'
    <2>1. stack' = stack /\ life' = life
      BY <1>16 DEF Callback
    <2> QED
      BY <2>1, StackKept
  <1>17. ASSUME NEW h \in Handlers, WorkerFinishes(h) PROVE StackInv'
    <2>1. stack' = stack /\ life' = life
      BY <1>17 DEF WorkerFinishes
    <2> QED
      BY <2>1, StackKept
  <1>18. ASSUME NEW a \in Actors, Collect(a) PROVE StackInv'
    <2>1. stack' = stack /\ life' = life
      BY <1>18 DEF Collect
    <2> QED
      BY <2>1, StackKept
  <1>19. ASSUME NEW t \in Threads, WriteReturns(t) PROVE StackInv'
    <2>1. stack' = stack /\ life' = life
      BY <1>19 DEF WriteReturns
    <2> QED
      BY <2>1, StackKept
  <1>20. ASSUME UNCHANGED vars PROVE StackInv'
    BY <1>20, StackKept DEF vars, statics, object
  <1> HIDE DEF statics, object, handoff, output, bounds, Goto
  <1>a. ASSUME NEW a \in Actors, Handle(a) PROVE StackInv'
    BY <1>a, <1>6, <1>7, <1>8, <1>9, <1>10, <1>11, <1>13, <1>15, <1>16, <1>18
    DEF Handle
  <1> QED
    BY <1>a, <1>1, <1>2, <1>3, <1>4, <1>5, <1>12, <1>14, <1>17, <1>19, <1>20
    DEF Next, Lifecycle, Work

\* What leaves the frames alone: nobody comes to where frames are needed without one.
LEMMA FramesKept ==
    ASSUME FrameInv, stack' = stack, index' = index, stackCs' = stackCs, frames' = frames,
           \A a \in Actors : pc'[a] \in {"ask", "declined", "chained", "unwind"} =>
              pc[a] \in {"ask", "declined", "chained", "unwind"} \/ frames[a] # <<>>
    PROVE  FrameInv'
  BY DEF FrameInv

\* Nobody is in a handler function while the stack changes.
LEMMA FramesGone ==
    ASSUME FrameInv, stackCs = {}, index' = index, stackCs' = stackCs, frames' = frames,
           pc' = pc
    PROVE  FrameInv'
  <1>1. \A a \in Actors : frames'[a] = <<>>
    BY DEF FrameInv
  <1> QED
    BY <1>1 DEF FrameInv

\* The index counts the frames of who holds the critical section, or is about to.
LEMMA IndexCounts ==
    ASSUME TypeInv, FrameInv, NEW a \in Actors, stackCs \subseteq {a}
    PROVE  /\ index = Len(frames[a]) /\ frames[a] \in Seq(Handlers \X {"enter", "chained"})
           /\ \A b \in Actors : frames[b] # <<>> => b = a
  <1>1. frames[a] \in Seq(Handlers \X {"enter", "chained"})
    BY DEF TypeInv
  <1>2. index = Len(frames[a])
    <2>1. CASE stackCs = {}
      <3>1. index = 0 /\ frames[a] = <<>>
        BY <2>1 DEF FrameInv
      <3> QED
        BY <3>1
    <2>2. CASE a \in stackCs
      BY <2>2 DEF FrameInv
    <2> QED
      BY <2>1, <2>2
  <1> QED
    BY <1>1, <1>2 DEF FrameInv

\* What is neither nothing nor one leaves something.
LEMMA Beyond ==
    ASSUME NEW n \in Nat, n # 0, n # 1
    PROVE  1 \in 1..(n - 1) /\ n - 1 # 0
  OBVIOUS

\* Handler functions are entered down the stack and left in the reverse order.
LEMMA FramesStay ==
    ASSUME TypeInv, FrameInv, [Next]_vars
    PROVE  FrameInv'
  <1> USE DEF statics, object, handoff, output, bounds, Goto
  <1>1. ASSUME NEW h \in Handlers, Construct(h) PROVE FrameInv'
    <2>1. (\A b \in Actors \ {h} : pc'[b] = pc[b]) /\ pc'[h] \in {pc[h], "idle"}
      BY <1>1, Setting DEF Construct, TypeInv
    <2>2. stack' = stack /\ index' = index /\ stackCs' = stackCs /\ frames' = frames
      BY <1>1 DEF Construct
    <2>3. \A b \in Actors : pc'[b] \in {"ask", "declined", "chained", "unwind"} =>
             pc[b] \in {"ask", "declined", "chained", "unwind"} \/ frames[b] # <<>>
      BY <2>1
    <2> QED
      BY <2>2, <2>3, FramesKept
  <1>2. ASSUME NEW h \in Handlers, Install(h) PROVE FrameInv'
    <2>1. /\ index' = index /\ stackCs' = stackCs /\ frames' = frames /\ pc' = pc
          /\ stack' = stack \/ stackCs = {}
      BY <1>2 DEF Install
    <2> QED
      BY <2>1, FramesKept, FramesGone
  <1>3. ASSUME NEW h \in Handlers, Uninstall(h) PROVE FrameInv'
    <2>1. /\ index' = index /\ stackCs' = stackCs /\ frames' = frames /\ pc' = pc
          /\ stack' = stack \/ stackCs = {}
      BY <1>3 DEF Uninstall
    <2> QED
      BY <2>1, FramesKept, FramesGone
  <1>4. ASSUME NEW h \in Handlers, Destroy(h) PROVE FrameInv'
    <2>1. (\A b \in Actors \ {h} : pc'[b] = pc[b]) /\ pc'[h] \in {"none"}
      BY <1>4, Setting DEF Destroy, TypeInv
    <2>2. stack' = stack /\ index' = index /\ stackCs' = stackCs /\ frames' = frames
      BY <1>4 DEF Destroy
    <2>3. \A b \in Actors : pc'[b] \in {"ask", "declined", "chained", "unwind"} =>
             pc[b] \in {"ask", "declined", "chained", "unwind"} \/ frames[b] # <<>>
      BY <2>1
    <2> QED
      BY <2>2, <2>3, FramesKept
  <1>5. ASSUME NEW a \in Actors, NEW f \in FaultKinds, Fault(a, f) PROVE FrameInv'
    <2>1. (\A b \in Actors \ {a} : pc'[b] = pc[b]) /\ pc'[a] \in {"enter", "ending"}
      BY <1>5, Setting DEF Fault, TypeInv
    <2>2. stack' = stack /\ index' = index /\ stackCs' = stackCs /\ frames' = frames
      BY <1>5 DEF Fault
    <2>3. \A b \in Actors : pc'[b] \in {"ask", "declined", "chained", "unwind"} =>
             pc[b] \in {"ask", "declined", "chained", "unwind"} \/ frames[b] # <<>>
      BY <2>1
    <2> QED
      BY <2>2, <2>3, FramesKept
  <1>6. ASSUME NEW a \in Actors, Enter(a) PROVE FrameInv'
    <2>1. /\ pc[a] \in {"enter", "chained"} /\ stackCs \subseteq {a} /\ stackCs' = {a}
          /\ stack' = stack
      BY <1>6 DEF Enter
    <2>2. /\ index = Len(frames[a]) /\ frames[a] \in Seq(Handlers \X {"enter", "chained"})
          /\ \A b \in Actors : frames[b] # <<>> => b = a
      BY <2>1, IndexCounts
    <2>t. /\ frames \in [Actors -> Seq(Handlers \X {"enter", "chained"})]
          /\ pc \in [Actors -> PcStates] /\ stack \in Seq(Handlers)
      BY DEF TypeInv
    <2>3. CASE CsExists /\ index < Len(stack)
      <3> DEFINE h == stack[Len(stack) - index]
                 e == <<h, pc[a]>>
                 fs == Append(frames[a], e)
      <3>h. h \in Handlers
        BY <2>2, <2>3, <2>t
      <3>3. h = stack[Len(stack) - (Len(frames[a]) + 1) + 1]
        BY <2>2, <2>t
      <3>a. ~(index >= Len(stack)) /\ CsExists
        BY <2>2, <2>3, <2>t
      <3>0. frames' = [frames EXCEPT ![a] = Append(frames[a], <<h, pc[a]>>)]
        BY <1>6, <3>a DEF Enter
      <3>1. index' = index + 1 /\ pc' = [pc EXCEPT ![a] = "ask"]
        BY <1>6, <3>a DEF Enter
      <3> HIDE DEF h
      <3>e. e \in Handlers \X {"enter", "chained"} /\ e[1] = h /\ e[2] = pc[a]
        BY <2>1, <3>h
      <3>f. frames' = [frames EXCEPT ![a] = fs]
        BY <3>0
      <3> HIDE DEF e
      <3>2. /\ Len(fs) = Len(frames[a]) + 1 /\ fs[Len(frames[a]) + 1] = e
            /\ \A i \in 1..Len(frames[a]) : fs[i] = frames[a][i]
        BY <2>2, <3>e
      <3>4. fs[1][2] = "enter"
        <4>1. CASE frames[a] = <<>>
          <5>1. pc[a] = "enter" /\ Len(frames[a]) = 0
            BY <2>1, <4>1 DEF FrameInv
          <5> QED
            BY <3>2, <3>e, <5>1
        <4>2. CASE frames[a] # <<>>
          <5>1. 1 \in 1..Len(frames[a]) /\ frames[a][1][2] = "enter"
            BY <2>2, <4>2 DEF FrameInv
          <5> QED
            BY <3>2, <5>1
        <4> QED
          BY <4>1, <4>2
      <3>5. \A i \in 1..Len(frames[a]) : frames[a][i][1] = stack[Len(stack) - i + 1]
        <4>1. CASE frames[a] = <<>>
          BY <4>1
        <4>2. CASE frames[a] # <<>>
          BY <4>2 DEF FrameInv
        <4> QED
          BY <4>1, <4>2
      <3>6. Len(fs) <= Len(stack)
        BY <2>2, <2>3, <2>t, <3>2
      <3> HIDE DEF fs
      <3>n. fs # <<>>
        BY <2>2, <3>2
      <3>7. ASSUME NEW i \in 1..Len(fs) PROVE fs[i][1] = stack[Len(stack) - i + 1]
        <4>1. i \in 1..Len(frames[a]) \/ i = Len(frames[a]) + 1
          BY <2>2, <3>2
        <4> QED
          BY <3>2, <3>3, <3>e, <3>5, <4>1
      <3>8. frames'[a] = fs /\ \A b \in Actors \ {a} : frames'[b] = <<>> /\ pc'[b] = pc[b]
        BY <2>2, <2>t, <3>1, <3>f
      <3>9. \A b \in Actors : frames'[b] # <<>> => b = a
        BY <3>8
      <3>10. \A b \in Actors : pc'[b] \in {"ask", "declined", "chained", "unwind"} =>
                frames'[b] # <<>>
        BY <2>2, <3>n, <3>8 DEF FrameInv
      <3>11. index' = Len(fs)
        BY <2>2, <3>1, <3>2
      <3> QED
        BY <2>1, <3>4, <3>6, <3>7, <3>8, <3>9, <3>10, <3>11 DEF FrameInv
    <2>4. CASE ~(CsExists /\ index < Len(stack))
      <3>1. /\ index' = index /\ frames' = frames
            /\ pc' = pc \/ pc' = [pc EXCEPT ![a] = "ending"]
        BY <1>6, <2>4 DEF Enter
      <3>2. \A b \in Actors : pc'[b] \in {"ask", "declined", "chained", "unwind"} =>
               pc[b] \in {"ask", "declined", "chained", "unwind"}
        BY <2>t, <3>1
      <3>3. \A b \in Actors : frames[b] # <<>> =>
               /\ frames[b][1][2] = "enter" /\ Len(frames[b]) <= Len(stack)
               /\ \A i \in 1..Len(frames[b]) : frames[b][i][1] = stack[Len(stack) - i + 1]
        BY DEF FrameInv
      <3>4. \A b \in Actors : pc'[b] \in {"ask", "declined", "chained", "unwind"} =>
               frames[b] # <<>>
        BY <3>2 DEF FrameInv
      <3> QED
        BY <2>1, <2>2, <3>1, <3>3, <3>4 DEF FrameInv
    <2> QED
      BY <2>3, <2>4
  <1>7. ASSUME NEW a \in Actors, Ask(a) PROVE FrameInv'
    <2>1. /\ \A b \in Actors \ {a} : pc'[b] = pc[b]
          /\ pc'[a] \in {"declined", "write", "lock"} /\ pc[a] = "ask"
      BY <1>7, Setting DEF Ask, TypeInv
    <2>2. stack' = stack /\ index' = index /\ stackCs' = stackCs /\ frames' = frames
      BY <1>7 DEF Ask
    <2>3. \A b \in Actors : pc'[b] \in {"ask", "declined", "chained", "unwind"} =>
             pc[b] \in {"ask", "declined", "chained", "unwind"} \/ frames[b] # <<>>
      BY <2>1
    <2> QED
      BY <2>2, <2>3, FramesKept
  <1>8. ASSUME NEW a \in Actors, Declined(a) PROVE FrameInv'
    <2>1. (\A b \in Actors \ {a} : pc'[b] = pc[b]) /\ pc[a] = "declined"
      BY <1>8, Setting DEF Declined, Chains, GivesUp, TypeInv
    <2>2. stack' = stack /\ index' = index /\ stackCs' = stackCs /\ frames' = frames
      BY <1>8 DEF Declined, Chains, GivesUp
    <2>3. \A b \in Actors : pc'[b] \in {"ask", "declined", "chained", "unwind"} =>
             pc[b] \in {"ask", "declined", "chained", "unwind"} \/ frames[b] # <<>>
      BY <2>1
    <2> QED
      BY <2>2, <2>3, FramesKept
  <1>9. ASSUME NEW a \in Actors, Decide(a) PROVE FrameInv'
    <2>1. (\A b \in Actors \ {a} : pc'[b] = pc[b]) /\ frames[a] # <<>>
      BY <1>9, Setting DEF Decide, TypeInv
    <2>2. stack' = stack /\ index' = index /\ stackCs' = stackCs /\ frames' = frames
      BY <1>9 DEF Decide
    <2>3. \A b \in Actors : pc'[b] \in {"ask", "declined", "chained", "unwind"} =>
             pc[b] \in {"ask", "declined", "chained", "unwind"} \/ frames[b] # <<>>
      BY <2>1
    <2> QED
      BY <2>2, <2>3, FramesKept
  <1>10. ASSUME NEW a \in Actors, Unwind(a) PROVE FrameInv'
    <2>t. /\ frames \in [Actors -> Seq(Handlers \X {"enter", "chained"})]
          /\ pc \in [Actors -> PcStates] /\ stack \in Seq(Handlers)
      BY DEF TypeInv
    <2>1. /\ pc[a] = "unwind" /\ frames[a] # <<>> /\ a \in stackCs
          /\ frames[a][1][2] = "enter" /\ Len(frames[a]) <= Len(stack)
          /\ \A i \in 1..Len(frames[a]) : frames[a][i][1] = stack[Len(stack) - i + 1]
      BY <1>10 DEF Unwind, FrameInv
    <2>2. stackCs = {a}
      BY <2>1 DEF FrameInv, TypeInv
    <2>3. index = Len(frames[a]) /\ \A b \in Actors : frames[b] # <<>> => b = a
      BY <2>2, IndexCounts
    <2> DEFINE fs == Front(frames[a])
    <2>4. /\ frames' = [frames EXCEPT ![a] = fs] /\ index' = index - 1 /\ stack' = stack
          /\ stackCs' = IF Len(frames[a]) = 1 THEN {} ELSE stackCs
          /\ pc' = [pc EXCEPT ![a] = IF Last(frames[a])[2] = "enter" THEN "ending"
                                      ELSE "unwind"]
      BY <1>10 DEF Unwind
    <2>s. stack' = stack
      BY <2>4
    <2>5. /\ frames[a] \in Seq(Handlers \X {"enter", "chained"})
          /\ Len(frames[a]) \in Nat /\ Len(frames[a]) # 0
      BY <2>1, <2>t
    <2>6. /\ Len(fs) = Len(frames[a]) - 1
          /\ \A i \in 1..(Len(frames[a]) - 1) : fs[i] = frames[a][i]
      BY <2>5 DEF Front
    <2>f. fs \in Seq(Handlers \X {"enter", "chained"})
      BY <2>5 DEF Front
    <2>7. frames'[a] = fs /\ \A b \in Actors \ {a} : frames'[b] = <<>> /\ pc'[b] = pc[b]
      BY <2>3, <2>4, <2>t
    <2> HIDE DEF fs
    <2>8. CASE Len(frames[a]) = 1
      <3>1. fs = <<>> /\ Len(fs) = 0
        BY <2>6, <2>f, <2>8
      <3>2. Last(frames[a])[2] = "enter"
        BY <2>1, <2>8 DEF Last
      <3>3. pc'[a] = "ending"
        BY <2>4, <2>t, <3>2
      <3>4. \A b \in Actors : frames'[b] = <<>>
        BY <2>7, <3>1
      <3>5. \A b \in Actors : pc'[b] \notin {"ask", "declined", "chained", "unwind"}
        BY <2>3, <2>7, <3>3 DEF FrameInv
      <3>6. stackCs' = {} /\ index' = 0
        BY <2>3, <2>4, <2>8
      <3> QED
        BY <3>4, <3>5, <3>6 DEF FrameInv
    <2>9. CASE Len(frames[a]) # 1
      <3>0. Len(frames[a]) \in Nat /\ Len(frames[a]) # 0 /\ Len(frames[a]) # 1
        BY <2>5, <2>9
      <3>1. 1 \in 1..(Len(frames[a]) - 1) /\ Len(frames[a]) - 1 # 0
        BY <3>0, Beyond
      <3>n. fs # <<>>
        BY <2>6, <3>1
      <3>2. fs[1][2] = "enter"
        BY <2>1, <2>6, <3>1
      <3>3. \A i \in 1..Len(fs) : fs[i][1] = stack[Len(stack) - i + 1]
        BY <2>1, <2>5, <2>6
      <3>4. Len(fs) <= Len(stack) /\ index' = Len(fs)
        BY <2>1, <2>3, <2>4, <2>5, <2>6, <2>t
      <3>5. stackCs' = {a}
        BY <2>2, <2>4, <2>9
      <3>6. \A b \in Actors : frames'[b] # <<>> => b = a
        BY <2>7
      <3>7. \A b \in Actors : pc'[b] \in {"ask", "declined", "chained", "unwind"} =>
               frames'[b] # <<>>
        BY <2>3, <2>7, <3>n DEF FrameInv
      <3> QED
        BY <2>s, <2>7, <3>2, <3>3, <3>4, <3>5, <3>6, <3>7 DEF FrameInv
    <2> QED
      BY <2>8, <2>9
  <1>11. ASSUME NEW a \in Actors, End(a) PROVE FrameInv'
    <2>1. pc' = pc
      BY <1>11, Setting DEF End, TypeInv
    <2>2. stack' = stack /\ index' = index /\ stackCs' = stackCs /\ frames' = frames
      BY <1>11 DEF End
    <2>3. \A b \in Actors : pc'[b] \in {"ask", "declined", "chained", "unwind"} =>
             pc[b] \in {"ask", "declined", "chained", "unwind"} \/ frames[b] # <<>>
      BY <2>1
    <2> QED
      BY <2>2, <2>3, FramesKept
  <1>12. ASSUME NEW t \in Threads, NEW h \in Handlers, WriteMinidump(t, h) PROVE FrameInv'
    <2>1. (\A b \in Actors \ {t} : pc'[b] = pc[b]) /\ pc'[t] \in {"write", "lock"}
      BY <1>12, Setting DEF WriteMinidump, TypeInv
    <2>2. stack' = stack /\ index' = index /\ stackCs' = stackCs /\ frames' = frames
      BY <1>12 DEF WriteMinidump
    <2>3. \A b \in Actors : pc'[b] \in {"ask", "declined", "chained", "unwind"} =>
             pc[b] \in {"ask", "declined", "chained", "unwind"} \/ frames[b] # <<>>
      BY <2>1
    <2> QED
      BY <2>2, <2>3, FramesKept
  <1>13. ASSUME NEW a \in Actors, HandOver(a) PROVE FrameInv'
    <2>1. (\A b \in Actors \ {a} : pc'[b] = pc[b]) /\ pc'[a] \in {"result", "wait"}
      BY <1>13, Setting DEF HandOver, TypeInv
    <2>2. stack' = stack /\ index' = index /\ stackCs' = stackCs /\ frames' = frames
      BY <1>13 DEF HandOver
    <2>3. \A b \in Actors : pc'[b] \in {"ask", "declined", "chained", "unwind"} =>
             pc[b] \in {"ask", "declined", "chained", "unwind"} \/ frames[b] # <<>>
      BY <2>1
    <2> QED
      BY <2>2, <2>3, FramesKept
  <1>14. ASSUME NEW h \in Handlers, WorkerStarts(h) PROVE FrameInv'
    <2>1. (\A b \in Actors \ {h} : pc'[b] = pc[b]) /\ pc'[h] \in {"write"}
      BY <1>14, Setting DEF WorkerStarts, TypeInv
    <2>2. stack' = stack /\ index' = index /\ stackCs' = stackCs /\ frames' = frames
      BY <1>14 DEF WorkerStarts
    <2>3. \A b \in Actors : pc'[b] \in {"ask", "declined", "chained", "unwind"} =>
             pc[b] \in {"ask", "declined", "chained", "unwind"} \/ frames[b] # <<>>
      BY <2>1
    <2> QED
      BY <2>2, <2>3, FramesKept
  <1>15. ASSUME NEW a \in Actors, Write(a) PROVE FrameInv'
    <2>1. (\A b \in Actors \ {a} : pc'[b] = pc[b]) /\ pc'[a] \in {"result", "callback"}
      BY <1>15, Setting DEF Write, TypeInv
    <2>2. stack' = stack /\ index' = index /\ stackCs' = stackCs /\ frames' = frames
      BY <1>15 DEF Write
    <2>3. \A b \in Actors : pc'[b] \in {"ask", "declined", "chained", "unwind"} =>
             pc[b] \in {"ask", "declined", "chained", "unwind"} \/ frames[b] # <<>>
      BY <2>1
    <2> QED
      BY <2>2, <2>3, FramesKept
  <1>16. ASSUME NEW a \in Actors, Callback(a) PROVE FrameInv'
    <2>1. (\A b \in Actors \ {a} : pc'[b] = pc[b]) /\ pc'[a] \in {"result"}
      BY <1>16, Setting DEF Callback, TypeInv
    <2>2. stack' = stack /\ index' = index /\ stackCs' = stackCs /\ frames' = frames
      BY <1>16 DEF Callback
    <2>3. \A b \in Actors : pc'[b] \in {"ask", "declined", "chained", "unwind"} =>
             pc[b] \in {"ask", "declined", "chained", "unwind"} \/ frames[b] # <<>>
      BY <2>1
    <2> QED
      BY <2>2, <2>3, FramesKept
  <1>17. ASSUME NEW h \in Handlers, WorkerFinishes(h) PROVE FrameInv'
    <2>1. (\A b \in Actors \ {h} : pc'[b] = pc[b]) /\ pc'[h] \in {"idle"}
      BY <1>17, Setting DEF WorkerFinishes, TypeInv
    <2>2. stack' = stack /\ index' = index /\ stackCs' = stackCs /\ frames' = frames
      BY <1>17 DEF WorkerFinishes
    <2>3. \A b \in Actors : pc'[b] \in {"ask", "declined", "chained", "unwind"} =>
             pc[b] \in {"ask", "declined", "chained", "unwind"} \/ frames[b] # <<>>
      BY <2>1
    <2> QED
      BY <2>2, <2>3, FramesKept
  <1>18. ASSUME NEW a \in Actors, Collect(a) PROVE FrameInv'
    <2>1. (\A b \in Actors \ {a} : pc'[b] = pc[b]) /\ pc'[a] \in {"result"}
      BY <1>18, Setting DEF Collect, TypeInv
    <2>2. stack' = stack /\ index' = index /\ stackCs' = stackCs /\ frames' = frames
      BY <1>18 DEF Collect
    <2>3. \A b \in Actors : pc'[b] \in {"ask", "declined", "chained", "unwind"} =>
             pc[b] \in {"ask", "declined", "chained", "unwind"} \/ frames[b] # <<>>
      BY <2>1
    <2> QED
      BY <2>2, <2>3, FramesKept
  <1>19. ASSUME NEW t \in Threads, WriteReturns(t) PROVE FrameInv'
    <2>1. (\A b \in Actors \ {t} : pc'[b] = pc[b]) /\ pc'[t] \in {"run"}
      BY <1>19, Setting DEF WriteReturns, TypeInv
    <2>2. stack' = stack /\ index' = index /\ stackCs' = stackCs /\ frames' = frames
      BY <1>19 DEF WriteReturns
    <2>3. \A b \in Actors : pc'[b] \in {"ask", "declined", "chained", "unwind"} =>
             pc[b] \in {"ask", "declined", "chained", "unwind"} \/ frames[b] # <<>>
      BY <2>1
    <2> QED
      BY <2>2, <2>3, FramesKept
  <1>20. ASSUME UNCHANGED vars PROVE FrameInv'
    BY <1>20, FramesKept DEF vars, statics
  <1> HIDE DEF statics, object, handoff, output, bounds, Goto
  <1>a. ASSUME NEW a \in Actors, Handle(a) PROVE FrameInv'
    BY <1>a, <1>6, <1>7, <1>8, <1>9, <1>10, <1>11, <1>13, <1>15, <1>16, <1>18
    DEF Handle
  <1> QED
    BY <1>a, <1>1, <1>2, <1>3, <1>4, <1>5, <1>12, <1>14, <1>17, <1>19, <1>20
    DEF Next, Lifecycle, Work

\* Whom an actor works for is in its frames, or what it was called for.
LEMMA AtSame ==
    ASSUME NEW a \in Actors, frames'[a] = frames[a], a \in Threads => doing'[a] = doing[a]
    PROVE  At(a)' = At(a)
  BY Setting DEF At

\* A handler whose thread has a request is alive.
LEMMA RequestedAlive ==
    ASSUME VerdictInv, NEW h \in Handlers, request[h] # {}
    PROVE  life[h] = "alive"
  <1>1. PICK a \in request[h] : TRUE
    OBVIOUS
  <1>2. a \in Actors /\ pc[a] = "wait" /\ At(a) = h
    BY <1>1 DEF VerdictInv, TypeInv, HandoffInv, Waits
  <1>3. CASE frames[a] = <<>>
    <2>1. a \in Threads /\ life[doing[a]] = "alive"
      BY <1>2, <1>3 DEF VerdictInv, HandoffInv
    <2> QED
      BY <1>2, <1>3, <2>1, Setting DEF At
  <1>4. CASE frames[a] # <<>>
    <2>1. /\ frames[a] \in Seq(Handlers \X {"enter", "chained"}) /\ stack \in Seq(Handlers)
          /\ Len(frames[a]) <= Len(stack)
          /\ \A i \in 1..Len(frames[a]) : frames[a][i][1] = stack[Len(stack) - i + 1]
      BY <1>2, <1>4 DEF VerdictInv, TypeInv, FrameInv
    <2>2. Len(frames[a]) \in 1..Len(frames[a])
      BY <1>4, <2>1
    <2>3. Len(stack) - Len(frames[a]) + 1 \in 1..Len(stack)
      BY <2>1, <2>2
    <2>4. h = stack[Len(stack) - Len(frames[a]) + 1]
      BY <1>2, <1>4, <2>1, <2>2 DEF At, Last
    <2> QED
      BY <2>3, <2>4 DEF VerdictInv, StackInv
  <1> QED
    BY <1>3, <1>4

\* What an actor does that neither waits nor is a handler's idle thread.
LEMMA HandoffKept ==
    ASSUME TypeInv, HandoffInv, NEW a \in Actors, pc[a] # "wait", pc'[a] # "wait",
           a \in Handlers => pc[a] \notin {"none", "idle"} /\ pc'[a] \notin {"none", "idle"},
           pc'[a] = "lock" /\ frames'[a] = <<>> =>
              a \in Threads /\ doing'[a] \in Handlers /\ life[doing'[a]] = "alive",
           \A b \in Actors \ {a} : pc'[b] = pc[b] /\ frames'[b] = frames[b],
           \A b \in Threads \ {a} : doing'[b] = doing[b],
           life' = life, hcs' = hcs, start' = start, finish' = finish, request' = request,
           served' = served
    PROVE  HandoffInv'
  <1>1. \A b \in Actors \ {a} : At(b)' = At(b)
    BY AtSame
  <1>2. \A b \in Actors, h \in Handlers : Waits(b, h)' <=> Waits(b, h)
    BY <1>1 DEF Waits
  <1>3. \A b \in Actors : pc'[b] \in {"lock", "wait"} /\ frames'[b] = <<>> =>
           b \in Threads /\ doing'[b] \in Handlers /\ life'[doing'[b]] = "alive"
    <2>1. \A b \in Actors \ {a} : pc[b] \in {"lock", "wait"} /\ frames[b] = <<>> =>
             b \in Threads /\ doing[b] \in Handlers /\ life[doing[b]] = "alive"
      BY DEF HandoffInv
    <2> QED
      BY <2>1
  <1>4. \A h \in Handlers : h = a \/ pc'[h] = pc[h]
    BY Setting
  <1>5. ASSUME NEW h \in Handlers
        PROVE  /\ hcs'[h] = request'[h]
               /\ \A b \in Actors : b \in request'[h] <=> Waits(b, h)'
               /\ \A b, c \in request'[h] : b = c
               /\ h \in start' => pc'[h] = "idle"
               /\ h \in finish' => /\ pc'[h] = "idle" /\ h \notin start'
                                   /\ served'[h] = request'[h]
               /\ h \in start' \cup finish' \/ pc'[h] \notin {"none", "idle"} =>
                     request'[h] # {}
    <2>1. /\ hcs[h] = request[h]
          /\ \A b \in Actors : b \in request[h] <=> Waits(b, h)
          /\ \A b, c \in request[h] : b = c
          /\ h \in start => pc[h] = "idle"
          /\ h \in finish => pc[h] = "idle" /\ h \notin start /\ served[h] = request[h]
          /\ h \in start \cup finish \/ pc[h] \notin {"none", "idle"} => request[h] # {}
      BY DEF HandoffInv
    <2> QED
      BY <1>2, <1>4, <2>1
  <1> QED
    BY <1>3, <1>5 DEF HandoffInv

\* A thread of a handler that is not alive has nothing to do.
LEMMA NobodyAsks ==
    ASSUME VerdictInv, NEW h \in Handlers, life[h] # "alive"
    PROVE  /\ request[h] = {} /\ hcs[h] = {} /\ pc[h] \in {"none", "idle"}
           /\ h \notin start /\ h \notin finish
  <1>1. request[h] = {}
    BY RequestedAlive
  <1> QED
    BY <1>1 DEF VerdictInv, HandoffInv

\* What happens to one handler and its thread, as long as it keeps who waits.
LEMMA HandoffOf ==
    ASSUME TypeInv, HandoffInv, NEW h \in Handlers,
           \A g \in Handlers \ {h} : hcs'[g] = hcs[g] /\ request'[g] = request[g]
                                     /\ served'[g] = served[g] /\ pc'[g] = pc[g]
                                     /\ (g \in start' <=> g \in start)
                                     /\ (g \in finish' <=> g \in finish),
           \A b \in Actors, g \in Handlers \ {h} : Waits(b, g)' <=> Waits(b, g),
           \A b \in Actors : pc'[b] \in {"lock", "wait"} /\ frames'[b] = <<>> =>
              b \in Threads /\ doing'[b] \in Handlers /\ life'[doing'[b]] = "alive",
           /\ hcs'[h] = request'[h]
           /\ \A b \in Actors : b \in request'[h] <=> Waits(b, h)'
           /\ \A b, c \in request'[h] : b = c
           /\ h \in start' => pc'[h] = "idle"
           /\ h \in finish' => /\ pc'[h] = "idle" /\ h \notin start'
                               /\ served'[h] = request'[h]
           /\ h \in start' \cup finish' \/ pc'[h] \notin {"none", "idle"} => request'[h] # {}
    PROVE  HandoffInv'
  <1>1. ASSUME NEW g \in Handlers \ {h}
        PROVE  /\ hcs'[g] = request'[g]
               /\ \A b \in Actors : b \in request'[g] <=> Waits(b, g)'
               /\ \A b, c \in request'[g] : b = c
               /\ g \in start' => pc'[g] = "idle"
               /\ g \in finish' => /\ pc'[g] = "idle" /\ g \notin start'
                                   /\ served'[g] = request'[g]
               /\ g \in start' \cup finish' \/ pc'[g] \notin {"none", "idle"} =>
                     request'[g] # {}
    <2>1. /\ hcs[g] = request[g]
          /\ \A b \in Actors : b \in request[g] <=> Waits(b, g)
          /\ \A b, c \in request[g] : b = c
          /\ g \in start => pc[g] = "idle"
          /\ g \in finish => pc[g] = "idle" /\ g \notin start /\ served[g] = request[g]
          /\ g \in start \cup finish \/ pc[g] \notin {"none", "idle"} => request[g] # {}
      BY DEF HandoffInv
    <2> QED
      BY <2>1
  <1> QED
    BY <1>1 DEF HandoffInv

\* A request stays with the one who waits for it until it is answered.
LEMMA HandoffStays ==
    ASSUME VerdictInv, TypeInv, StackInv, FrameInv, HandoffInv, [Next]_vars
    PROVE  HandoffInv'
  <1> USE DEF statics, object, handoff, output, bounds, Goto
  <1>1. ASSUME NEW h \in Handlers, Construct(h) PROVE HandoffInv'
    <2>1. /\ life[h] = "none" /\ life' = [life EXCEPT ![h] = "built"]
          /\ frames' = frames /\ doing' = doing /\ request' = request /\ served' = served
          /\ \A b \in Actors \ {h} : pc'[b] = pc[b]
      BY <1>1 DEF Construct, TypeInv
    <2>2. /\ request[h] = {} /\ hcs[h] = {} /\ pc[h] \in {"none", "idle"}
          /\ h \notin start /\ h \notin finish
      BY <2>1, NobodyAsks
    <2>3. pc'[h] \in {"none", "idle"} /\ h \in Actors /\ \A g \in Handlers : g \in Actors
      BY <1>1, <2>2, Setting DEF Construct, TypeInv
    <2>4. \A b \in Actors : At(b)' = At(b)
      BY <2>1, AtSame
    <2>5. \A b \in Actors, g \in Handlers : Waits(b, g)' <=> Waits(b, g)
      BY <2>1, <2>2, <2>3, <2>4 DEF Waits
    <2>6. \A b \in Actors : pc'[b] \in {"lock", "wait"} /\ frames'[b] = <<>> =>
             b \in Threads /\ doing'[b] \in Handlers /\ life'[doing'[b]] = "alive"
      <3>1. \A b \in Actors : pc[b] \in {"lock", "wait"} /\ frames[b] = <<>> =>
               b \in Threads /\ doing[b] \in Handlers /\ life[doing[b]] = "alive"
        BY DEF HandoffInv
      <3>2. \A g \in Handlers : life[g] = "alive" => life'[g] = "alive"
        BY <2>1 DEF TypeInv
      <3> QED
        BY <2>1, <2>3, <3>1, <3>2
    <2>7. \A b \in Actors : ~Waits(b, h)'
      BY <2>2, <2>5 DEF HandoffInv
    <2>8. /\ hcs'[h] = {} /\ h \notin start' /\ h \notin finish'
          /\ \A g \in Handlers \ {h} : hcs'[g] = hcs[g] /\ (g \in start' <=> g \in start)
                                       /\ (g \in finish' <=> g \in finish)
      BY <1>1, <2>2 DEF Construct, TypeInv
    <2> QED
      BY <2>1, <2>2, <2>3, <2>5, <2>6, <2>7, <2>8, HandoffOf
  <1>2. ASSUME NEW h \in Handlers, Install(h) PROVE HandoffInv'
    <2>1. /\ life[h] = "built" /\ life' = [life EXCEPT ![h] = "alive"]
          /\ UNCHANGED <<pc, frames, doing, hcs, start, finish, request, served>>
      BY <1>2 DEF Install
    <2>2. \A b \in Actors : At(b)' = At(b)
      BY <2>1, AtSame
    <2>3. \A b \in Actors, g \in Handlers : Waits(b, g)' <=> Waits(b, g)
      BY <2>1, <2>2 DEF Waits
    <2>4. \A b \in Actors : pc[b] \in {"lock", "wait"} /\ frames[b] = <<>> =>
             b \in Threads /\ doing[b] \in Handlers /\ life[doing[b]] = "alive"
      BY DEF HandoffInv
    <2>5. \A b \in Actors : pc'[b] \in {"lock", "wait"} /\ frames'[b] = <<>> =>
             b \in Threads /\ doing'[b] \in Handlers /\ life'[doing'[b]] = "alive"
      BY <2>1, <2>4 DEF TypeInv
    <2> QED
      BY <2>1, <2>3, <2>5 DEF HandoffInv
  <1>3. ASSUME NEW h \in Handlers, Uninstall(h) PROVE HandoffInv'
    <2>1. /\ ~InUse(h) /\ life' = [life EXCEPT ![h] = "removed"]
          /\ UNCHANGED <<pc, frames, doing, hcs, start, finish, request, served>>
      BY <1>3 DEF Uninstall
    <2>2. \A b \in Actors : At(b)' = At(b)
      BY <2>1, AtSame
    <2>3. \A b \in Actors, g \in Handlers : Waits(b, g)' <=> Waits(b, g)
      BY <2>1, <2>2 DEF Waits
    <2>4. \A b \in Actors : pc[b] \in {"lock", "wait"} /\ frames[b] = <<>> =>
             b \in Threads /\ doing[b] \in Handlers /\ life[doing[b]] = "alive"
      BY DEF HandoffInv
    <2>5. \A b \in Actors : pc'[b] \in {"lock", "wait"} /\ frames'[b] = <<>> =>
             b \in Threads /\ doing'[b] \in Handlers /\ life'[doing'[b]] = "alive"
      <3>1. \A b \in Threads : pc[b] \in {"lock", "wait"} /\ frames[b] = <<>> => doing[b] # h
        BY <2>1 DEF InUse
      <3> QED
        BY <2>1, <2>4, <3>1 DEF TypeInv
    <2> QED
      BY <2>1, <2>3, <2>5 DEF HandoffInv
  <1>4. ASSUME NEW h \in Handlers, Destroy(h) PROVE HandoffInv'
    <2>1. /\ life[h] = "removed" /\ life' = [life EXCEPT ![h] = "dead"]
          /\ frames' = frames /\ doing' = doing /\ request' = request /\ served' = served
          /\ \A b \in Actors \ {h} : pc'[b] = pc[b]
      BY <1>4 DEF Destroy, TypeInv
    <2>2. /\ request[h] = {} /\ hcs[h] = {} /\ pc[h] \in {"none", "idle"}
          /\ h \notin start /\ h \notin finish
      BY <2>1, NobodyAsks
    <2>3. pc'[h] \in {"none", "idle"} /\ h \in Actors /\ \A g \in Handlers : g \in Actors
      BY <1>4, <2>2, Setting DEF Destroy, TypeInv
    <2>4. \A b \in Actors : At(b)' = At(b)
      BY <2>1, AtSame
    <2>5. \A b \in Actors, g \in Handlers : Waits(b, g)' <=> Waits(b, g)
      BY <2>1, <2>2, <2>3, <2>4 DEF Waits
    <2>6. \A b \in Actors : pc'[b] \in {"lock", "wait"} /\ frames'[b] = <<>> =>
             b \in Threads /\ doing'[b] \in Handlers /\ life'[doing'[b]] = "alive"
      <3>1. \A b \in Actors : pc[b] \in {"lock", "wait"} /\ frames[b] = <<>> =>
               b \in Threads /\ doing[b] \in Handlers /\ life[doing[b]] = "alive"
        BY DEF HandoffInv
      <3>2. \A g \in Handlers : life[g] = "alive" => life'[g] = "alive"
        BY <2>1 DEF TypeInv
      <3> QED
        BY <2>1, <2>3, <3>1, <3>2
    <2>7. \A b \in Actors : ~Waits(b, h)'
      BY <2>2, <2>5 DEF HandoffInv
    <2>8. /\ hcs'[h] = {} /\ h \notin start' /\ h \notin finish'
          /\ \A g \in Handlers \ {h} : hcs'[g] = hcs[g] /\ (g \in start' <=> g \in start)
                                       /\ (g \in finish' <=> g \in finish)
      BY <1>4, <2>2 DEF Destroy, TypeInv
    <2> QED
      BY <2>1, <2>2, <2>3, <2>5, <2>6, <2>7, <2>8, HandoffOf
  <1>5. ASSUME NEW a \in Actors, NEW f \in FaultKinds, Fault(a, f) PROVE HandoffInv'
    <2>1. /\ pc[a] \in {"run", "write", "callback"} /\ (a \in Handlers => pc[a] # "run")
          /\ pc'[a] \in {"enter", "ending"}
      BY <1>5, Setting DEF Fault, TypeInv, PcStates
    <2>2. /\ \A b \in Actors \ {a} : pc'[b] = pc[b] /\ frames'[b] = frames[b]
          /\ \A b \in Threads \ {a} : doing'[b] = doing[b]
          /\ UNCHANGED <<life, hcs, start, finish, request, served>>
      BY <1>5, Setting DEF Fault, TypeInv
    <2>3. a \in Actors
      BY Setting
    <2> QED
      BY <2>1, <2>2, <2>3, HandoffKept
  <1>6. ASSUME NEW a \in Actors, Enter(a) PROVE HandoffInv'
    <2>1. pc[a] \in {"enter", "chained"} /\ pc'[a] \in {"enter", "chained", "ask", "ending"}
      BY <1>6, Setting DEF Enter, TypeInv, PcStates
    <2>2. /\ \A b \in Actors \ {a} : pc'[b] = pc[b] /\ frames'[b] = frames[b]
          /\ \A b \in Threads \ {a} : doing'[b] = doing[b]
          /\ UNCHANGED <<life, hcs, start, finish, request, served>>
      BY <1>6, Setting DEF Enter, TypeInv
    <2>3. a \in Actors
      BY Setting
    <2> QED
      BY <2>1, <2>2, <2>3, HandoffKept
  <1>7. ASSUME NEW a \in Actors, Ask(a) PROVE HandoffInv'
    <2>1. /\ pc[a] \in {"ask"} /\ pc'[a] \in {"declined", "write", "lock"}
          /\ frames' = frames /\ frames[a] # <<>>
      BY <1>7, Setting DEF Ask, TypeInv, PcStates, FrameInv
    <2>2. /\ \A b \in Actors \ {a} : pc'[b] = pc[b] /\ frames'[b] = frames[b]
          /\ \A b \in Threads \ {a} : doing'[b] = doing[b]
          /\ UNCHANGED <<life, hcs, start, finish, request, served>>
      BY <1>7, Setting DEF Ask, TypeInv
    <2>3. a \in Actors
      BY Setting
    <2> QED
      BY <2>1, <2>2, <2>3, HandoffKept
  <1>8. ASSUME NEW a \in Actors, Declined(a) PROVE HandoffInv'
    <2>1. pc[a] \in {"declined"} /\ pc'[a] \in {"chained", "unwind", "ending"}
      BY <1>8, Setting DEF Declined, Chains, GivesUp, TypeInv, PcStates
    <2>2. /\ \A b \in Actors \ {a} : pc'[b] = pc[b] /\ frames'[b] = frames[b]
          /\ \A b \in Threads \ {a} : doing'[b] = doing[b]
          /\ UNCHANGED <<life, hcs, start, finish, request, served>>
      BY <1>8, Setting DEF Declined, Chains, GivesUp, TypeInv
    <2>3. a \in Actors
      BY Setting
    <2> QED
      BY <2>1, <2>2, <2>3, HandoffKept
  <1>9. ASSUME NEW a \in Actors, Decide(a) PROVE HandoffInv'
    <2>1. pc[a] \in {"result"} /\ pc'[a] \in {"declined", "unwind", "ending"}
      BY <1>9, Setting DEF Decide, TypeInv, PcStates
    <2>2. /\ \A b \in Actors \ {a} : pc'[b] = pc[b] /\ frames'[b] = frames[b]
          /\ \A b \in Threads \ {a} : doing'[b] = doing[b]
          /\ UNCHANGED <<life, hcs, start, finish, request, served>>
      BY <1>9, Setting DEF Decide, TypeInv
    <2>3. a \in Actors
      BY Setting
    <2> QED
      BY <2>1, <2>2, <2>3, HandoffKept
  <1>10. ASSUME NEW a \in Actors, Unwind(a) PROVE HandoffInv'
    <2>1. pc[a] \in {"unwind"} /\ pc'[a] \in {"unwind", "ending"}
      BY <1>10, Setting DEF Unwind, TypeInv, PcStates
    <2>2. /\ \A b \in Actors \ {a} : pc'[b] = pc[b] /\ frames'[b] = frames[b]
          /\ \A b \in Threads \ {a} : doing'[b] = doing[b]
          /\ UNCHANGED <<life, hcs, start, finish, request, served>>
      BY <1>10, Setting DEF Unwind, TypeInv
    <2>3. a \in Actors
      BY Setting
    <2> QED
      BY <2>1, <2>2, <2>3, HandoffKept
  <1>11. ASSUME NEW a \in Actors, End(a) PROVE HandoffInv'
    <2>1. pc[a] \in {"ending"} /\ pc'[a] \in {"ending"}
      BY <1>11, Setting DEF End, TypeInv, PcStates
    <2>2. /\ \A b \in Actors \ {a} : pc'[b] = pc[b] /\ frames'[b] = frames[b]
          /\ \A b \in Threads \ {a} : doing'[b] = doing[b]
          /\ UNCHANGED <<life, hcs, start, finish, request, served>>
      BY <1>11, Setting DEF End, TypeInv
    <2>3. a \in Actors
      BY Setting
    <2> QED
      BY <2>1, <2>2, <2>3, HandoffKept
  <1>12. ASSUME NEW t \in Threads, NEW h \in Handlers, WriteMinidump(t, h) PROVE HandoffInv'
    <2>1. /\ pc[t] = "run" /\ pc'[t] \in {"write", "lock"} /\ t \notin Handlers
          /\ doing'[t] = h /\ life[h] = "alive"
      BY <1>12, Setting DEF WriteMinidump, TypeInv, PcStates
    <2>2. /\ \A b \in Actors \ {t} : pc'[b] = pc[b] /\ frames'[b] = frames[b]
          /\ \A b \in Threads \ {t} : doing'[b] = doing[b]
          /\ UNCHANGED <<life, hcs, start, finish, request, served>>
      BY <1>12, Setting DEF WriteMinidump, TypeInv
    <2>3. t \in Actors
      BY Setting
    <2> QED
      BY <2>1, <2>2, <2>3, HandoffKept
  <1>13. ASSUME NEW a \in Actors, HandOver(a) PROVE HandoffInv'
    <2>p. PICK h \in Handlers : h = At(a)
      BY <1>13, AtHandler DEF HandOver
    <2>h. h \in Handlers /\ h \in Actors /\ \A g \in Handlers : g \in Actors
      BY Setting
    <2>i. /\ hcs[h] = request[h]
          /\ \A b \in Actors : b \in request[h] <=> Waits(b, h)
          /\ \A b, c \in request[h] : b = c
          /\ h \in start => pc[h] = "idle"
          /\ h \in finish => pc[h] = "idle" /\ h \notin start /\ served[h] = request[h]
          /\ h \in start \cup finish \/ pc[h] \notin {"none", "idle"} => request[h] # {}
      BY <2>h DEF HandoffInv
    <2>l. \A b \in Actors : pc[b] \in {"lock", "wait"} /\ frames[b] = <<>> =>
             b \in Threads /\ doing[b] \in Handlers /\ life[doing[b]] = "alive"
      BY DEF HandoffInv
    <2>1. /\ pc[a] = "lock" /\ hcs[h] \subseteq {a} /\ finish' = finish /\ served' = served
          /\ UNCHANGED <<life, frames, doing>>
      BY <1>13, <2>p DEF HandOver
    <2>2. CASE pc[h] = "none"
      <3>1. pc' = [pc EXCEPT ![a] = "result"] /\ UNCHANGED <<hcs, request, start>>
        BY <1>13, <2>p, <2>2 DEF HandOver
      <3>2. /\ pc'[a] = "result" /\ pc[a] = "lock"
            /\ \A b \in Actors \ {a} : pc'[b] = pc[b] /\ frames'[b] = frames[b]
        BY <2>1, <3>1 DEF TypeInv
      <3> QED
        BY <2>1, <3>1, <3>2, HandoffKept
    <2>3. CASE pc[h] # "none"
      <3>1. /\ pc' = [pc EXCEPT ![a] = "wait"] /\ hcs' = [hcs EXCEPT ![h] = {a}]
            /\ request' = [request EXCEPT ![h] = {a}] /\ start' = start \cup {h}
        BY <1>13, <2>p, <2>3 DEF HandOver
      <3>2. ~Waits(a, h) /\ request[h] = {}
        <4>1. ~Waits(a, h)
          BY <2>1, <2>p DEF Waits
        <4> QED
          BY <2>1, <2>i, <4>1
      <3>3. pc[h] = "idle" /\ h \notin start /\ h \notin finish /\ h # a
        BY <2>1, <2>3, <2>i, <3>2 DEF TypeInv
      <3>4. pc'[a] = "wait" /\ \A b \in Actors \ {a} : pc'[b] = pc[b]
        BY <3>1 DEF TypeInv
      <3>5. \A b \in Actors : At(b)' = At(b)
        BY <2>1, AtSame
      <3>6. \A b \in Actors, g \in Handlers :
               Waits(b, g)' <=> Waits(b, g) \/ (b = a /\ g = h)
        BY <2>1, <2>p, <3>4, <3>5 DEF Waits
      <3>7. request'[h] = {a} /\ hcs'[h] = {a}
        BY <2>h, <3>1 DEF TypeInv
      <3>8. \A g \in Handlers \ {h} : hcs'[g] = hcs[g] /\ request'[g] = request[g]
                                      /\ (g \in start' <=> g \in start)
        BY <3>1 DEF TypeInv
      <3>9. \A b \in Actors : b \in request'[h] <=> Waits(b, h)'
        BY <2>h, <2>i, <3>2, <3>6, <3>7
      <3>10. ASSUME NEW g \in Handlers
             PROVE  /\ hcs'[g] = request'[g]
                    /\ \A b \in Actors : b \in request'[g] <=> Waits(b, g)'
                    /\ \A b, c \in request'[g] : b = c
                    /\ g \in start' => pc'[g] = "idle"
                    /\ g \in finish' => /\ pc'[g] = "idle" /\ g \notin start'
                                        /\ served'[g] = request'[g]
                    /\ g \in start' \cup finish' \/ pc'[g] \notin {"none", "idle"} =>
                          request'[g] # {}
        <4>1. CASE g = h
          BY <2>1, <2>h, <3>3, <3>4, <3>7, <3>9, <4>1
        <4>2. CASE g # h
          <5>1. /\ hcs[g] = request[g]
                /\ \A b \in Actors : b \in request[g] <=> Waits(b, g)
                /\ \A b, c \in request[g] : b = c
                /\ g \in start => pc[g] = "idle"
                /\ g \in finish => /\ pc[g] = "idle" /\ g \notin start
                                   /\ served[g] = request[g]
                /\ g \in start \cup finish \/ pc[g] \notin {"none", "idle"} =>
                      request[g] # {}
            BY DEF HandoffInv
          <5>2. hcs'[g] = hcs[g] /\ request'[g] = request[g] /\ (g \in start' <=> g \in start)
            BY <3>8, <4>2
          <5>3. \A b \in Actors : b \in request'[g] <=> Waits(b, g)'
            BY <3>6, <4>2, <5>1, <5>2
          <5>4. pc'[g] = pc[g] \/ (pc[g] = "lock" /\ pc'[g] = "wait")
            BY <2>1, <2>h, <3>4
          <5> QED
            BY <2>1, <5>1, <5>2, <5>3, <5>4
        <4> QED
          BY <4>1, <4>2
      <3>11. \A b \in Actors : pc'[b] \in {"lock", "wait"} /\ frames'[b] = <<>> =>
                b \in Threads /\ doing'[b] \in Handlers /\ life'[doing'[b]] = "alive"
        BY <2>1, <2>l, <3>4
      <3> QED
        BY <3>10, <3>11 DEF HandoffInv
    <2> QED
      BY <2>2, <2>3
  <1>14. ASSUME NEW h \in Handlers, WorkerStarts(h) PROVE HandoffInv'
    <2>1. /\ pc[h] = "idle" /\ pc'[h] = "write" /\ h \in start /\ start' = start \ {h}
          /\ finish' = finish
          /\ \A b \in Actors \ {h} : pc'[b] = pc[b]
          /\ UNCHANGED <<life, frames, doing, hcs, request>>
      BY <1>14, Setting DEF WorkerStarts, TypeInv
    <2>i. /\ hcs[h] = request[h]
          /\ \A b \in Actors : b \in request[h] <=> Waits(b, h)
          /\ \A b, c \in request[h] : b = c
          /\ h \in start => pc[h] = "idle"
          /\ h \in finish => pc[h] = "idle" /\ h \notin start /\ served[h] = request[h]
          /\ h \in start \cup finish \/ pc[h] \notin {"none", "idle"} => request[h] # {}
      BY DEF HandoffInv
    <2>l. \A b \in Actors : pc[b] \in {"lock", "wait"} /\ frames[b] = <<>> =>
             b \in Threads /\ doing[b] \in Handlers /\ life[doing[b]] = "alive"
      BY DEF HandoffInv
    <2>2. h \in Actors /\ \A g \in Handlers : g \in Actors
      BY Setting
    <2>3. \A b \in Actors : At(b)' = At(b)
      BY <2>1, AtSame
    <2>4. \A b \in Actors, g \in Handlers : Waits(b, g)' <=> Waits(b, g)
      BY <2>1, <2>3 DEF Waits
    <2>5. \A b \in Actors : pc'[b] \in {"lock", "wait"} /\ frames'[b] = <<>> =>
             b \in Threads /\ doing'[b] \in Handlers /\ life'[doing'[b]] = "alive"
      BY <2>1, <2>l
    <2>6. \A g \in Handlers \ {h} : (g \in start' <=> g \in start) /\ served'[g] = served[g]
                                    /\ (g \in finish' <=> g \in finish)
      BY <1>14 DEF WorkerStarts, TypeInv
    <2>7. /\ \A b \in Actors : b \in request'[h] <=> Waits(b, h)'
          /\ hcs'[h] = request'[h] /\ \A b, c \in request'[h] : b = c
      BY <2>1, <2>4, <2>i
    <2>8. h \notin start' /\ h \notin finish' /\ request'[h] # {}
      BY <2>1, <2>i
    <2> QED
      BY <2>1, <2>2, <2>4, <2>5, <2>6, <2>7, <2>8, HandoffOf
  <1>15. ASSUME NEW a \in Actors, Write(a) PROVE HandoffInv'
    <2>1. pc[a] \in {"write"} /\ pc'[a] \in {"callback", "result"}
      BY <1>15, Setting DEF Write, TypeInv, PcStates
    <2>2. /\ \A b \in Actors \ {a} : pc'[b] = pc[b] /\ frames'[b] = frames[b]
          /\ \A b \in Threads \ {a} : doing'[b] = doing[b]
          /\ UNCHANGED <<life, hcs, start, finish, request, served>>
      BY <1>15, Setting DEF Write, TypeInv
    <2>3. a \in Actors
      BY Setting
    <2> QED
      BY <2>1, <2>2, <2>3, HandoffKept
  <1>16. ASSUME NEW a \in Actors, Callback(a) PROVE HandoffInv'
    <2>1. pc[a] \in {"callback"} /\ pc'[a] \in {"result"}
      BY <1>16, Setting DEF Callback, TypeInv, PcStates
    <2>2. /\ \A b \in Actors \ {a} : pc'[b] = pc[b] /\ frames'[b] = frames[b]
          /\ \A b \in Threads \ {a} : doing'[b] = doing[b]
          /\ UNCHANGED <<life, hcs, start, finish, request, served>>
      BY <1>16, Setting DEF Callback, TypeInv
    <2>3. a \in Actors
      BY Setting
    <2> QED
      BY <2>1, <2>2, <2>3, HandoffKept
  <1>17. ASSUME NEW h \in Handlers, WorkerFinishes(h) PROVE HandoffInv'
    <2>1. /\ pc[h] = "result" /\ pc'[h] = "idle" /\ h \in finish' /\ start' = start
          /\ served'[h] = request[h]
          /\ \A b \in Actors \ {h} : pc'[b] = pc[b]
          /\ UNCHANGED <<life, frames, doing, hcs, request>>
      BY <1>17, Setting DEF WorkerFinishes, TypeInv
    <2>i. /\ hcs[h] = request[h]
          /\ \A b \in Actors : b \in request[h] <=> Waits(b, h)
          /\ \A b, c \in request[h] : b = c
          /\ h \in start => pc[h] = "idle"
          /\ h \in finish => pc[h] = "idle" /\ h \notin start /\ served[h] = request[h]
          /\ h \in start \cup finish \/ pc[h] \notin {"none", "idle"} => request[h] # {}
      BY DEF HandoffInv
    <2>l. \A b \in Actors : pc[b] \in {"lock", "wait"} /\ frames[b] = <<>> =>
             b \in Threads /\ doing[b] \in Handlers /\ life[doing[b]] = "alive"
      BY DEF HandoffInv
    <2>2. h \in Actors /\ \A g \in Handlers : g \in Actors
      BY Setting
    <2>3. \A b \in Actors : At(b)' = At(b)
      BY <2>1, AtSame
    <2>4. \A b \in Actors, g \in Handlers : Waits(b, g)' <=> Waits(b, g)
      BY <2>1, <2>3 DEF Waits
    <2>5. \A b \in Actors : pc'[b] \in {"lock", "wait"} /\ frames'[b] = <<>> =>
             b \in Threads /\ doing'[b] \in Handlers /\ life'[doing'[b]] = "alive"
      BY <2>1, <2>l
    <2>6. \A g \in Handlers \ {h} : (g \in start' <=> g \in start) /\ served'[g] = served[g]
                                    /\ (g \in finish' <=> g \in finish)
      BY <1>17 DEF WorkerFinishes, TypeInv
    <2>7. /\ \A b \in Actors : b \in request'[h] <=> Waits(b, h)'
          /\ hcs'[h] = request'[h] /\ \A b, c \in request'[h] : b = c
      BY <2>1, <2>4, <2>i
    <2>8. h \notin start' /\ served'[h] = request'[h] /\ request'[h] # {}
      BY <2>1, <2>i
    <2> QED
      BY <2>1, <2>2, <2>4, <2>5, <2>6, <2>7, <2>8, HandoffOf
  <1>18. ASSUME NEW a \in Actors, Collect(a) PROVE HandoffInv'
    <2>p. PICK h \in Handlers : h = At(a)
      BY <1>18, AtHandler DEF Collect
    <2>h. h \in Handlers /\ h \in Actors /\ \A g \in Handlers : g \in Actors
      BY Setting
    <2>i. /\ hcs[h] = request[h]
          /\ \A b \in Actors : b \in request[h] <=> Waits(b, h)
          /\ \A b, c \in request[h] : b = c
          /\ h \in start => pc[h] = "idle"
          /\ h \in finish => pc[h] = "idle" /\ h \notin start /\ served[h] = request[h]
          /\ h \in start \cup finish \/ pc[h] \notin {"none", "idle"} => request[h] # {}
      BY <2>h DEF HandoffInv
    <2>l. \A b \in Actors : pc[b] \in {"lock", "wait"} /\ frames[b] = <<>> =>
             b \in Threads /\ doing[b] \in Handlers /\ life[doing[b]] = "alive"
      BY DEF HandoffInv
    <2>1. /\ pc[a] = "wait" /\ h \in finish /\ start' = start /\ finish' = finish \ {h}
          /\ request' = [request EXCEPT ![h] = {}] /\ hcs' = [hcs EXCEPT ![h] = {}]
          /\ served' = [served EXCEPT ![h] = {}] /\ pc' = [pc EXCEPT ![a] = "result"]
          /\ UNCHANGED <<life, frames, doing>>
      BY <1>18, <2>p DEF Collect
    <2>2. Waits(a, h)
      BY <2>1, <2>p DEF Waits
    <2>3. request[h] = {a} /\ pc[h] = "idle" /\ h \notin start /\ h # a
      BY <2>1, <2>2, <2>i, <2>h
    <2>4. pc'[a] = "result" /\ \A b \in Actors \ {a} : pc'[b] = pc[b]
      BY <2>1 DEF TypeInv
    <2>5. \A b \in Actors : At(b)' = At(b)
      BY <2>1, AtSame
    <2>6. \A b \in Actors, g \in Handlers : Waits(b, g)' <=> Waits(b, g) /\ b # a
      BY <2>1, <2>4, <2>5 DEF Waits
    <2>7. request'[h] = {} /\ hcs'[h] = {} /\ h \notin finish'
      BY <2>1, <2>h DEF TypeInv
    <2>8. \A g \in Handlers \ {h} : hcs'[g] = hcs[g] /\ request'[g] = request[g]
                                    /\ served'[g] = served[g]
                                    /\ (g \in finish' <=> g \in finish)
      BY <2>1 DEF TypeInv
    <2>9. \A g \in Handlers \ {h} : ~Waits(a, g)
      BY <2>2, <2>p DEF Waits
    <2>10. \A b \in Actors : ~Waits(b, h)'
      BY <2>h, <2>i, <2>3, <2>6
    <2>11. ASSUME NEW g \in Handlers
           PROVE  /\ hcs'[g] = request'[g]
                  /\ \A b \in Actors : b \in request'[g] <=> Waits(b, g)'
                  /\ \A b, c \in request'[g] : b = c
                  /\ g \in start' => pc'[g] = "idle"
                  /\ g \in finish' => /\ pc'[g] = "idle" /\ g \notin start'
                                      /\ served'[g] = request'[g]
                  /\ g \in start' \cup finish' \/ pc'[g] \notin {"none", "idle"} =>
                        request'[g] # {}
      <3>1. CASE g = h
        BY <2>1, <2>h, <2>3, <2>4, <2>7, <2>10, <3>1
      <3>2. CASE g # h
        <4>1. /\ hcs[g] = request[g]
              /\ \A b \in Actors : b \in request[g] <=> Waits(b, g)
              /\ \A b, c \in request[g] : b = c
              /\ g \in start => pc[g] = "idle"
              /\ g \in finish => pc[g] = "idle" /\ g \notin start /\ served[g] = request[g]
              /\ g \in start \cup finish \/ pc[g] \notin {"none", "idle"} => request[g] # {}
          BY DEF HandoffInv
        <4>2. /\ hcs'[g] = hcs[g] /\ request'[g] = request[g] /\ served'[g] = served[g]
              /\ (g \in finish' <=> g \in finish)
          BY <2>8, <3>2
        <4>3. \A b \in Actors : b \in request'[g] <=> Waits(b, g)'
          BY <2>6, <2>9, <3>2, <4>1, <4>2
        <4>4. pc'[g] = pc[g] \/ (pc[g] = "wait" /\ pc'[g] = "result")
          BY <2>1, <2>h, <2>4
        <4> QED
          BY <2>1, <4>1, <4>2, <4>3, <4>4
      <3> QED
        BY <3>1, <3>2
    <2>12. \A b \in Actors : pc'[b] \in {"lock", "wait"} /\ frames'[b] = <<>> =>
              b \in Threads /\ doing'[b] \in Handlers /\ life'[doing'[b]] = "alive"
      BY <2>1, <2>l, <2>4
    <2> QED
      BY <2>11, <2>12 DEF HandoffInv
  <1>19. ASSUME NEW t \in Threads, WriteReturns(t) PROVE HandoffInv'
    <2>1. pc[t] = "result" /\ pc'[t] = "run" /\ t \notin Handlers
      BY <1>19, Setting DEF WriteReturns, TypeInv, PcStates
    <2>2. /\ \A b \in Actors \ {t} : pc'[b] = pc[b] /\ frames'[b] = frames[b]
          /\ \A b \in Threads \ {t} : doing'[b] = doing[b]
          /\ UNCHANGED <<life, hcs, start, finish, request, served>>
      BY <1>19, Setting DEF WriteReturns, TypeInv
    <2>3. t \in Actors
      BY Setting
    <2> QED
      BY <2>1, <2>2, <2>3, HandoffKept
  <1>20. ASSUME UNCHANGED vars PROVE HandoffInv'
    <2>1. /\ UNCHANGED <<pc, frames, doing, life, hcs, start, finish, request, served>>
      BY <1>20 DEF vars
    <2>2. \A b \in Actors : At(b)' = At(b)
      BY <2>1, AtSame
    <2>3. \A b \in Actors, g \in Handlers : Waits(b, g)' <=> Waits(b, g)
      BY <2>1, <2>2 DEF Waits
    <2> QED
      BY <2>1, <2>3 DEF HandoffInv
  <1> HIDE DEF statics, object, handoff, output, bounds, Goto
  <1>a. ASSUME NEW a \in Actors, Handle(a) PROVE HandoffInv'
    BY <1>a, <1>6, <1>7, <1>8, <1>9, <1>10, <1>11, <1>13, <1>15, <1>16, <1>18
    DEF Handle
  <1> QED
    BY <1>a, <1>1, <1>2, <1>3, <1>4, <1>5, <1>12, <1>14, <1>17, <1>19, <1>20
    DEF Next, Lifecycle, Work

-----------------------------------------------------------------------------
(* The filters. *)

\* What leaves stack and filters alone, and nobody who was about to end or to unwind
\* goes anywhere else.
LEMMA FiltersKept ==
    ASSUME FilterInv, stack' = stack, filter' = filter, previous' = previous,
           stackCs' = stackCs, frames' = frames,
           \A a \in stackCs : pc[a] \in {"unwind", "ending"} => pc'[a] \in {"unwind", "ending"}
    PROVE  FilterInv'
  BY DEF FilterInv

\* As above, of what changes one place.
LEMMA FiltersKeptBy ==
    ASSUME TypeInv, FilterInv, NEW a \in Actors, pc[a] \notin {"unwind", "ending"},
           stack' = stack, filter' = filter, previous' = previous,
           stackCs' = stackCs, frames' = frames, \A b \in Actors \ {a} : pc'[b] = pc[b]
    PROVE  FilterInv'
  BY FiltersKept DEF TypeInv

\* In the reverse order of construction, what is removed is the top of the stack.
LEMMA LastIsRemoved ==
    ASSUME TypeInv, StackInv, AllTypesInOrder, NEW h \in Handlers, Uninstall(h)
    PROVE  /\ stack # <<>> /\ stack[Len(stack)] = h /\ stack' \in Seq(Handlers)
           /\ Len(stack') = Len(stack) - 1
           /\ \A j \in 1..Len(stack') : j \in 1..Len(stack) /\ stack'[j] = stack[j]
           /\ filter' = previous[h] /\ stackCs = {}
  <1>1. Types[h] # {} /\ Types[h] = Slots
    BY DEF AllTypesInOrder, Slots
  <1>2. stackCs = {} /\ filter' = [s \in Slots |-> previous[h][s]]
    BY <1>1 DEF Uninstall
  <1>3. filter' = previous[h]
    BY <1>2 DEF TypeInv
  <1>4. PICK i \in 1..Len(stack) :
           /\ stack[i] = h /\ stack' \in Seq(Handlers) /\ Len(stack') = Len(stack) - 1
           /\ \A j \in 1..Len(stack') :
                 stack'[j] = IF j < i THEN stack[j] ELSE stack[j + 1]
    BY <1>1, UninstallEffect
  <1>5. i \in Nat /\ Len(stack) \in Nat /\ stack \in Seq(Handlers)
    BY <1>4 DEF TypeInv
  <1>6. i = Len(stack)
    <2> SUFFICES ASSUME i # Len(stack) PROVE FALSE
      OBVIOUS
    <2> DEFINE g == stack[i + 1]
    <2>1. i + 1 \in 1..Len(stack) /\ i + 1 # i
      BY <1>4, <1>5
    <2>2. g \in Handlers /\ g # h /\ life[g] = "alive"
      BY <1>4, <1>5, <2>1 DEF StackInv
    <2>3. InOrder(h)
      BY DEF Uninstall
    <2>4. \E j, k \in 1..Len(stack) : j < k /\ stack[j] = g /\ stack[k] = h
      BY <2>2, <2>3 DEF InOrder, AllTypesInOrder
    <2>5. PICK j, k \in 1..Len(stack) : j < k /\ stack[j] = g /\ stack[k] = h
      BY <2>4
    <2>6. j = i + 1 /\ k = i
      BY <1>4, <2>1, <2>5 DEF StackInv
    <2> QED
      BY <1>5, <2>5, <2>6
  <1>7. \A j \in 1..Len(stack') : j \in 1..Len(stack) /\ j < i
    BY <1>4, <1>5, <1>6
  <1> QED
    BY <1>2, <1>3, <1>4, <1>6, <1>7

\* Each step of the owner and of AutoExceptionHandler keeps the filters in their order.
LEMMA FiltersStay ==
    ASSUME AllTypesInOrder, VerdictInv, TypeInv, StackInv, FrameInv, HandoffInv,
           FilterInv, [Next]_vars
    PROVE  FilterInv'
  <1> USE DEF statics, object, handoff, output, bounds, Goto
  <1>1. ASSUME NEW h \in Handlers, Construct(h) PROVE FilterInv'
    <2>1. /\ life[h] = "none"
          /\ stack' = stack /\ filter' = filter /\ previous' = previous
          /\ stackCs' = stackCs /\ frames' = frames /\ \A b \in Actors \ {h} : pc'[b] = pc[b]
      BY <1>1 DEF Construct, TypeInv
    <2>2. h \in Actors /\ pc[h] \notin {"unwind", "ending"}
      BY <2>1, NobodyAsks, Setting
    <2> QED
      BY <2>1, <2>2, FiltersKeptBy
  <1>2. ASSUME NEW h \in Handlers, Install(h) PROVE FilterInv'
    <2>1. Types[h] = Slots /\ Types[h] # {} /\ stack \in Seq(Handlers)
      BY DEF AllTypesInOrder, Slots, TypeInv
    <2>2. /\ stackCs = {} /\ stackCs' = stackCs /\ stack' = Append(stack, h)
          /\ life[h] = "built"
          /\ filter' = [s \in Slots |-> "breakpad"]
          /\ previous' = [previous EXCEPT ![h] = [s \in Slots |-> filter[s]]]
      BY <1>2, <2>1 DEF Install
    <2>3. /\ Len(stack') = Len(stack) + 1 /\ stack'[Len(stack) + 1] = h /\ stack' # <<>>
          /\ \A i \in 1..Len(stack) : stack'[i] = stack[i] /\ stack[i] # h
      BY <2>1, <2>2 DEF StackInv
    <2>4. previous'[h] = filter /\ \A g \in Handlers \ {h} : previous'[g] = previous[g]
      BY <2>2 DEF TypeInv
    <2>5. filter = IF stack = <<>> THEN Original ELSE Ours
      BY <2>2 DEF FilterInv
    <2>6. ASSUME NEW i \in 1..Len(stack')
          PROVE  previous'[stack'[i]] = IF i = 1 THEN Original ELSE Ours
      <3>1. CASE i = Len(stack) + 1
        <4>1. i = 1 <=> stack = <<>>
          BY <2>1, <3>1
        <4> QED
          BY <2>3, <2>4, <2>5, <3>1, <4>1
      <3>2. CASE i # Len(stack) + 1
        <4>1. i \in 1..Len(stack)
          BY <2>1, <2>3, <3>2
        <4>2. stack'[i] = stack[i] /\ stack[i] \in Handlers \ {h}
          BY <2>1, <2>3, <4>1
        <4> QED
          BY <2>4, <4>1, <4>2 DEF FilterInv
      <3> QED
        BY <3>1, <3>2
    <2>7. filter' = Ours
      BY <2>2 DEF Ours
    <2> QED
      BY <2>2, <2>3, <2>6, <2>7 DEF FilterInv
  <1>3. ASSUME NEW h \in Handlers, Uninstall(h) PROVE FilterInv'
    <2>1. /\ stack # <<>> /\ stack[Len(stack)] = h /\ stack' \in Seq(Handlers)
          /\ Len(stack') = Len(stack) - 1
          /\ \A j \in 1..Len(stack') : j \in 1..Len(stack) /\ stack'[j] = stack[j]
          /\ filter' = previous[h] /\ stackCs = {} /\ stack \in Seq(Handlers)
      BY <1>3, LastIsRemoved DEF TypeInv
    <2>2. stackCs' = stackCs /\ previous' = previous
      BY <1>3 DEF Uninstall
    <2>3. Len(stack) \in 1..Len(stack) /\ (Len(stack) = 1 <=> stack' = <<>>)
      BY <2>1
    <2>4. previous[h] = IF Len(stack) = 1 THEN Original ELSE Ours
      BY <2>1, <2>3 DEF FilterInv
    <2>5. \A i \in 1..Len(stack') : previous'[stack'[i]] = IF i = 1 THEN Original ELSE Ours
      BY <2>1, <2>2 DEF FilterInv
    <2> QED
      BY <2>1, <2>2, <2>3, <2>4, <2>5 DEF FilterInv
  <1>4. ASSUME NEW h \in Handlers, Destroy(h) PROVE FilterInv'
    <2>1. /\ life[h] = "removed"
          /\ stack' = stack /\ filter' = filter /\ previous' = previous
          /\ stackCs' = stackCs /\ frames' = frames /\ \A b \in Actors \ {h} : pc'[b] = pc[b]
      BY <1>4 DEF Destroy, TypeInv
    <2>2. h \in Actors /\ pc[h] \notin {"unwind", "ending"}
      BY <2>1, NobodyAsks, Setting
    <2> QED
      BY <2>1, <2>2, FiltersKeptBy
  <1>5. ASSUME NEW a \in Actors, NEW f \in FaultKinds, Fault(a, f) PROVE FilterInv'
    <2>1. /\ pc[a] \in {"write", "callback", "run"}
          /\ stack' = stack /\ filter' = filter /\ previous' = previous
          /\ stackCs' = stackCs /\ frames' = frames /\ \A b \in Actors \ {a} : pc'[b] = pc[b]
      BY <1>5, Setting DEF Fault, TypeInv
    <2>2. a \in Actors /\ pc[a] \notin {"unwind", "ending"}
      BY <2>1, Setting
    <2> QED
      BY <2>1, <2>2, FiltersKeptBy
  <1>6. ASSUME NEW a \in Actors, Enter(a) PROVE FilterInv'
    <2>1. /\ pc[a] \in {"enter", "chained"} /\ stackCs \subseteq {a} /\ stackCs' = {a}
          /\ stack' = stack /\ previous' = previous
      BY <1>6 DEF Enter
    <2>2. /\ index = Len(frames[a]) /\ frames[a] \in Seq(Handlers \X {"enter", "chained"})
          /\ \A b \in Actors : frames[b] # <<>> => b = a
      BY <2>1, IndexCounts
    <2>t. /\ frames \in [Actors -> Seq(Handlers \X {"enter", "chained"})]
          /\ pc \in [Actors -> PcStates] /\ stack \in Seq(Handlers)
      BY DEF TypeInv
    <2>3. CASE CsExists /\ index < Len(stack)
      <3> DEFINE h == stack[Len(stack) - index]
                 e == <<h, pc[a]>>
      <3>a. ~(index >= Len(stack)) /\ CsExists
        BY <2>2, <2>3, <2>t
      <3>1. frames' = [frames EXCEPT ![a] = Append(frames[a], e)] /\ filter' = previous[h]
        BY <1>6, <3>a DEF Enter
      <3>2. h \in Handlers /\ h = stack[Len(stack) - (Len(frames[a]) + 1) + 1]
        BY <2>2, <2>3, <2>t
      <3> HIDE DEF h
      <3>3. e \in Handlers \X {"enter", "chained"}
        BY <2>1, <3>2
      <3> HIDE DEF e
      <3>4. Len(frames'[a]) = Len(frames[a]) + 1
        BY <2>2, <2>t, <3>1, <3>3
      <3> QED
        BY <2>1, <3>1, <3>2, <3>4 DEF FilterInv
    <2>4. CASE ~(CsExists /\ index < Len(stack))
      <3>1. /\ frames' = frames /\ filter' = filter
            /\ pc' = pc \/ pc' = [pc EXCEPT ![a] = "ending"]
        BY <1>6, <2>4 DEF Enter
      <3>2. CASE stackCs = {}
        <4>1. frames[a] = <<>>
          BY <3>2 DEF FrameInv
        <4> QED
          BY <2>1, <3>1, <4>1 DEF FilterInv
      <3>3. CASE stackCs = {a}
        <4>1. pc'[a] \in {"unwind", "ending"} \/ pc'[a] = pc[a]
          BY <2>t, <3>1
        <4> QED
          BY <2>1, <3>1, <3>3, <4>1 DEF FilterInv
      <3> QED
        BY <2>1, <3>2, <3>3
    <2> QED
      BY <2>3, <2>4
  <1>7. ASSUME NEW a \in Actors, Ask(a) PROVE FilterInv'
    <2>1. /\ pc[a] \in {"ask"}
          /\ stack' = stack /\ filter' = filter /\ previous' = previous
          /\ stackCs' = stackCs /\ frames' = frames /\ \A b \in Actors \ {a} : pc'[b] = pc[b]
      BY <1>7, Setting DEF Ask, TypeInv
    <2>2. a \in Actors /\ pc[a] \notin {"unwind", "ending"}
      BY <2>1, Setting
    <2> QED
      BY <2>1, <2>2, FiltersKeptBy
  <1>8. ASSUME NEW a \in Actors, Declined(a) PROVE FilterInv'
    <2>1. /\ pc[a] \in {"declined"}
          /\ stack' = stack /\ filter' = filter /\ previous' = previous
          /\ stackCs' = stackCs /\ frames' = frames /\ \A b \in Actors \ {a} : pc'[b] = pc[b]
      BY <1>8, Setting DEF Declined, Chains, GivesUp, TypeInv
    <2>2. a \in Actors /\ pc[a] \notin {"unwind", "ending"}
      BY <2>1, Setting
    <2> QED
      BY <2>1, <2>2, FiltersKeptBy
  <1>9. ASSUME NEW a \in Actors, Decide(a) PROVE FilterInv'
    <2>1. /\ pc[a] \in {"result"}
          /\ stack' = stack /\ filter' = filter /\ previous' = previous
          /\ stackCs' = stackCs /\ frames' = frames /\ \A b \in Actors \ {a} : pc'[b] = pc[b]
      BY <1>9, Setting DEF Decide, TypeInv
    <2>2. a \in Actors /\ pc[a] \notin {"unwind", "ending"}
      BY <2>1, Setting
    <2> QED
      BY <2>1, <2>2, FiltersKeptBy
  <1>10. ASSUME NEW a \in Actors, Unwind(a) PROVE FilterInv'
    <2>1. /\ stack' = stack /\ previous' = previous /\ filter' = Ours
          /\ pc' = [pc EXCEPT ![a] = IF Last(frames[a])[2] = "enter" THEN "ending"
                                      ELSE "unwind"]
          /\ stackCs' = {} \/ stackCs' = stackCs
      BY <1>10 DEF Unwind, Ours
    <2>2. pc'[a] \in {"unwind", "ending"}
      BY <2>1 DEF TypeInv
    <2>3. frames[a] # <<>> /\ a \in stackCs /\ Len(frames[a]) <= Len(stack)
      BY <1>10 DEF Unwind, FrameInv
    <2>4. stack # <<>>
      <3>1. frames[a] \in Seq(Handlers \X {"enter", "chained"}) /\ stack \in Seq(Handlers)
        BY DEF TypeInv
      <3>2. Len(frames[a]) \in Nat /\ Len(frames[a]) # 0
        BY <2>3, <3>1
      <3> QED
        BY <2>3, <3>1, <3>2
    <2>5. \A b \in stackCs : b = a
      BY <2>3 DEF FrameInv
    <2> QED
      BY <2>1, <2>2, <2>4, <2>5 DEF FilterInv
  <1>11. ASSUME NEW a \in Actors, End(a) PROVE FilterInv'
    <2>1. UNCHANGED <<stack, filter, previous, stackCs, frames, pc>>
      BY <1>11 DEF End
    <2> QED
      BY <2>1, FiltersKept
  <1>12. ASSUME NEW t \in Threads, NEW h \in Handlers, WriteMinidump(t, h) PROVE FilterInv'
    <2>1. /\ pc[t] \in {"run"}
          /\ stack' = stack /\ filter' = filter /\ previous' = previous
          /\ stackCs' = stackCs /\ frames' = frames /\ \A b \in Actors \ {t} : pc'[b] = pc[b]
      BY <1>12, Setting DEF WriteMinidump, TypeInv
    <2>2. t \in Actors /\ pc[t] \notin {"unwind", "ending"}
      BY <2>1, Setting
    <2> QED
      BY <2>1, <2>2, FiltersKeptBy
  <1>13. ASSUME NEW a \in Actors, HandOver(a) PROVE FilterInv'
    <2>1. /\ pc[a] \in {"lock"}
          /\ stack' = stack /\ filter' = filter /\ previous' = previous
          /\ stackCs' = stackCs /\ frames' = frames /\ \A b \in Actors \ {a} : pc'[b] = pc[b]
      BY <1>13, Setting DEF HandOver, TypeInv
    <2>2. a \in Actors /\ pc[a] \notin {"unwind", "ending"}
      BY <2>1, Setting
    <2> QED
      BY <2>1, <2>2, FiltersKeptBy
  <1>14. ASSUME NEW h \in Handlers, WorkerStarts(h) PROVE FilterInv'
    <2>1. /\ pc[h] \in {"idle"}
          /\ stack' = stack /\ filter' = filter /\ previous' = previous
          /\ stackCs' = stackCs /\ frames' = frames /\ \A b \in Actors \ {h} : pc'[b] = pc[b]
      BY <1>14, Setting DEF WorkerStarts, TypeInv
    <2>2. h \in Actors /\ pc[h] \notin {"unwind", "ending"}
      BY <2>1, Setting
    <2> QED
      BY <2>1, <2>2, FiltersKeptBy
  <1>15. ASSUME NEW a \in Actors, Write(a) PROVE FilterInv'
    <2>1. /\ pc[a] \in {"write"}
          /\ stack' = stack /\ filter' = filter /\ previous' = previous
          /\ stackCs' = stackCs /\ frames' = frames /\ \A b \in Actors \ {a} : pc'[b] = pc[b]
      BY <1>15, Setting DEF Write, TypeInv
    <2>2. a \in Actors /\ pc[a] \notin {"unwind", "ending"}
      BY <2>1, Setting
    <2> QED
      BY <2>1, <2>2, FiltersKeptBy
  <1>16. ASSUME NEW a \in Actors, Callback(a) PROVE FilterInv'
    <2>1. /\ pc[a] \in {"callback"}
          /\ stack' = stack /\ filter' = filter /\ previous' = previous
          /\ stackCs' = stackCs /\ frames' = frames /\ \A b \in Actors \ {a} : pc'[b] = pc[b]
      BY <1>16, Setting DEF Callback, TypeInv
    <2>2. a \in Actors /\ pc[a] \notin {"unwind", "ending"}
      BY <2>1, Setting
    <2> QED
      BY <2>1, <2>2, FiltersKeptBy
  <1>17. ASSUME NEW h \in Handlers, WorkerFinishes(h) PROVE FilterInv'
    <2>1. /\ pc[h] \in {"result"}
          /\ stack' = stack /\ filter' = filter /\ previous' = previous
          /\ stackCs' = stackCs /\ frames' = frames /\ \A b \in Actors \ {h} : pc'[b] = pc[b]
      BY <1>17, Setting DEF WorkerFinishes, TypeInv
    <2>2. h \in Actors /\ pc[h] \notin {"unwind", "ending"}
      BY <2>1, Setting
    <2> QED
      BY <2>1, <2>2, FiltersKeptBy
  <1>18. ASSUME NEW a \in Actors, Collect(a) PROVE FilterInv'
    <2>1. /\ pc[a] \in {"wait"}
          /\ stack' = stack /\ filter' = filter /\ previous' = previous
          /\ stackCs' = stackCs /\ frames' = frames /\ \A b \in Actors \ {a} : pc'[b] = pc[b]
      BY <1>18, Setting DEF Collect, TypeInv
    <2>2. a \in Actors /\ pc[a] \notin {"unwind", "ending"}
      BY <2>1, Setting
    <2> QED
      BY <2>1, <2>2, FiltersKeptBy
  <1>19. ASSUME NEW t \in Threads, WriteReturns(t) PROVE FilterInv'
    <2>1. /\ pc[t] \in {"result"}
          /\ stack' = stack /\ filter' = filter /\ previous' = previous
          /\ stackCs' = stackCs /\ frames' = frames /\ \A b \in Actors \ {t} : pc'[b] = pc[b]
      BY <1>19, Setting DEF WriteReturns, TypeInv
    <2>2. t \in Actors /\ pc[t] \notin {"unwind", "ending"}
      BY <2>1, Setting
    <2> QED
      BY <2>1, <2>2, FiltersKeptBy
  <1>20. ASSUME UNCHANGED vars PROVE FilterInv'
    BY <1>20, FiltersKept DEF vars
  <1> HIDE DEF statics, object, handoff, output, bounds, Goto
  <1>a. ASSUME NEW a \in Actors, Handle(a) PROVE FilterInv'
    BY <1>a, <1>6, <1>7, <1>8, <1>9, <1>10, <1>11, <1>13, <1>15, <1>16, <1>18
    DEF Handle
  <1> QED
    BY <1>a, <1>1, <1>2, <1>3, <1>4, <1>5, <1>12, <1>14, <1>17, <1>19, <1>20
    DEF Next, Lifecycle, Work

\* Frames stay, and who was at the end stays there.
LEMMA HolderKept ==
    ASSUME HolderInv, proc = "alive", stackCs' = stackCs, frames' = frames,
           \A a \in stackCs : pc[a] = "ending" => pc'[a] = "ending"
    PROVE  HolderInv'
  BY DEF HolderInv

\* Who leaves the last handler function leaves the critical section.
LEMMA HolderStays ==
    ASSUME VerdictInv, TypeInv, StackInv, FrameInv, HandoffInv, HolderInv, Next, proc = "alive"
    PROVE  HolderInv'
  <1> USE DEF statics, object, handoff, output, bounds, Goto
  <1>1. ASSUME NEW h \in Handlers, Construct(h) PROVE HolderInv'
    <2>1. /\ life[h] = "none" /\ stackCs' = stackCs /\ frames' = frames
          /\ \A b \in Actors \ {h} : pc'[b] = pc[b]
      BY <1>1, Setting DEF Construct, TypeInv
    <2>2. \A b \in stackCs : pc[b] = "ending" => pc'[b] = "ending"
      BY <2>1, NobodyAsks DEF TypeInv
    <2> QED
      BY <2>1, <2>2, HolderKept
  <1>2. ASSUME NEW h \in Handlers, Install(h) PROVE HolderInv'
    <2>1. stackCs' = stackCs /\ frames' = frames /\ pc' = pc
      BY <1>2 DEF Install
    <2> QED
      BY <2>1, HolderKept
  <1>3. ASSUME NEW h \in Handlers, Uninstall(h) PROVE HolderInv'
    <2>1. stackCs' = stackCs /\ frames' = frames /\ pc' = pc
      BY <1>3 DEF Uninstall
    <2> QED
      BY <2>1, HolderKept
  <1>4. ASSUME NEW h \in Handlers, Destroy(h) PROVE HolderInv'
    <2>1. /\ life[h] = "removed" /\ stackCs' = stackCs /\ frames' = frames
          /\ \A b \in Actors \ {h} : pc'[b] = pc[b]
      BY <1>4, Setting DEF Destroy, TypeInv
    <2>2. \A b \in stackCs : pc[b] = "ending" => pc'[b] = "ending"
      BY <2>1, NobodyAsks DEF TypeInv
    <2> QED
      BY <2>1, <2>2, HolderKept
  <1>5. ASSUME NEW a \in Actors, NEW f \in FaultKinds, Fault(a, f) PROVE HolderInv'
    <2>1. /\ pc[a] \in {"write", "callback", "run"} /\ stackCs' = stackCs /\ frames' = frames
          /\ \A b \in Actors \ {a} : pc'[b] = pc[b]
      BY <1>5, Setting DEF Fault, TypeInv
    <2>2. \A b \in stackCs : pc[b] = "ending" => pc'[b] = "ending"
      BY <2>1 DEF TypeInv
    <2> QED
      BY <2>1, <2>2, HolderKept
  <1>6. ASSUME NEW a \in Actors, Enter(a) PROVE HolderInv'
    <2>1. stackCs \subseteq {a} /\ stackCs' = {a} /\ pc[a] \in {"enter", "chained"}
      BY <1>6 DEF Enter
    <2>2. CASE CsExists /\ index < Len(stack)
      <3> DEFINE e == <<stack[Len(stack) - index], pc[a]>>
      <3>a. ~(index >= Len(stack)) /\ CsExists /\ index \in Nat /\ stack \in Seq(Handlers)
        BY <2>2 DEF TypeInv
      <3>1. frames' = [frames EXCEPT ![a] = Append(frames[a], e)]
        BY <1>6, <3>a DEF Enter
      <3>2. stack[Len(stack) - index] \in Handlers
        BY <2>2, <3>a
      <3>3. e \in Handlers \X {"enter", "chained"}
        BY <2>1, <3>2
      <3> HIDE DEF e
      <3>4. Len(frames'[a]) = Len(frames[a]) + 1 /\ Len(frames[a]) \in Nat
        BY <3>1, <3>3 DEF TypeInv
      <3>5. frames'[a] # <<>>
        BY <3>4
      <3> QED
        BY <2>1, <3>5 DEF HolderInv
    <2>3. CASE ~(CsExists /\ index < Len(stack))
      <3>1. \/ pc' = [pc EXCEPT ![a] = "ending"]
            \/ proc' = "undefined"
        BY <1>6, <2>3 DEF Enter
      <3> QED
        BY <2>1, <3>1 DEF HolderInv, TypeInv
    <2> QED
      BY <2>2, <2>3
  <1>7. ASSUME NEW a \in Actors, Ask(a) PROVE HolderInv'
    <2>1. /\ pc[a] \in {"ask"} /\ stackCs' = stackCs /\ frames' = frames
          /\ \A b \in Actors \ {a} : pc'[b] = pc[b]
      BY <1>7, Setting DEF Ask, TypeInv
    <2>2. \A b \in stackCs : pc[b] = "ending" => pc'[b] = "ending"
      BY <2>1 DEF TypeInv
    <2> QED
      BY <2>1, <2>2, HolderKept
  <1>8. ASSUME NEW a \in Actors, Declined(a) PROVE HolderInv'
    <2>1. /\ pc[a] \in {"declined"} /\ stackCs' = stackCs /\ frames' = frames
          /\ \A b \in Actors \ {a} : pc'[b] = pc[b]
      BY <1>8, Setting DEF Declined, Chains, GivesUp, TypeInv
    <2>2. \A b \in stackCs : pc[b] = "ending" => pc'[b] = "ending"
      BY <2>1 DEF TypeInv
    <2> QED
      BY <2>1, <2>2, HolderKept
  <1>9. ASSUME NEW a \in Actors, Decide(a) PROVE HolderInv'
    <2>1. /\ pc[a] \in {"result"} /\ stackCs' = stackCs /\ frames' = frames
          /\ \A b \in Actors \ {a} : pc'[b] = pc[b]
      BY <1>9, Setting DEF Decide, TypeInv
    <2>2. \A b \in stackCs : pc[b] = "ending" => pc'[b] = "ending"
      BY <2>1 DEF TypeInv
    <2> QED
      BY <2>1, <2>2, HolderKept
  <1>10. ASSUME NEW a \in Actors, Unwind(a) PROVE HolderInv'
    <2> DEFINE fs == Front(frames[a])
    <2>1. /\ frames' = [frames EXCEPT ![a] = fs]
          /\ stackCs' = IF Len(frames[a]) = 1 THEN {} ELSE stackCs
      BY <1>10 DEF Unwind
    <2>2. /\ frames[a] # <<>> /\ a \in stackCs
          /\ frames[a] \in Seq(Handlers \X {"enter", "chained"})
      BY <1>10 DEF Unwind, FrameInv, TypeInv
    <2>3. Len(fs) = Len(frames[a]) - 1 /\ Len(frames[a]) \in Nat /\ Len(frames[a]) # 0
      BY <2>2 DEF Front
    <2>4. \A b \in stackCs : b = a
      BY <2>2 DEF FrameInv
    <2> HIDE DEF fs
    <2>5. CASE Len(frames[a]) = 1
      BY <2>1, <2>5 DEF HolderInv
    <2>6. CASE Len(frames[a]) # 1
      <3>1. Len(frames[a]) - 1 # 0
        BY <2>3, <2>6, Beyond
      <3>2. frames'[a] # <<>>
        BY <2>1, <2>3, <3>1 DEF TypeInv
      <3> QED
        BY <2>1, <2>4, <2>6, <3>2 DEF HolderInv
    <2> QED
      BY <2>5, <2>6
  <1>11. ASSUME NEW a \in Actors, End(a) PROVE HolderInv'
    <2>1. stackCs' = stackCs /\ frames' = frames /\ pc' = pc
      BY <1>11 DEF End
    <2> QED
      BY <2>1, HolderKept
  <1>12. ASSUME NEW t \in Threads, NEW h \in Handlers, WriteMinidump(t, h) PROVE HolderInv'
    <2>1. /\ pc[t] \in {"run"} /\ stackCs' = stackCs /\ frames' = frames
          /\ \A b \in Actors \ {t} : pc'[b] = pc[b]
      BY <1>12, Setting DEF WriteMinidump, TypeInv
    <2>2. \A b \in stackCs : pc[b] = "ending" => pc'[b] = "ending"
      BY <2>1 DEF TypeInv
    <2> QED
      BY <2>1, <2>2, HolderKept
  <1>13. ASSUME NEW a \in Actors, HandOver(a) PROVE HolderInv'
    <2>1. /\ pc[a] \in {"lock"} /\ stackCs' = stackCs /\ frames' = frames
          /\ \A b \in Actors \ {a} : pc'[b] = pc[b]
      BY <1>13, Setting DEF HandOver, TypeInv
    <2>2. \A b \in stackCs : pc[b] = "ending" => pc'[b] = "ending"
      BY <2>1 DEF TypeInv
    <2> QED
      BY <2>1, <2>2, HolderKept
  <1>14. ASSUME NEW h \in Handlers, WorkerStarts(h) PROVE HolderInv'
    <2>1. /\ pc[h] \in {"idle"} /\ stackCs' = stackCs /\ frames' = frames
          /\ \A b \in Actors \ {h} : pc'[b] = pc[b]
      BY <1>14, Setting DEF WorkerStarts, TypeInv
    <2>2. \A b \in stackCs : pc[b] = "ending" => pc'[b] = "ending"
      BY <2>1 DEF TypeInv
    <2> QED
      BY <2>1, <2>2, HolderKept
  <1>15. ASSUME NEW a \in Actors, Write(a) PROVE HolderInv'
    <2>1. /\ pc[a] \in {"write"} /\ stackCs' = stackCs /\ frames' = frames
          /\ \A b \in Actors \ {a} : pc'[b] = pc[b]
      BY <1>15, Setting DEF Write, TypeInv
    <2>2. \A b \in stackCs : pc[b] = "ending" => pc'[b] = "ending"
      BY <2>1 DEF TypeInv
    <2> QED
      BY <2>1, <2>2, HolderKept
  <1>16. ASSUME NEW a \in Actors, Callback(a) PROVE HolderInv'
    <2>1. /\ pc[a] \in {"callback"} /\ stackCs' = stackCs /\ frames' = frames
          /\ \A b \in Actors \ {a} : pc'[b] = pc[b]
      BY <1>16, Setting DEF Callback, TypeInv
    <2>2. \A b \in stackCs : pc[b] = "ending" => pc'[b] = "ending"
      BY <2>1 DEF TypeInv
    <2> QED
      BY <2>1, <2>2, HolderKept
  <1>17. ASSUME NEW h \in Handlers, WorkerFinishes(h) PROVE HolderInv'
    <2>1. /\ pc[h] \in {"result"} /\ stackCs' = stackCs /\ frames' = frames
          /\ \A b \in Actors \ {h} : pc'[b] = pc[b]
      BY <1>17, Setting DEF WorkerFinishes, TypeInv
    <2>2. \A b \in stackCs : pc[b] = "ending" => pc'[b] = "ending"
      BY <2>1 DEF TypeInv
    <2> QED
      BY <2>1, <2>2, HolderKept
  <1>18. ASSUME NEW a \in Actors, Collect(a) PROVE HolderInv'
    <2>1. /\ pc[a] \in {"wait"} /\ stackCs' = stackCs /\ frames' = frames
          /\ \A b \in Actors \ {a} : pc'[b] = pc[b]
      BY <1>18, Setting DEF Collect, TypeInv
    <2>2. \A b \in stackCs : pc[b] = "ending" => pc'[b] = "ending"
      BY <2>1 DEF TypeInv
    <2> QED
      BY <2>1, <2>2, HolderKept
  <1>19. ASSUME NEW t \in Threads, WriteReturns(t) PROVE HolderInv'
    <2>1. /\ pc[t] \in {"result"} /\ stackCs' = stackCs /\ frames' = frames
          /\ \A b \in Actors \ {t} : pc'[b] = pc[b]
      BY <1>19, Setting DEF WriteReturns, TypeInv
    <2>2. \A b \in stackCs : pc[b] = "ending" => pc'[b] = "ending"
      BY <2>1 DEF TypeInv
    <2> QED
      BY <2>1, <2>2, HolderKept
  <1> HIDE DEF statics, object, handoff, output, bounds, Goto
  <1>a. ASSUME NEW a \in Actors, Handle(a) PROVE HolderInv'
    BY <1>a, <1>6, <1>7, <1>8, <1>9, <1>10, <1>11, <1>13, <1>15, <1>16, <1>18
    DEF Handle
  <1> QED
    BY <1>a, <1>1, <1>2, <1>3, <1>4, <1>5, <1>12, <1>14, <1>17, <1>19
    DEF Next, Lifecycle, Work

-----------------------------------------------------------------------------
(* The invariants, and what they are for. *)

\* What holds of each handler's thread and of the frames, whatever is installed.
LEMMA VerdictAlways == Spec => []VerdictInv
  <1>1. Init => VerdictInv
    <2> SUFFICES ASSUME Init PROVE VerdictInv
      OBVIOUS
    <2> USE DEF Init, Values, PcStates
    <2>1. /\ \A h \in Handlers : h \in Actors /\ h \notin Threads
          /\ \A t \in Threads : t \in Actors
      BY Setting
    <2>2. TypeInv
      <3>1. filter \in [Slots -> Values]
        BY Setting
      <3>2. <<>> \in Seq(Handlers) /\ <<>> \in Seq(Handlers \X {"enter", "chained"})
        OBVIOUS
      <3>3. fault \in [Actors -> Slots \cup {"breakpoint"}]
        BY DEF Slots
      <3>4. /\ pc \in [Actors -> PcStates]
            /\ frames \in [Actors -> Seq(Handlers \X {"enter", "chained"})]
        BY <3>2
      <3>5. previous \in [Handlers -> [Slots -> Values]]
        OBVIOUS
      <3> QED
        BY <3>1, <3>2, <3>3, <3>4, <3>5 DEF TypeInv
    <2>3. StackInv
      BY DEF StackInv
    <2>4. FrameInv
      BY DEF FrameInv
    <2>5. HandoffInv
      BY <2>1 DEF HandoffInv, Waits
    <2> QED
      BY <2>2, <2>3, <2>4, <2>5 DEF VerdictInv
  <1>2. VerdictInv /\ [Next]_vars => VerdictInv'
    BY TypeStays, StackStays, FramesStay, HandoffStays DEF VerdictInv
  <1> QED
    BY <1>1, <1>2, PTL DEF Spec

\* The filters and the holder of the critical section, with handlers for everything.
LEMMA FiltersAlways ==
    ASSUME AllTypesInOrder
    PROVE  Spec => [](VerdictInv /\ FilterInv /\ HolderInv)
  <1>1. Init => FilterInv /\ HolderInv
    BY DEF Init, FilterInv, HolderInv
  <1>2. VerdictInv /\ FilterInv /\ HolderInv /\ [Next]_vars => FilterInv' /\ HolderInv'
    <2> SUFFICES ASSUME VerdictInv, FilterInv, HolderInv, [Next]_vars
                 PROVE  FilterInv' /\ HolderInv'
      OBVIOUS
    <2>1. FilterInv'
      BY FiltersStay DEF VerdictInv
    <2>2. CASE Next
      <3>1. proc = "alive"
        BY <2>2 DEF Next
      <3> QED
        BY <2>1, <2>2, <3>1, HolderStays DEF VerdictInv
    <2>3. CASE UNCHANGED vars
      BY <2>1, <2>3 DEF vars, statics, HolderInv
    <2> QED
      BY <2>2, <2>3
  <1> QED
    BY <1>1, <1>2, VerdictAlways, PTL DEF Spec

\* The value in handler_return_value_ answers the one thread that waits for it.
THEOREM VerdictsAreOwn == Spec => []OwnVerdict
  <1>1. VerdictInv => OwnVerdict
    <2> SUFFICES ASSUME VerdictInv, NEW h \in finish
                 PROVE  /\ served[h] = request[h]
                        /\ Cardinality({a \in Actors : pc[a] = "wait" /\ At(a) = h}) = 1
                        /\ \A a \in request[h] : pc[a] = "wait" /\ At(a) = h
      BY DEF OwnVerdict
    <2>1. h \in Handlers /\ request[h] \subseteq Actors
      BY DEF VerdictInv, TypeInv
    <2>2. /\ served[h] = request[h] /\ request[h] # {}
          /\ \A a \in Actors : a \in request[h] <=> pc[a] = "wait" /\ At(a) = h
          /\ \A a, b \in request[h] : a = b
      BY <2>1 DEF VerdictInv, HandoffInv, Waits
    <2>3. PICK c \in request[h] : TRUE
      BY <2>2
    <2>4. {a \in Actors : pc[a] = "wait" /\ At(a) = h} = {c}
      BY <2>1, <2>2, <2>3
    <2>5. Cardinality({c}) = 1
      BY FS_Singleton
    <2>6. \A a \in request[h] : pc[a] = "wait" /\ At(a) = h
      BY <2>1, <2>2
    <2> QED
      BY <2>2, <2>4, <2>5, <2>6
  <1> QED
    BY <1>1, VerdictAlways, PTL

\* When nobody is in a handler function, the filters are Breakpad's as long as a
\* handler is installed, and the program's before and after.
THEOREM FiltersComeBack ==
    ASSUME AllTypesInOrder
    PROVE  Spec => []FiltersAgree
  <1>1. VerdictInv /\ FilterInv => FiltersAgree
    <2> SUFFICES ASSUME VerdictInv, FilterInv, stackCs = {}, NEW s \in Slots
                 PROVE  index = 0 /\ filter[s] =
                          IF \E h \in Handlers : /\ s \in Types[h]
                                                 /\ \E i \in 1..Len(stack) : stack[i] = h
                          THEN "breakpad" ELSE Original[s]
      BY DEF FiltersAgree, VerdictInv, FrameInv
    <2>1. index = 0 /\ stack \in Seq(Handlers)
      BY DEF VerdictInv, FrameInv, TypeInv
    <2>2. CASE stack = <<>>
      <3>1. filter = Original /\ Len(stack) = 0
        BY <2>2 DEF FilterInv
      <3> QED
        BY <2>1, <3>1
    <2>3. CASE stack # <<>>
      <3>1. filter[s] = "breakpad"
        BY <2>3 DEF FilterInv, Ours
      <3>2. 1 \in 1..Len(stack) /\ stack[1] \in Handlers
        BY <2>1, <2>3
      <3>3. s \in Types[stack[1]]
        BY <3>2 DEF AllTypesInOrder
      <3> QED
        BY <2>1, <3>1, <3>2, <3>3
    <2> QED
      BY <2>2, <2>3
  <1> QED
    BY <1>1, FiltersAlways, PTL

\* Who has as many frames as there are handlers has asked each of them.
LEMMA AllAsked ==
    ASSUME VerdictInv, NEW a \in Actors, Len(frames[a]) = Len(stack)
    PROVE  \A i \in 1..Len(stack) : stack[i] \in Asked(a)
  <1> TAKE i \in 1..Len(stack)
  <1>1. stack \in Seq(Handlers) /\ frames[a] \in Seq(Handlers \X {"enter", "chained"})
    BY DEF VerdictInv, TypeInv
  <1> DEFINE k == Len(stack) - i + 1
  <1>2. k \in 1..Len(frames[a]) /\ Len(stack) - k + 1 = i
    BY <1>1
  <1>3. frames[a] # <<>>
    BY <1>1, <1>2
  <1>4. frames[a][k][1] = stack[i]
    BY <1>2, <1>3 DEF VerdictInv, FrameInv
  <1> QED
    BY <1>2, <1>4 DEF Asked

\* Only the bottom of the stack has filters that are not Breakpad's below it.
LEMMA BottomAsked ==
    ASSUME VerdictInv, FilterInv, NEW a \in Actors, frames[a] # <<>>, NEW s \in Slots,
           previous[stack[Len(stack) - Len(frames[a]) + 1]][s] # "breakpad"
    PROVE  \A i \in 1..Len(stack) : stack[i] \in Asked(a)
  <1>1. /\ stack \in Seq(Handlers) /\ frames[a] \in Seq(Handlers \X {"enter", "chained"})
        /\ Len(frames[a]) <= Len(stack)
    BY DEF VerdictInv, TypeInv, FrameInv
  <1>2. Len(frames[a]) \in Nat /\ Len(frames[a]) # 0 /\ Len(stack) \in Nat
    BY <1>1
  <1> DEFINE k == Len(stack) - Len(frames[a]) + 1
  <1>3. k \in 1..Len(stack)
    BY <1>1, <1>2
  <1>4. previous[stack[k]] = IF k = 1 THEN Original ELSE Ours
    BY <1>3 DEF FilterInv
  <1>5. k = 1
    BY <1>4 DEF Ours
  <1>6. Len(frames[a]) = Len(stack)
    BY <1>2, <1>5
  <1> QED
    BY <1>6, AllAsked

\* What one step may do to an actor's fault.
DeclinedStep(a) ==
    /\ pc[a] \in {"run", "write", "callback", "declined", "enter", "chained"}
    /\ pc'[a] \in {"unwind", "ending"}
    => \/ \A i \in 1..Len(stack) : stack[i] \in Asked(a)
       \/ ~(stackCs \subseteq {a})


\* A fault is given up by the thread that is at the bottom of the stack.
LEMMA DeclinedSteps ==
    ASSUME VerdictInv, TypeInv, FrameInv, FilterInv, HolderInv, Next, proc = "alive"
    PROVE  \A b \in Actors : DeclinedStep(b)
  <1> USE DEF statics, object, handoff, output, bounds, Goto
  <1>1. ASSUME NEW h \in Handlers, Construct(h) PROVE \A b \in Actors : DeclinedStep(b)
    <2>1. \A b \in Actors : pc'[b] \in {"unwind", "ending"} =>
             b = h \/ pc[b] \in {"unwind", "ending"}
      BY <1>1, Setting DEF Construct, TypeInv
    <2>2. \A b \in Actors : pc'[b] \in {"unwind", "ending"} => pc[b] \in {"unwind", "ending"}
      BY <1>1, <2>1 DEF Construct, TypeInv
    <2> QED
      BY <2>2 DEF DeclinedStep
  <1>2. ASSUME NEW h \in Handlers, Install(h) PROVE \A b \in Actors : DeclinedStep(b)
    <2>1. \A b \in Actors : pc'[b] \in {"unwind", "ending"} =>
             pc[b] \in {"result", "unwind", "ending"}
      BY <1>2, Setting DEF Install, TypeInv
    <2> QED
      BY <2>1 DEF DeclinedStep
  <1>3. ASSUME NEW h \in Handlers, Uninstall(h) PROVE \A b \in Actors : DeclinedStep(b)
    <2>1. \A b \in Actors : pc'[b] \in {"unwind", "ending"} =>
             pc[b] \in {"result", "unwind", "ending"}
      BY <1>3, Setting DEF Uninstall, TypeInv
    <2> QED
      BY <2>1 DEF DeclinedStep
  <1>4. ASSUME NEW h \in Handlers, Destroy(h) PROVE \A b \in Actors : DeclinedStep(b)
    <2>1. \A b \in Actors : pc'[b] \in {"unwind", "ending"} =>
             b = h \/ pc[b] \in {"unwind", "ending"}
      BY <1>4, Setting DEF Destroy, TypeInv
    <2>2. \A b \in Actors : pc'[b] \in {"unwind", "ending"} => pc[b] \in {"unwind", "ending"}
      BY <1>4, <2>1 DEF Destroy, TypeInv
    <2> QED
      BY <2>2 DEF DeclinedStep
  <1>5. ASSUME NEW a \in Actors, NEW f \in FaultKinds, Fault(a, f)
        PROVE  \A b \in Actors : DeclinedStep(b)
    <2>1. \A b \in Actors \ {a} : pc'[b] = pc[b]
      BY <1>5 DEF Fault, TypeInv
    <2>2. \A b \in Actors \ {a} : DeclinedStep(b)
      BY <2>1 DEF DeclinedStep
    <2>3. ASSUME pc'[a] \in {"unwind", "ending"}, stackCs \subseteq {a}
          PROVE  \A i \in 1..Len(stack) : stack[i] \in Asked(a)
      <3>1. filter[Slot(f)] # "breakpad" /\ pc[a] \in {"run", "write", "callback"}
        BY <1>5, <2>3 DEF Fault, TypeInv
      <3>2. Slot(f) \in Slots
        BY WindowsExceptionHandlerAssumption DEF WindowsExceptionHandlerAssumption, Slot, Slots
      <3>3. CASE stackCs = {}
        <4>1. stack = <<>>
          BY <3>1, <3>2, <3>3 DEF FilterInv, Ours
        <4> QED
          BY <4>1
      <3>4. CASE stackCs # {}
        <4>1. a \in stackCs /\ frames[a] # <<>>
          BY <2>3, <3>1, <3>4 DEF HolderInv
        <4>2. filter = previous[stack[Len(stack) - Len(frames[a]) + 1]]
          BY <3>1, <4>1 DEF FilterInv
        <4> QED
          BY <3>1, <3>2, <4>1, <4>2, BottomAsked
      <3> QED
        BY <3>3, <3>4
    <2> QED
      BY <2>2, <2>3 DEF DeclinedStep
  <1>6. ASSUME NEW a \in Actors, Enter(a) PROVE \A b \in Actors : DeclinedStep(b)
    <2>1. \A b \in Actors \ {a} : pc'[b] = pc[b]
      BY <1>6 DEF Enter, TypeInv
    <2>2. \A b \in Actors \ {a} : DeclinedStep(b)
      BY <2>1 DEF DeclinedStep
    <2>3. ASSUME pc'[a] \in {"unwind", "ending"}
          PROVE  \A i \in 1..Len(stack) : stack[i] \in Asked(a)
      <3>1. index >= Len(stack) /\ stackCs \subseteq {a}
        BY <1>6, <2>3 DEF Enter, TypeInv
      <3>2. index = Len(frames[a]) /\ frames[a] \in Seq(Handlers \X {"enter", "chained"})
        BY <3>1, IndexCounts
      <3>3. stack \in Seq(Handlers)
        BY DEF TypeInv
      <3>4. Len(frames[a]) = Len(stack)
        <4>1. CASE frames[a] = <<>>
          BY <3>1, <3>2, <3>3, <4>1
        <4>2. CASE frames[a] # <<>>
          <5>1. Len(frames[a]) <= Len(stack)
            BY <4>2 DEF FrameInv
          <5> QED
            BY <3>1, <3>2, <3>3, <5>1
        <4> QED
          BY <4>1, <4>2
      <3> QED
        BY <3>4, AllAsked
    <2> QED
      BY <2>2, <2>3 DEF DeclinedStep
  <1>7. ASSUME NEW a \in Actors, Ask(a) PROVE \A b \in Actors : DeclinedStep(b)
    <2>1. \A b \in Actors : pc'[b] \in {"unwind", "ending"} =>
             pc[b] \in {"result", "unwind", "ending"}
      BY <1>7, Setting DEF Ask, TypeInv
    <2> QED
      BY <2>1 DEF DeclinedStep
  <1>8. ASSUME NEW a \in Actors, Declined(a) PROVE \A b \in Actors : DeclinedStep(b)
    <2>1. \A b \in Actors \ {a} : pc'[b] = pc[b]
      BY <1>8 DEF Declined, Chains, GivesUp, TypeInv
    <2>2. \A b \in Actors \ {a} : DeclinedStep(b)
      BY <2>1 DEF DeclinedStep
    <2>3. ASSUME pc'[a] \in {"unwind", "ending"}
          PROVE  \A i \in 1..Len(stack) : stack[i] \in Asked(a)
      <3>1. pc[a] = "declined" /\ previous[At(a)][Slot(fault[a])] # "breakpad"
        BY <1>8, <2>3 DEF Declined, Chains, GivesUp, TypeInv
      <3>2. frames[a] # <<>>
        BY <3>1 DEF FrameInv
      <3>3. Slot(fault[a]) \in Slots
        BY DEF TypeInv, Slot, Slots
      <3>4. At(a) = stack[Len(stack) - Len(frames[a]) + 1]
        <4>1. frames[a] \in Seq(Handlers \X {"enter", "chained"})
          BY DEF TypeInv
        <4>2. Len(frames[a]) \in 1..Len(frames[a])
          BY <3>2, <4>1
        <4> QED
          BY <3>2, <4>2 DEF FrameInv, At, Last
      <3> QED
        BY <3>1, <3>2, <3>3, <3>4, BottomAsked
    <2> QED
      BY <2>2, <2>3 DEF DeclinedStep
  <1>9. ASSUME NEW a \in Actors, Decide(a) PROVE \A b \in Actors : DeclinedStep(b)
    <2>1. \A b \in Actors : pc'[b] \in {"unwind", "ending"} =>
             pc[b] \in {"result", "unwind", "ending"}
      BY <1>9, Setting DEF Decide, TypeInv
    <2> QED
      BY <2>1 DEF DeclinedStep
  <1>10. ASSUME NEW a \in Actors, Unwind(a) PROVE \A b \in Actors : DeclinedStep(b)
    <2>1. \A b \in Actors : pc'[b] \in {"unwind", "ending"} =>
             pc[b] \in {"result", "unwind", "ending"}
      BY <1>10, Setting DEF Unwind, TypeInv
    <2> QED
      BY <2>1 DEF DeclinedStep
  <1>11. ASSUME NEW a \in Actors, End(a) PROVE \A b \in Actors : DeclinedStep(b)
    <2>1. \A b \in Actors : pc'[b] \in {"unwind", "ending"} =>
             pc[b] \in {"result", "unwind", "ending"}
      BY <1>11, Setting DEF End, TypeInv
    <2> QED
      BY <2>1 DEF DeclinedStep
  <1>12. ASSUME NEW t \in Threads, NEW h \in Handlers, WriteMinidump(t, h)
         PROVE  \A b \in Actors : DeclinedStep(b)
    <2>1. \A b \in Actors : pc'[b] \in {"unwind", "ending"} =>
             pc[b] \in {"result", "unwind", "ending"}
      BY <1>12, Setting DEF WriteMinidump, TypeInv
    <2> QED
      BY <2>1 DEF DeclinedStep
  <1>13. ASSUME NEW a \in Actors, HandOver(a) PROVE \A b \in Actors : DeclinedStep(b)
    <2>1. \A b \in Actors : pc'[b] \in {"unwind", "ending"} =>
             pc[b] \in {"result", "unwind", "ending"}
      BY <1>13, Setting DEF HandOver, TypeInv
    <2> QED
      BY <2>1 DEF DeclinedStep
  <1>14. ASSUME NEW h \in Handlers, WorkerStarts(h) PROVE \A b \in Actors : DeclinedStep(b)
    <2>1. \A b \in Actors : pc'[b] \in {"unwind", "ending"} =>
             pc[b] \in {"result", "unwind", "ending"}
      BY <1>14, Setting DEF WorkerStarts, TypeInv
    <2> QED
      BY <2>1 DEF DeclinedStep
  <1>15. ASSUME NEW a \in Actors, Write(a) PROVE \A b \in Actors : DeclinedStep(b)
    <2>1. \A b \in Actors : pc'[b] \in {"unwind", "ending"} =>
             pc[b] \in {"result", "unwind", "ending"}
      BY <1>15, Setting DEF Write, TypeInv
    <2> QED
      BY <2>1 DEF DeclinedStep
  <1>16. ASSUME NEW a \in Actors, Callback(a) PROVE \A b \in Actors : DeclinedStep(b)
    <2>1. \A b \in Actors : pc'[b] \in {"unwind", "ending"} =>
             pc[b] \in {"result", "unwind", "ending"}
      BY <1>16, Setting DEF Callback, TypeInv
    <2> QED
      BY <2>1 DEF DeclinedStep
  <1>17. ASSUME NEW h \in Handlers, WorkerFinishes(h) PROVE \A b \in Actors : DeclinedStep(b)
    <2>1. \A b \in Actors : pc'[b] \in {"unwind", "ending"} =>
             pc[b] \in {"result", "unwind", "ending"}
      BY <1>17, Setting DEF WorkerFinishes, TypeInv
    <2> QED
      BY <2>1 DEF DeclinedStep
  <1>18. ASSUME NEW a \in Actors, Collect(a) PROVE \A b \in Actors : DeclinedStep(b)
    <2>1. \A b \in Actors : pc'[b] \in {"unwind", "ending"} =>
             pc[b] \in {"result", "unwind", "ending"}
      BY <1>18, Setting DEF Collect, TypeInv
    <2> QED
      BY <2>1 DEF DeclinedStep
  <1>19. ASSUME NEW t \in Threads, WriteReturns(t) PROVE \A b \in Actors : DeclinedStep(b)
    <2>1. \A b \in Actors : pc'[b] \in {"unwind", "ending"} =>
             pc[b] \in {"result", "unwind", "ending"}
      BY <1>19, Setting DEF WriteReturns, TypeInv
    <2> QED
      BY <2>1 DEF DeclinedStep
  <1> HIDE DEF statics, object, handoff, output, bounds, Goto
  <1>a. ASSUME NEW a \in Actors, Handle(a) PROVE \A b \in Actors : DeclinedStep(b)
    BY <1>a, <1>6, <1>7, <1>8, <1>9, <1>10, <1>11, <1>13, <1>15, <1>16, <1>18
    DEF Handle
  <1> QED
    BY <1>a, <1>1, <1>2, <1>3, <1>4, <1>5, <1>12, <1>14, <1>17, <1>19
    DEF Next, Lifecycle, Work

\* A fault goes to the system only when each handler on the stack was given it, or
\* another thread is in a handler function.
THEOREM AllHaveDeclined ==
    ASSUME AllTypesInOrder
    PROVE  Spec => DeclinedByAll
  <1>1. VerdictInv /\ FilterInv /\ HolderInv /\ [Next]_vars =>
           [\A a \in Actors : DeclinedStep(a)]_vars
    <2>1. VerdictInv /\ FilterInv /\ HolderInv /\ Next => \A a \in Actors : DeclinedStep(a)
      <3> SUFFICES ASSUME VerdictInv, FilterInv, HolderInv, Next
                   PROVE  \A a \in Actors : DeclinedStep(a)
        OBVIOUS
      <3>1. proc = "alive"
        BY DEF Next
      <3> QED
        BY <3>1, DeclinedSteps DEF VerdictInv
    <2> QED
      BY <2>1
  <1>2. [][\A a \in Actors : DeclinedStep(a)]_vars => DeclinedByAll
    BY DEF DeclinedByAll, DeclinedStep
  <1> QED
    BY <1>1, <1>2, FiltersAlways, PTL DEF Spec
=============================================================================
