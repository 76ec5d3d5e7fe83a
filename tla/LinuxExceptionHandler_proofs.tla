--------------------- MODULE LinuxExceptionHandler_proofs ---------------------
(***************************************************************************)
(* Proofs about LinuxExceptionHandler, for any threads, handlers and         *)
(* signals, destroyed in any order.  The inductive invariant IInv says who   *)
(* holds handler_stack_mutex_ where, what the owner thread is doing to which *)
(* handler (also while a signal interrupts it), and that the stack holds     *)
(* each handler once and no dead one.  DispInv adds what the handlers have   *)
(* saved; its last two parts need the reverse order of destruction.          *)
(***************************************************************************)
EXTENDS LinuxExceptionHandler, SequenceTheorems, TLAPS

\* Where a thread is outside of the signal handler that may interrupt it.
Where(t) == IF pc[t] \in InHandler THEN ret[t] ELSE pc[t]

Constructing == {"install", "push", "pushing"}
Destroying == {"restore", "erase", "erasing"}

\* Only the owner constructs and destroys, one handler at a time.
OwnerInv ==
    /\ \A t \in Threads \ {Owner} : Where(t) = "run"
    /\ Where(Owner) \in Constructing => life[obj] = "ctor"
    /\ Where(Owner) \in Destroying => life[obj] = "dtor"
    /\ Where(Owner) = "install" => Len(old[obj]) < Len(Signals)
    /\ \A h \in Handlers : life[h] = "none" => old[h] = <<>>

\* The mutex is held in the critical sections, and a signal that comes in one of
\* the owner's does not get past Enter.
MutexInv ==
    /\ Where(Owner) \in {"pushing", "erasing"} =>
         mutex = {Owner} /\ pc[Owner] \in {"pushing", "erasing", "enter"}
    /\ \A t \in Threads : pc[t] \in {"handling", "unlock"} => mutex = {t}

\* The stack, and the loop over it.
StackInv ==
    /\ \A i \in 1..Len(stack) : life[stack[i]] \in {"alive", "dtor"}
    /\ \A i, j \in 1..Len(stack) : stack[i] = stack[j] => i = j
    /\ \A t \in Threads : pc[t] = "handling" => idx[t] \in 1..Len(stack)

IInv == TypeOK /\ OwnerInv /\ MutexInv /\ StackInv

-----------------------------------------------------------------------------
\* kExceptionSignals is a sequence that is not empty, and SIGSEGV is among them.
LEMMA SignalFacts ==
    /\ Len(Signals) \in Nat \ {0}
    /\ \A i \in 1..Len(Signals) : Signals[i] \in SignalSet
    /\ SigSegv \in SignalSet /\ Owner \in Threads
  <1>1. Len(Signals) \in Nat /\ SigSegv \in SignalSet /\ Owner \in Threads
    BY LinuxExceptionHandlerAssumption DEF LinuxExceptionHandlerAssumption
  <1> QED
    BY <1>1 DEF SignalSet

\* At first there is no handler.
LEMMA InitIInv == Init => IInv
  BY SignalFacts
  DEF Init, IInv, TypeOK, OwnerInv, MutexInv, StackInv, Where, InHandler, OwnerStates,
      Constructing, Destroying

\* Removing one element from a sequence that holds each once leaves the others.
LEMMA Removed ==
    ASSUME NEW S, NEW s \in Seq(S), NEW i \in 1..Len(s), NEW r,
           r = [j \in 1..(Len(s) - 1) |-> IF j < i THEN s[j] ELSE s[j + 1]],
           \A j, k \in 1..Len(s) : s[j] = s[k] => j = k
    PROVE  /\ r \in Seq(S)
           /\ \A j \in 1..Len(r) : r[j] # s[i]
           /\ \A j \in 1..Len(r) : \E k \in 1..Len(s) : r[j] = s[k]
           /\ \A j, k \in 1..Len(r) : r[j] = r[k] => j = k
  <1>1. Len(s) \in Nat /\ i \in Nat /\ 1 <= i /\ i <= Len(s)
    OBVIOUS
  <1>2. \A j \in 1..(Len(s) - 1) : (IF j < i THEN s[j] ELSE s[j + 1]) \in S
    BY <1>1
  <1>3. r \in Seq(S) /\ Len(r) = Len(s) - 1
    BY <1>1, <1>2
  <1>4. \A j \in 1..(Len(s) - 1) : r[j] = IF j < i THEN s[j] ELSE s[j + 1]
    BY <1>1
  <1>5. \A j \in 1..Len(r) : r[j] # s[i]
    BY <1>1, <1>3, <1>4
  <1>6. \A j \in 1..Len(r) : \E k \in 1..Len(s) : r[j] = s[k]
    BY <1>1, <1>3, <1>4
  <1>7. \A j, k \in 1..Len(r) : r[j] = r[k] => j = k
    BY <1>1, <1>3, <1>4
  <1> QED
    BY <1>3, <1>5, <1>6, <1>7

\* Every step keeps the types.
LEMMA StepTypeOK == IInv /\ [Next]_vars => TypeOK'
  <1> SUFFICES ASSUME IInv, [Next]_vars PROVE TypeOK'
    OBVIOUS
  <1> USE SignalFacts DEF IInv, TypeOK, OwnerStates, InHandler, Goto
  <1>1. ASSUME NEW h \in Handlers, Construct(h) \/ Destruct(h) PROVE TypeOK'
    BY <1>1 DEF Construct, Destruct, lock, frame, bounds
  <1>2. CASE InstallOne
    <2>1. Len(old[obj]) + 1 \in 1..Len(Signals)
      BY <1>2 DEF InstallOne, OwnerInv, Where
    <2>2. \A s \in SignalSet : <<s, disp[s]>> \in SignalSet \X {"DFL", "Handler"}
      OBVIOUS
    <2>3. Append(old[obj], <<Signals[Len(old[obj]) + 1], disp[Signals[Len(old[obj]) + 1]]>>)
             \in Seq(SignalSet \X {"DFL", "Handler"})
      BY <2>1, <2>2
    <2> QED
      BY <1>2, <2>1, <2>3 DEF InstallOne, lock, frame, bounds
  <1>3. CASE LockStack
    BY <1>3 DEF LockStack, Acquire, frame, bounds
  <1>4. CASE Push
    <2>1. stack' \in Seq(Handlers)
      BY <1>4, AppendProperties DEF Push
    <2> QED
      BY <1>4, <2>1 DEF Push, frame, bounds
  <1>5. CASE RestoreOne
    <2>1. CASE old[obj] = <<>>
      BY <1>5, <2>1 DEF RestoreOne, lock, frame, bounds
    <2>2. CASE old[obj] # <<>>
      <3>1. /\ Head(old[obj]) \in SignalSet \X {"DFL", "Handler"}
            /\ Tail(old[obj]) \in Seq(SignalSet \X {"DFL", "Handler"})
        BY <2>2
      <3> QED
        BY <1>5, <2>2, <3>1 DEF RestoreOne, lock, frame, bounds
    <2> QED
      BY <2>1, <2>2
  <1>6. CASE Erase
    <2>1. stack' \in Seq(Handlers)
      BY <1>6, Removed DEF Erase, StackInv
    <2> QED
      BY <1>6, <2>1 DEF Erase, frame, bounds
  <1>7. ASSUME NEW t \in Threads, NEW s \in SignalSet, Fault(t, s) \/ SendSignal(t, s)
        PROVE  TypeOK'
    <2>0. pc[t] = "run" \/ pc[t] \notin InHandler
      BY <1>7, Zenon DEF Fault, SendSignal
    <2>1. pc[t] \in OwnerStates
      BY <2>0
    <2>2. UNCHANGED <<disp, lock, old, life, obj, idx, pending, asked>>
      BY <1>7, Zenon DEF Fault, SendSignal
    <2>4. faults' \in Nat /\ sent' \in Nat
      <3>1. CASE Fault(t, s)
        BY <3>1 DEF Fault, lock
      <3>2. CASE SendSignal(t, s)
        BY <3>2 DEF SendSignal, lock
      <3> QED
        BY <1>7, <3>1, <3>2
    <2>3. \/ proc' = s /\ UNCHANGED <<pc, frame>>
          \/ /\ UNCHANGED proc /\ pc' = [pc EXCEPT ![t] = "enter"]
             /\ sig' = [sig EXCEPT ![t] = s]
             /\ \E b \in BOOLEAN : sync' = [sync EXCEPT ![t] = b]
             /\ ret' = [ret EXCEPT ![t] = pc[t]]
      BY <1>7 DEF Fault, SendSignal, Deliver
    <2>5. CASE proc' = s /\ UNCHANGED <<pc, frame>>
      BY <2>2, <2>4, <2>5 DEF lock, frame
    <2>6. CASE UNCHANGED proc /\ pc' = [pc EXCEPT ![t] = "enter"]
      <3>1. /\ pc' \in [Threads -> OwnerStates \cup InHandler]
            /\ proc' \in {"alive", "exit"} \cup SignalSet
        BY <2>6
      <3>2. /\ sig' \in [Threads -> SignalSet] /\ sync' \in [Threads -> BOOLEAN]
            /\ ret' \in [Threads -> OwnerStates]
        <4>1. CASE UNCHANGED frame
          BY <4>1 DEF frame
        <4>2. CASE /\ sig' = [sig EXCEPT ![t] = s]
                   /\ \E b \in BOOLEAN : sync' = [sync EXCEPT ![t] = b]
                   /\ ret' = [ret EXCEPT ![t] = pc[t]]
          BY <2>1, <4>2
        <4> QED
          BY <2>3, <4>1, <4>2
      <3> QED
        BY <2>2, <2>4, <3>1, <3>2 DEF lock
    <2> QED
      BY <2>3, <2>5, <2>6
  <1>8. ASSUME NEW t \in Threads, SignalHandler(t) PROVE TypeOK'
    <2>1. CASE Enter(t)
      <3>1. CASE stackNull
        BY <2>1, <3>1, SMTT(30) DEF Enter, lock, frame, bounds
      <3>2. CASE ~stackNull /\ stack = <<>>
        BY <2>1, <3>2 DEF Enter, lock, frame, bounds
      <3>3. CASE ~stackNull /\ stack # <<>>
        <4>1. /\ mutex' = {t} /\ UNCHANGED <<stack, stackNull, proc>>
              /\ idx' = [idx EXCEPT ![t] = Len(stack)]
              /\ pc' = [pc EXCEPT ![t] = "handling"]
              /\ UNCHANGED <<disp, old, life, obj, frame, pending, asked, bounds>>
          BY <2>1, <3>3 DEF Enter, Acquire
        <4>2. Len(stack) \in Nat
          OBVIOUS
        <4> QED
          BY <4>1, <4>2 DEF frame, bounds
      <3> QED
        BY <3>1, <3>2, <3>3
    <2>2. CASE HandleSignal(t)
      <3>1. idx[t] \in 1..Len(stack) /\ stack[idx[t]] \in Handlers
        BY <2>2 DEF HandleSignal, StackInv
      <3> QED
        BY <2>2, <3>1 DEF HandleSignal, lock, frame, bounds
    <2>3. CASE Unlock(t) \/ Reissue(t) \/ Reset(t)
      BY <2>3 DEF Unlock, Reissue, Reset, lock, frame, bounds
    <2>4. CASE Return(t)
      BY <2>4 DEF Return, Deliver, lock, frame, bounds
    <2> QED
      BY <1>8, <2>1, <2>2, <2>3, <2>4 DEF SignalHandler
  <1>9. CASE UNCHANGED vars
    BY <1>9 DEF vars, lock, frame, bounds
  <1> QED
    BY <1>1, <1>2, <1>3, <1>4, <1>5, <1>6, <1>7, <1>8, <1>9 DEF Next, Lifecycle

SignalStep ==
    \E t \in Threads : SignalHandler(t) \/ \E s \in SignalSet : Fault(t, s) \/ SendSignal(t, s)
OwnerStep == Lifecycle \/ \E h \in Handlers : Construct(h) \/ Destruct(h)

\* A signal moves nobody outside of its handler, and no handler object.
LEMMA SignalsKeepWhere ==
    ASSUME IInv, SignalStep
    PROVE  /\ \A u \in Threads : Where(u)' = Where(u)
           /\ UNCHANGED <<life, obj, old, stack>>
  <1> USE DEF IInv, TypeOK, OwnerStates, InHandler, Goto
  <1>1. PICK t \in Threads :
           SignalHandler(t) \/ \E s \in SignalSet : Fault(t, s) \/ SendSignal(t, s)
    BY DEF SignalStep
  <1>2. UNCHANGED <<life, obj, old, stack>>
    BY <1>1 DEF SignalHandler, Enter, HandleSignal, Unlock, Reissue, Reset, Return, Fault,
       SendSignal, Acquire, lock
  <1>3. \A u \in Threads \ {t} : pc'[u] = pc[u] /\ ret'[u] = ret[u]
    <2>1. CASE SignalHandler(t)
      BY <2>1 DEF SignalHandler, Enter, HandleSignal, Unlock, Reissue, Reset, Return,
         Deliver, frame
    <2>2. ASSUME NEW s \in SignalSet, Fault(t, s) \/ SendSignal(t, s)
          PROVE  \A u \in Threads \ {t} : pc'[u] = pc[u] /\ ret'[u] = ret[u]
      BY <2>2 DEF Fault, SendSignal, Deliver, frame
    <2> QED
      BY <1>1, <2>1, <2>2
  <1>4. Where(t)' = Where(t)
    <2>1. CASE Enter(t) \/ HandleSignal(t) \/ Unlock(t) \/ Reissue(t) \/ Reset(t)
      BY <2>1 DEF Enter, HandleSignal, Unlock, Reissue, Reset, Where, frame
    <2>2. CASE Return(t)
      BY <2>2 DEF Return, Deliver, Where, frame
    <2>3. ASSUME NEW s \in SignalSet, Fault(t, s) PROVE Where(t)' = Where(t)
      BY <2>3 DEF Fault, Deliver, Where, frame
    <2>4. ASSUME NEW s \in SignalSet, SendSignal(t, s) PROVE Where(t)' = Where(t)
      BY <2>4 DEF SendSignal, Deliver, Where, frame
    <2> QED
      BY <1>1, <2>1, <2>2, <2>3, <2>4 DEF SignalHandler
  <1> QED
    BY <1>2, <1>3, <1>4 DEF Where

\* A step of a constructor or destructor moves the owner alone.
LEMMA OwnerMoves ==
    ASSUME IInv, OwnerStep
    PROVE  /\ pc[Owner] \in OwnerStates /\ Where(Owner) = pc[Owner]
           /\ pc'[Owner] \in OwnerStates /\ Where(Owner)' = pc'[Owner]
           /\ \A t \in Threads \ {Owner} : pc'[t] = pc[t] /\ Where(t)' = Where(t)
           /\ UNCHANGED <<frame, idx>>
  <1> USE SignalFacts DEF IInv, TypeOK, OwnerStates, InHandler, Goto
  <1>1. /\ pc[Owner] \in OwnerStates /\ UNCHANGED <<frame, idx>>
        /\ \E l \in OwnerStates : pc' = [pc EXCEPT ![Owner] = l]
    <2> DEFINE Moved == \E l \in OwnerStates : pc' = [pc EXCEPT ![Owner] = l]
    <2>1. ASSUME NEW h \in Handlers, Construct(h) \/ Destruct(h)
          PROVE  pc[Owner] \in OwnerStates /\ UNCHANGED <<frame, idx>> /\ Moved
      BY <2>1 DEF Construct, Destruct
    <2>2. CASE InstallOne
      BY <2>2 DEF InstallOne
    <2>3. CASE LockStack \/ Push \/ Erase
      BY <2>3 DEF LockStack, Push, Erase
    <2>4. CASE RestoreOne
      BY <2>4 DEF RestoreOne
    <2> QED
      BY <2>1, <2>2, <2>3, <2>4 DEF OwnerStep, Lifecycle
  <1> QED
    BY <1>1 DEF Where, frame

\* A step is of SignalHandler, or of the thread that constructs and destroys handlers.
LEMMA NextSplits == Next => SignalStep \/ OwnerStep
  BY DEF Next, SignalStep, OwnerStep

\* Signals leave the owner's constructor or destructor as it is.
LEMMA StepOwnerInv == IInv /\ [Next]_vars => OwnerInv'
  <1> SUFFICES ASSUME IInv, [Next]_vars PROVE OwnerInv'
    OBVIOUS
  <1> USE SignalFacts DEF OwnerInv, Constructing, Destroying
  <1>1. CASE SignalStep
    BY <1>1, SignalsKeepWhere DEF IInv
  <1>2. CASE OwnerStep
    <2>0. /\ Where(Owner) = pc[Owner] /\ Where(Owner)' = pc'[Owner]
          /\ \A t \in Threads \ {Owner} : Where(t)' = "run"
      BY <1>2, OwnerMoves DEF IInv
    <2> USE DEF IInv, TypeOK, Goto
    <2>1. ASSUME NEW h \in Handlers, Construct(h) PROVE OwnerInv'
      BY <2>0, <2>1 DEF Construct
    <2>2. ASSUME NEW h \in Handlers, Destruct(h) PROVE OwnerInv'
      BY <2>0, <2>2 DEF Destruct
    <2>3. CASE InstallOne
      <3>1. /\ Where(Owner) = "install" /\ life[obj] = "ctor" /\ UNCHANGED <<life, obj>>
            /\ Len(old'[obj]) \in Nat /\ Len(old'[obj]) <= Len(Signals)
            /\ \A h \in Handlers \ {obj} : old'[h] = old[h]
            /\ pc'[Owner] = IF Len(old'[obj]) = Len(Signals) THEN "push" ELSE "install"
        BY <2>0, <2>3 DEF InstallOne
      <3> QED
        BY <2>0, <3>1
    <2>4. CASE LockStack
      BY <2>0, <2>4 DEF LockStack
    <2>5. CASE Push
      BY <2>0, <2>5 DEF Push
    <2>6. CASE RestoreOne
      <3>1. /\ life[obj] = "dtor" /\ UNCHANGED <<life, obj>>
            /\ pc'[Owner] \in {"restore", "erase"}
            /\ \A h \in Handlers \ {obj} : old'[h] = old[h]
        BY <2>0, <2>6 DEF RestoreOne
      <3> QED
        BY <2>0, <3>1
    <2>7. CASE Erase
      BY <2>0, <2>7 DEF Erase
    <2> QED
      BY <1>2, <2>1, <2>2, <2>3, <2>4, <2>5, <2>6, <2>7 DEF OwnerStep, Lifecycle
  <1>3. CASE UNCHANGED vars
    BY <1>3 DEF vars, frame, IInv, Where
  <1> QED
    BY <1>1, <1>2, <1>3, NextSplits

\* The mutex is held where the code holds it.
LEMMA StepMutexInv == IInv /\ [Next]_vars => MutexInv'
  <1> SUFFICES ASSUME IInv, [Next]_vars PROVE MutexInv'
    OBVIOUS
  <1> USE SignalFacts DEF MutexInv, IInv, TypeOK, InHandler, OwnerStates, Goto
  <1>1. CASE SignalStep
    <2>1. Where(Owner)' = Where(Owner)
      BY <1>1, SignalsKeepWhere
    <2>2. PICK t \in Threads :
             SignalHandler(t) \/ \E s \in SignalSet : Fault(t, s) \/ SendSignal(t, s)
      BY <1>1 DEF SignalStep
    <2>3. CASE \E s \in SignalSet : Fault(t, s) \/ SendSignal(t, s)
      <3>1. /\ mutex' = mutex /\ \A u \in Threads \ {t} : pc'[u] = pc[u]
            /\ pc'[t] \in {pc[t], "enter"}
        BY <2>3 DEF Fault, SendSignal, Deliver, lock
      <3> QED
        BY <2>1, <3>1
    <2>4. CASE Enter(t)
      <3>1. \/ mutex' = mutex /\ pc' = pc
            \/ mutex' = mutex /\ mutex = {} /\ pc' = [pc EXCEPT ![t] = "return"]
            \/ mutex = {} /\ mutex' = {t} /\ pc' = [pc EXCEPT ![t] = "handling"]
        BY <2>4 DEF Enter, Acquire, lock
      <3> QED
        BY <2>1, <3>1
    <2>5. CASE HandleSignal(t)
      BY <2>1, <2>5 DEF HandleSignal, lock
    <2>6. CASE Unlock(t)
      BY <2>1, <2>6 DEF Unlock
    <2>7. CASE Reissue(t) \/ Reset(t)
      BY <2>1, <2>7 DEF Reissue, Reset, lock
    <2>8. CASE Return(t)
      <3>1. /\ mutex' = mutex /\ \A u \in Threads \ {t} : pc'[u] = pc[u]
            /\ pc[t] = "return" /\ pc'[t] \in {"return", "enter", ret[t]}
        BY <2>8 DEF Return, Deliver, lock
      <3>2. Where(Owner) \in {"pushing", "erasing"} => t # Owner
        BY <3>1
      <3> QED
        BY <2>1, <3>1, <3>2
    <2> QED
      BY <2>2, <2>3, <2>4, <2>5, <2>6, <2>7, <2>8 DEF SignalHandler
  <1>2. CASE OwnerStep
    <2>0. /\ Where(Owner) = pc[Owner] /\ Where(Owner)' = pc'[Owner]
          /\ pc'[Owner] \in OwnerStates
          /\ \A t \in Threads \ {Owner} : pc'[t] = pc[t]
      BY <1>2, OwnerMoves
    <2>1. ASSUME NEW h \in Handlers, Construct(h) \/ Destruct(h) PROVE MutexInv'
      BY <2>0, <2>1 DEF Construct, Destruct, lock
    <2>2. CASE InstallOne \/ RestoreOne
      <3>1. mutex' = mutex /\ pc'[Owner] \in {"install", "push", "restore", "erase"}
        BY <2>2 DEF InstallOne, RestoreOne, lock
      <3> QED
        BY <2>0, <3>1
    <2>3. CASE LockStack
      BY <2>0, <2>3 DEF LockStack, Acquire
    <2>4. CASE Push \/ Erase
      <3>1. /\ pc[Owner] \in {"pushing", "erasing"} /\ pc'[Owner] = "run" /\ mutex' = {}
        BY <2>4 DEF Push, Erase
      <3>2. \A t \in Threads : pc[t] \in {"handling", "unlock"} => t = Owner
        BY <2>0, <3>1
      <3>3. \A t \in Threads : pc'[t] \notin {"handling", "unlock"}
        BY <2>0, <3>1, <3>2
      <3> QED
        BY <2>0, <3>1, <3>3
    <2> QED
      BY <1>2, <2>1, <2>2, <2>3, <2>4 DEF OwnerStep, Lifecycle
  <1>3. CASE UNCHANGED vars
    BY <1>3 DEF vars, frame, lock, Where
  <1> QED
    BY <1>1, <1>2, <1>3, NextSplits

\* Only handlers that are there get onto the stack, and those destroyed leave it.
LEMMA StepStackInv == IInv /\ [Next]_vars => StackInv'
  <1> SUFFICES ASSUME IInv, [Next]_vars PROVE StackInv'
    OBVIOUS
  <1>0. /\ Len(stack) \in Nat /\ \A i \in 1..Len(stack) : stack[i] \in Handlers
        /\ stack \in Seq(Handlers) /\ obj \in Handlers /\ Owner \in Threads
        /\ life \in [Handlers -> {"none", "ctor", "alive", "dtor", "dead"}]
        /\ idx \in [Threads -> Nat]
        /\ pc \in [Threads -> OwnerStates \cup InHandler]
        /\ ret \in [Threads -> OwnerStates]
        /\ StackInv
    BY SignalFacts DEF IInv, TypeOK
  <1> USE <1>0 DEF StackInv
  <1>1. CASE SignalStep
    <2>1. UNCHANGED <<life, stack>>
      BY <1>1, SignalsKeepWhere
    <2>2. \A u \in Threads : pc'[u] = "handling" => idx'[u] \in 1..Len(stack)
      <3>1. PICK t \in Threads :
               SignalHandler(t) \/ \E s \in SignalSet : Fault(t, s) \/ SendSignal(t, s)
        BY <1>1 DEF SignalStep
      <3>2. CASE Enter(t)
        <4>1. \A u \in Threads \ {t} : pc'[u] = pc[u] /\ idx'[u] = idx[u]
          BY <3>2 DEF Enter, Goto
        <4>2. pc'[t] = "handling" => stack # <<>> /\ idx'[t] = Len(stack)
          BY <3>2 DEF Enter, Goto
        <4> QED
          BY <4>1, <4>2
      <3>3. CASE HandleSignal(t)
        BY <3>3 DEF HandleSignal, Goto
      <3>4. CASE Unlock(t) \/ Reissue(t) \/ Reset(t)
        BY <3>4 DEF Unlock, Reissue, Reset, Goto
      <3>5. CASE Return(t)
        BY <3>5 DEF Return, Deliver, Goto, OwnerStates
      <3>6. CASE \E s \in SignalSet : Fault(t, s) \/ SendSignal(t, s)
        BY <3>6 DEF Fault, SendSignal, Deliver, Goto
      <3> QED
        BY <3>1, <3>2, <3>3, <3>4, <3>5, <3>6 DEF SignalHandler
    <2> QED
      BY <2>1, <2>2
  <1>2. CASE OwnerStep
    <2>0. /\ Where(Owner) = pc[Owner] /\ pc[Owner] \in OwnerStates
          /\ pc'[Owner] \in OwnerStates
          /\ \A t \in Threads \ {Owner} : pc'[t] = pc[t]
          /\ idx' = idx
      BY <1>2, OwnerMoves
    <2>1. \A t \in Threads : pc'[t] = "handling" => pc[t] = "handling" /\ t # Owner
      BY <2>0 DEF OwnerStates
    <2>2. CASE stack' = stack /\ \A i \in 1..Len(stack) : life'[stack[i]] \in {"alive", "dtor"}
      BY <2>0, <2>1, <2>2
    <2>3. ASSUME NEW h \in Handlers, Construct(h) \/ Destruct(h) PROVE StackInv'
      <3>1. /\ stack' = stack /\ \A g \in Handlers \ {h} : life'[g] = life[g]
            /\ life[h] = "none" \/ life'[h] = "dtor"
        BY <2>3 DEF Construct, Destruct, lock
      <3> QED
        BY <2>2, <3>1
    <2>4. CASE InstallOne \/ LockStack \/ RestoreOne
      BY <2>2, <2>4 DEF InstallOne, LockStack, RestoreOne, Acquire, lock
    <2>5. CASE Push \/ Erase
      \* Nobody is in the loop while the owner holds the mutex.
      <3>0. \A t \in Threads : pc'[t] # "handling"
        <4>1. mutex = {Owner}
          BY <2>0, <2>5 DEF Push, Erase, MutexInv, IInv
        <4>2. \A t \in Threads : pc[t] = "handling" => mutex = {t}
          BY DEF MutexInv, IInv
        <4> QED
          BY <2>1, <4>1, <4>2
      <3>1. CASE Push
        <4>1. life[obj] = "ctor"
          BY <2>0, <3>1 DEF Push, OwnerInv, Constructing, IInv
        <4>2. \A i \in 1..Len(stack) : stack[i] # obj
          BY <4>1
        <4>3. /\ stack' = Append(stack, obj) /\ life'[obj] = "alive"
              /\ \A g \in Handlers \ {obj} : life'[g] = life[g]
          BY <3>1 DEF Push
        <4>4. /\ Len(stack') = Len(stack) + 1 /\ stack'[Len(stack) + 1] = obj
              /\ \A i \in 1..Len(stack) : stack'[i] = stack[i]
          BY <4>3
        <4>5. \A i \in 1..Len(stack') : i \in 1..Len(stack) \/ i = Len(stack) + 1
          BY <4>4
        <4>6. \A i \in 1..Len(stack') : life'[stack'[i]] \in {"alive", "dtor"}
          BY <4>2, <4>3, <4>4, <4>5
        <4>7. \A i, j \in 1..Len(stack') : stack'[i] = stack'[j] => i = j
          BY <4>2, <4>4, <4>5
        <4> QED
          BY <3>0, <4>6, <4>7
      <3>2. CASE Erase
        <4>1. PICK i \in 1..Len(stack) :
                 /\ stack[i] = obj
                 /\ stack' = [j \in 1..(Len(stack) - 1) |->
                                 IF j < i THEN stack[j] ELSE stack[j + 1]]
          BY <3>2 DEF Erase
        <4>2. /\ \A j \in 1..Len(stack') : stack'[j] # obj
              /\ \A j \in 1..Len(stack') : \E k \in 1..Len(stack) : stack'[j] = stack[k]
              /\ \A j, k \in 1..Len(stack') : stack'[j] = stack'[k] => j = k
          BY <4>1, Removed
        <4>3. \A g \in Handlers \ {obj} : life'[g] = life[g]
          BY <3>2 DEF Erase
        <4>4. \A j \in 1..Len(stack') : life'[stack'[j]] \in {"alive", "dtor"}
          BY <4>2, <4>3
        <4> QED
          BY <3>0, <4>2, <4>4
      <3> QED
        BY <2>5, <3>1, <3>2
    <2> QED
      BY <1>2, <2>3, <2>4, <2>5 DEF OwnerStep, Lifecycle
  <1>3. CASE UNCHANGED vars
    BY <1>3 DEF vars, lock
  <1> QED
    BY <1>1, <1>2, <1>3, NextSplits

\* The three parts are an invariant together.
LEMMA Invariance == Spec => []IInv
  <1>1. IInv /\ [Next]_vars => IInv'
    BY StepTypeOK, StepOwnerInv, StepMutexInv, StepStackInv DEF IInv
  <1> QED
    BY <1>1, InitIInv, PTL DEF Spec

\* Dispositions, stack, mutex and threads keep their types.
THEOREM TypeCorrect == Spec => []TypeOK
  BY Invariance, PTL DEF IInv

\* In whatever order handlers come and go on their thread while others crash, a
\* handler is asked about a crash only while it exists, under the mutex, and the
\* index of the loop in SignalHandler stays inside the stack.
THEOREM AskedHandlerLives == Spec => []HandlerLives
  <1>1. IInv => HandlerLives
    BY DEF IInv, MutexInv, StackInv, HandlerLives
  <1> QED
    BY <1>1, Invariance, PTL

-----------------------------------------------------------------------------
(* The dispositions. *)

\* What a handler has saved: all signals, in order, or none at all, and less
\* than that only while its constructor or destructor is in its loop.
Installed(h) == old[h] # <<>>
SavedInv ==
    /\ \A h \in Handlers : life[h] \in {"ctor", "alive"} =>
          \A k \in 1..Len(old[h]) : old[h][k][1] = Signals[k]
    /\ \A h \in Handlers : life[h] = "alive" => Len(old[h]) \in {0, Len(Signals)}
    /\ Where(Owner) \in {"push", "pushing"} => Len(old[obj]) \in {0, Len(Signals)}
    /\ Where(Owner) \in {"erase", "erasing"} => ~Installed(obj)
    /\ \A h \in Handlers : life[h] = "dead" => ~Installed(h)

\* The stack holds every handler that is alive, and the one that is destroyed
\* is its last if handlers are destroyed in the reverse order.
PlaceInv ==
    /\ \A h \in Handlers :
          /\ life[h] = "ctor" => h = obj /\ Where(Owner) \in Constructing
          /\ life[h] = "dtor" => h = obj /\ Where(Owner) \in Destroying
          /\ life[h] \in {"alive", "dtor"} => \E i \in 1..Len(stack) : stack[i] = h
    /\ Lifo /\ life[obj] = "dtor" => stack # <<>> /\ stack[Len(stack)] = obj
    /\ stackNull => stack = <<>>

\* Is a handler installed below position i of the stack?
Below(i) == \E j \in 1..(i - 1) : Installed(stack[j])
AnyAlive == \E h \in Handlers : life[h] = "alive" /\ Installed(h)

\* SignalHandler is the disposition of a signal, now or when a handler saved it,
\* only if there is a handler, below it, that installed it.
HandlerInv ==
    /\ \A s \in SignalSet : disp[s] = "Handler" =>
          AnyAlive \/ \E k \in 1..Len(old[obj]) : old[obj][k][1] = s
    /\ \A i \in 1..Len(stack) : \A k \in 1..Len(old[stack[i]]) :
          old[stack[i]][k][2] = "Handler" => Below(i)
    /\ life[obj] = "ctor" => \A k \in 1..Len(old[obj]) :
          old[obj][k][2] = "Handler" => Below(Len(stack) + 1)

\* Before a handler was asked SIG_DFL comes back only from a destructor: while a
\* handler is installed the disposition is SignalHandler, and so is what the
\* handlers above it have saved.
UnaskedInv ==
    /\ AnyAlive => \A s \in SignalSet : disp[s] = "Handler"
    /\ life[obj] = "ctor" => \A k \in 1..Len(old[obj]) : disp[Signals[k]] = "Handler"
    /\ \A i \in 1..Len(stack) : Below(i) =>
          \A k \in 1..Len(old[stack[i]]) : old[stack[i]][k][2] = "Handler"
    /\ life[obj] = "ctor" /\ Below(Len(stack) + 1) =>
          \A k \in 1..Len(old[obj]) : old[obj][k][2] = "Handler"

\* SIG_DFL is set after a handler was asked, and the process dies of a signal by
\* its disposition or for want of a stack.
AskedInv ==
    /\ \A t \in Threads : pc[t] \in {"unlock", "reissue", "reset"} => asked # {}
    /\ proc \in SignalSet => stackNull \/ \E s \in SignalSet : disp[s] = "DFL"

DispInv ==
    /\ SavedInv /\ PlaceInv /\ AskedInv
    /\ Lifo => HandlerInv /\ (asked = {} => UnaskedInv)

\* What the steps of the two loops do to the list of the handler in hand.
LEMMA InstallEffect ==
    ASSUME IInv, InstallOne
    PROVE  LET n == Len(old[obj])
               s == Signals[n + 1] IN
           /\ n \in Nat /\ n < Len(Signals) /\ n + 1 \in 1..Len(Signals) /\ s \in SignalSet
           /\ Where(Owner) = "install" /\ life[obj] = "ctor"
           /\ Where(Owner)' = IF n + 1 = Len(Signals) THEN "push" ELSE "install"
           /\ \A h \in Handlers \ {obj} : old'[h] = old[h]
           /\ Len(old'[obj]) = n + 1
           /\ \A k \in 1..n : old'[obj][k] = old[obj][k]
           /\ old'[obj][n + 1] = <<s, disp[s]>>
           /\ disp' = [disp EXCEPT ![s] = "Handler"]
           /\ UNCHANGED <<life, obj, stack, stackNull, asked, proc>>
  <1> DEFINE n == Len(old[obj])
             s == Signals[n + 1]
             P == SignalSet \X {"DFL", "Handler"}
  <1>0. OwnerStep
    BY DEF OwnerStep, Lifecycle
  <1>1. /\ Where(Owner) = "install" /\ Where(Owner)' = pc'[Owner]
    BY <1>0, OwnerMoves DEF InstallOne
  <1>2. n < Len(Signals) /\ life[obj] = "ctor"
    BY <1>1 DEF IInv, OwnerInv, Constructing
  <1>3. old[obj] \in Seq(P) /\ obj \in Handlers /\ old \in [Handlers -> Seq(P)]
        /\ disp \in [SignalSet -> {"DFL", "Handler"}]
        /\ pc \in [Threads -> OwnerStates \cup InHandler]
    BY DEF IInv, TypeOK
  <1>4. n \in Nat /\ n + 1 \in 1..Len(Signals) /\ s \in SignalSet
    BY <1>2, <1>3, SignalFacts
  <1>5. <<s, disp[s]>> \in P
    BY <1>3, <1>4
  <1>6. old' = [old EXCEPT ![obj] = Append(old[obj], <<s, disp[s]>>)]
    BY DEF InstallOne
  <1>7. old'[obj] = Append(old[obj], <<s, disp[s]>>) /\ \A h \in Handlers \ {obj} : old'[h] = old[h]
    BY <1>3, <1>6
  <1>8. /\ Len(old'[obj]) = n + 1 /\ old'[obj][n + 1] = <<s, disp[s]>>
        /\ \A k \in 1..n : old'[obj][k] = old[obj][k]
    BY <1>3, <1>5, <1>7, AppendProperties
  <1>9. pc'[Owner] = IF n + 1 = Len(Signals) THEN "push" ELSE "install"
    BY <1>3, <1>8, SignalFacts DEF InstallOne, Goto
  <1> QED
    BY <1>1, <1>2, <1>4, <1>7, <1>8, <1>9 DEF InstallOne, lock

\* UninstallHandlers gives back one disposition that was saved, or is done.
LEMMA RestoreEffect ==
    ASSUME IInv, RestoreOne
    PROVE  LET n == Len(old[obj]) IN
           /\ Where(Owner) = "restore" /\ life[obj] = "dtor"
           /\ UNCHANGED <<life, obj, stack, stackNull, asked, proc>>
           /\ \A h \in Handlers \ {obj} : old'[h] = old[h]
           /\ \/ old[obj] = <<>> /\ Where(Owner)' = "erase" /\ UNCHANGED <<disp, old>>
              \/ /\ n \in Nat \ {0} /\ Where(Owner)' = "restore" /\ Len(old'[obj]) = n - 1
                 /\ \A k \in 1..(n - 1) : old'[obj][k] = old[obj][k + 1]
                 /\ old[obj][1] \in SignalSet \X {"DFL", "Handler"}
                 /\ disp' = [disp EXCEPT ![old[obj][1][1]] = old[obj][1][2]]
  <1> DEFINE P == SignalSet \X {"DFL", "Handler"}
  <1>0. OwnerStep
    BY DEF OwnerStep, Lifecycle
  <1>1. /\ Where(Owner) = "restore" /\ Where(Owner)' = pc'[Owner] /\ pc[Owner] = "restore"
    BY <1>0, OwnerMoves DEF RestoreOne
  <1>2. life[obj] = "dtor"
    BY <1>1 DEF IInv, OwnerInv, Destroying
  <1>3. old[obj] \in Seq(P) /\ obj \in Handlers /\ old \in [Handlers -> Seq(P)]
        /\ pc \in [Threads -> OwnerStates \cup InHandler]
    BY DEF IInv, TypeOK
  <1>4. UNCHANGED <<life, obj, stack, stackNull, asked, proc>>
    BY DEF RestoreOne, lock
  <1>5. CASE old[obj] = <<>>
    BY <1>1, <1>2, <1>3, <1>4, <1>5, SignalFacts DEF RestoreOne, Goto
  <1>6. CASE old[obj] # <<>>
    <2>1. /\ Len(old[obj]) \in Nat \ {0} /\ Head(old[obj]) = old[obj][1]
          /\ old[obj][1] \in P /\ Len(Tail(old[obj])) = Len(old[obj]) - 1
          /\ \A k \in 1..(Len(old[obj]) - 1) : Tail(old[obj])[k] = old[obj][k + 1]
      BY <1>3, <1>6, HeadTailProperties
    <2>2. old' = [old EXCEPT ![obj] = Tail(old[obj])] /\ UNCHANGED pc
          /\ disp' = [disp EXCEPT ![old[obj][1][1]] = old[obj][1][2]]
      BY <1>6, <2>1 DEF RestoreOne
    <2> QED
      BY <1>1, <1>2, <1>3, <1>4, <2>1, <2>2
  <1> QED
    BY <1>5, <1>6

\* A constructor begins with a new handler, a destructor with one that is alive.
LEMMA BeginEffect ==
    ASSUME IInv, NEW h \in Handlers, Construct(h) \/ Destruct(h)
    PROVE  /\ Where(Owner) = "run" /\ obj' = h
           /\ \A g \in Handlers \ {h} : life'[g] = life[g]
           /\ UNCHANGED <<disp, old, stack, stackNull, asked, proc>>
           /\ \/ life[h] = "none" /\ life'[h] = "ctor" /\ Where(Owner)' \in {"install", "push"}
              \/ /\ life[h] = "alive" /\ life'[h] = "dtor" /\ Where(Owner)' = "restore"
                 /\ Lifo => h = stack[Len(stack)]
  <1>0. OwnerStep
    BY DEF OwnerStep
  <1>1. Where(Owner) = pc[Owner] /\ Where(Owner)' = pc'[Owner]
    BY <1>0, OwnerMoves
  <1>2. /\ pc \in [Threads -> OwnerStates \cup InHandler] /\ Owner \in Threads
        /\ life \in [Handlers -> {"none", "ctor", "alive", "dtor", "dead"}]
    BY SignalFacts DEF IInv, TypeOK
  <1> QED
    BY <1>1, <1>2 DEF Construct, Destruct, Goto, lock

\* Locking the stack changes nothing but who holds it.
LEMMA LockEffect ==
    ASSUME IInv, LockStack
    PROVE  /\ UNCHANGED <<disp, old, stack, stackNull, asked, proc, life, obj>>
           /\ \/ Where(Owner) = "push" /\ Where(Owner)' = "pushing"
              \/ Where(Owner) = "erase" /\ Where(Owner)' = "erasing"
  <1>0. OwnerStep
    BY DEF OwnerStep, Lifecycle
  <1>1. Where(Owner) = pc[Owner] /\ Where(Owner)' = pc'[Owner]
    BY <1>0, OwnerMoves
  <1>2. pc \in [Threads -> OwnerStates \cup InHandler] /\ Owner \in Threads
    BY SignalFacts DEF IInv, TypeOK
  <1> QED
    BY <1>1, <1>2 DEF LockStack, Acquire, Goto

\* The end of the constructor: one more handler, at the end of the stack.
LEMMA PushEffect ==
    ASSUME IInv, Push
    PROVE  /\ UNCHANGED <<disp, old, asked, proc, obj>>
           /\ Where(Owner) = "pushing" /\ Where(Owner)' = "run"
           /\ life[obj] = "ctor" /\ life'[obj] = "alive" /\ ~stackNull'
           /\ \A g \in Handlers \ {obj} : life'[g] = life[g]
           /\ Len(stack) \in Nat /\ Len(stack') = Len(stack) + 1 /\ stack'[Len(stack) + 1] = obj
           /\ \A i \in 1..Len(stack) : stack'[i] = stack[i] /\ stack[i] # obj
  <1>0. OwnerStep
    BY DEF OwnerStep, Lifecycle
  <1>1. Where(Owner) = pc[Owner] /\ Where(Owner)' = pc'[Owner]
    BY <1>0, OwnerMoves
  <1>2. /\ pc \in [Threads -> OwnerStates \cup InHandler] /\ Owner \in Threads
        /\ life \in [Handlers -> {"none", "ctor", "alive", "dtor", "dead"}] /\ obj \in Handlers
        /\ stack \in Seq(Handlers)
    BY SignalFacts DEF IInv, TypeOK
  <1>3. life[obj] = "ctor"
    BY <1>1 DEF Push, IInv, OwnerInv, Constructing
  <1>4. stack' = Append(stack, obj)
    BY DEF Push
  <1>5. /\ Len(stack) \in Nat /\ Len(stack') = Len(stack) + 1 /\ stack'[Len(stack) + 1] = obj
        /\ \A i \in 1..Len(stack) : stack'[i] = stack[i]
    BY <1>2, <1>4, AppendProperties
  <1>6. \A i \in 1..Len(stack) : stack[i] # obj
    BY <1>3 DEF IInv, StackInv
  <1> QED
    BY <1>1, <1>2, <1>3, <1>5, <1>6 DEF Push, Goto

\* The end of the destructor: the handler leaves the stack, the others keep their order.
LEMMA EraseEffect ==
    ASSUME IInv, Erase
    PROVE  /\ UNCHANGED <<disp, old, asked, proc, obj, stackNull>>
           /\ Where(Owner) = "erasing" /\ Where(Owner)' = "run"
           /\ life[obj] = "dtor" /\ life'[obj] = "dead"
           /\ \A g \in Handlers \ {obj} : life'[g] = life[g]
           /\ Len(stack) \in Nat \ {0} /\ Len(stack') = Len(stack) - 1
           /\ \A i \in 1..Len(stack) : stack[i] # obj => \E j \in 1..Len(stack') : stack'[j] = stack[i]
           /\ stack[Len(stack)] = obj => \A j \in 1..Len(stack') : stack'[j] = stack[j]
  <1>0. OwnerStep
    BY DEF OwnerStep, Lifecycle
  <1>1. Where(Owner) = pc[Owner] /\ Where(Owner)' = pc'[Owner]
    BY <1>0, OwnerMoves
  <1>2. /\ pc \in [Threads -> OwnerStates \cup InHandler] /\ Owner \in Threads
        /\ life \in [Handlers -> {"none", "ctor", "alive", "dtor", "dead"}] /\ obj \in Handlers
        /\ stack \in Seq(Handlers)
    BY SignalFacts DEF IInv, TypeOK
  <1>3. life[obj] = "dtor"
    BY <1>1 DEF Erase, IInv, OwnerInv, Destroying
  <1>4. PICK i \in 1..Len(stack) :
           /\ stack[i] = obj
           /\ stack' = [j \in 1..(Len(stack) - 1) |-> IF j < i THEN stack[j] ELSE stack[j + 1]]
    BY DEF Erase
  <1>5. Len(stack) \in Nat \ {0}
    BY <1>2, <1>4
  <1>6. \A j \in 1..(Len(stack) - 1) : (IF j < i THEN stack[j] ELSE stack[j + 1]) \in Handlers
    BY <1>2, <1>5
  <1>7. Len(stack') = Len(stack) - 1
    BY <1>4, <1>5, <1>6
  <1>8. \A k \in 1..Len(stack) : stack[k] # obj => \E j \in 1..Len(stack') : stack'[j] = stack[k]
    <2> SUFFICES ASSUME NEW k \in 1..Len(stack), stack[k] # obj
                 PROVE  \E j \in 1..Len(stack') : stack'[j] = stack[k]
      OBVIOUS
    <2>0. k # i /\ k \in Int /\ i \in Int
      BY <1>4
    <2>1. CASE k < i
      <3>1. k \in 1..(Len(stack) - 1) /\ stack'[k] = stack[k]
        BY <1>4, <1>5, <2>1
      <3> QED
        BY <1>7, <3>1
    <2>2. CASE k > i
      <3>1. k - 1 \in 1..(Len(stack) - 1) /\ stack'[k - 1] = stack[k]
        BY <1>4, <1>5, <2>2
      <3> QED
        BY <1>7, <3>1
    <2> QED
      BY <2>0, <2>1, <2>2
  <1>9. stack[Len(stack)] = obj => \A j \in 1..Len(stack') : stack'[j] = stack[j]
    <2> SUFFICES ASSUME stack[Len(stack)] = obj PROVE \A j \in 1..Len(stack') : stack'[j] = stack[j]
      OBVIOUS
    <2>1. i = Len(stack)
      BY <1>4, <1>5 DEF IInv, StackInv
    <2> QED
      BY <1>4, <1>5, <1>7, <2>1
  <1>10. life'[obj] = "dead" /\ \A g \in Handlers \ {obj} : life'[g] = life[g]
    BY <1>2 DEF Erase
  <1>11. /\ pc[Owner] = "erasing" /\ pc'[Owner] = "run"
         /\ UNCHANGED <<disp, old, asked, proc, obj, stackNull>>
    BY <1>2 DEF Erase, Goto
  <1> QED
    BY <1>1, <1>3, <1>5, <1>7, <1>8, <1>9, <1>10, <1>11

\* A signal changes dispositions to SIG_DFL alone, after a handler was asked.
LEMMA SignalEffect ==
    ASSUME IInv, AskedInv, proc = "alive", SignalStep
    PROVE  /\ AskedInv'
           /\ UNCHANGED <<life, obj, old, stack, stackNull>> /\ Where(Owner)' = Where(Owner)
           /\ \A s \in SignalSet : disp'[s] = "Handler" => disp[s] = "Handler"
           /\ asked' = {} => asked = {} /\ disp' = disp
  <1> USE DEF AskedInv, Goto
  <1>0. /\ pc \in [Threads -> OwnerStates \cup InHandler] /\ idx \in [Threads -> Nat]
        /\ disp \in [SignalSet -> {"DFL", "Handler"}] /\ ret \in [Threads -> OwnerStates]
        /\ sig \in [Threads -> SignalSet] /\ SigSegv \in SignalSet /\ Owner \in Threads
        /\ "alive" \notin SignalSet /\ "exit" \notin SignalSet
    BY SignalFacts, LinuxExceptionHandlerAssumption
    DEF IInv, TypeOK, LinuxExceptionHandlerAssumption
  <1>1. UNCHANGED <<life, obj, old, stack>> /\ Where(Owner)' = Where(Owner)
    BY <1>0, SignalsKeepWhere
  <1>2. PICK t \in Threads :
           SignalHandler(t) \/ \E s \in SignalSet : Fault(t, s) \/ SendSignal(t, s)
    BY DEF SignalStep
  <1>3. CASE Enter(t)
    BY <1>0, <1>1, <1>3 DEF Enter, Acquire, lock
  <1>4. CASE HandleSignal(t)
    BY <1>0, <1>1, <1>4 DEF HandleSignal, lock
  <1>5. CASE Unlock(t)
    BY <1>0, <1>1, <1>5 DEF Unlock
  <1>6. CASE Reissue(t)
    BY <1>0, <1>1, <1>6 DEF Reissue, lock
  <1>7. CASE Reset(t)
    BY <1>0, <1>1, <1>7 DEF Reset, lock
  <1>8. CASE Return(t)
    BY <1>0, <1>1, <1>8 DEF Return, Deliver, lock, OwnerStates
  <1>9. ASSUME NEW s \in SignalSet, Fault(t, s) \/ SendSignal(t, s)
        PROVE  /\ AskedInv' /\ stackNull' = stackNull /\ UNCHANGED <<disp, asked>>
    BY <1>0, <1>1, <1>9 DEF Fault, SendSignal, Deliver, lock
  <1> QED
    BY <1>1, <1>2, <1>3, <1>4, <1>5, <1>6, <1>7, <1>8, <1>9 DEF SignalHandler

\* Each signal is in kExceptionSignals once.
LEMMA SignalsDiffer ==
    /\ \A i, j \in 1..Len(Signals) : Signals[i] = Signals[j] => i = j
    /\ \A s \in SignalSet : \E k \in 1..Len(Signals) : s = Signals[k]
    /\ "alive" \notin SignalSet
  BY LinuxExceptionHandlerAssumption DEF LinuxExceptionHandlerAssumption, SignalSet

\* What the types say of the members of a handler and of the stack.
LEMMA OldFacts ==
    ASSUME IInv
    PROVE  /\ obj \in Handlers
           /\ \A h \in Handlers : Len(old[h]) \in Nat /\ (old[h] = <<>> <=> Len(old[h]) = 0)
           /\ Len(stack) \in Nat /\ \A i \in 1..Len(stack) : stack[i] \in Handlers
           /\ \A h \in Handlers : life[h] \in {"none", "ctor", "alive", "dtor", "dead"}
           /\ \A h \in Handlers, k \in Nat :
                 k \in 1..Len(old[h]) => old[h][k] \in SignalSet \X {"DFL", "Handler"}
  <1>1. /\ obj \in Handlers /\ old \in [Handlers -> Seq(SignalSet \X {"DFL", "Handler"})]
        /\ stack \in Seq(Handlers) /\ life \in [Handlers -> {"none", "ctor", "alive", "dtor", "dead"}]
    BY DEF IInv, TypeOK
  <1>2. \A h \in Handlers : old[h] \in Seq(SignalSet \X {"DFL", "Handler"})
    BY <1>1
  <1>3. \A h \in Handlers : Len(old[h]) \in Nat /\ (old[h] = <<>> <=> Len(old[h]) = 0)
    BY <1>2, EmptySeq
  <1> QED
    BY <1>1, <1>2, <1>3

\* A handler saves every signal, and gives back each, in order.
LEMMA StepSavedInv == IInv /\ SavedInv /\ PlaceInv /\ OwnerStep => SavedInv'
  <1> SUFFICES ASSUME IInv, SavedInv, PlaceInv, OwnerStep PROVE SavedInv'
    OBVIOUS
  <1>0. /\ obj \in Handlers
        /\ \A h \in Handlers : Len(old[h]) \in Nat /\ (old[h] = <<>> <=> Len(old[h]) = 0)
    BY OldFacts
  <1> USE DEF SavedInv, PlaceInv, Installed, Constructing, Destroying
  <1>1. ASSUME NEW h \in Handlers, Construct(h) \/ Destruct(h) PROVE SavedInv'
    <2>1. life[h] = "none" => Len(old[h]) = 0
      BY <1>0 DEF IInv, OwnerInv
    <2>2. /\ Where(Owner) = "run" /\ obj' = h /\ old' = old
          /\ \A g \in Handlers \ {h} : life'[g] = life[g]
          /\ \/ life[h] = "none" /\ life'[h] = "ctor" /\ Where(Owner)' \in {"install", "push"}
             \/ life[h] = "alive" /\ life'[h] = "dtor" /\ Where(Owner)' = "restore"
      BY <1>1, BeginEffect
    <2> QED
      BY <1>0, <2>1, <2>2
  <1>2. CASE InstallOne
    <2> DEFINE n == Len(old[obj])
    <2>1. /\ n \in Nat /\ n + 1 \in 1..Len(Signals) /\ life[obj] = "ctor" /\ UNCHANGED <<life, obj>>
          /\ Where(Owner)' = IF n + 1 = Len(Signals) THEN "push" ELSE "install"
          /\ \A h \in Handlers \ {obj} : old'[h] = old[h]
          /\ Len(old'[obj]) = n + 1
          /\ \A k \in 1..n : old'[obj][k] = old[obj][k]
          /\ old'[obj][n + 1] = <<Signals[n + 1], disp[Signals[n + 1]]>>
      BY <1>2, InstallEffect
    <2>2. \A k \in 1..(n + 1) : k \in 1..n \/ k = n + 1
      BY <2>1
    <2>3. \A k \in 1..Len(old'[obj]) : old'[obj][k][1] = Signals[k]
      <3>0. obj \in Handlers /\ life[obj] = "ctor"
        BY <1>0, <2>1
      <3>1. \A k \in 1..n : old[obj][k][1] = Signals[k]
        BY <3>0
      <3>2. \A k \in 1..n : old'[obj][k][1] = Signals[k]
        BY <2>1, <3>1
      <3>3. old'[obj][n + 1][1] = Signals[n + 1]
        BY <2>1
      <3> QED
        BY <2>1, <2>2, <3>2, <3>3
    <2>4. \A h \in Handlers : life'[h] \in {"ctor", "alive"} =>
             \A k \in 1..Len(old'[h]) : old'[h][k][1] = Signals[k]
      BY <2>1, <2>3
    <2>5. \A h \in Handlers : life'[h] = "alive" => Len(old'[h]) \in {0, Len(Signals)}
      BY <2>1
    <2>6. Where(Owner)' \in {"push", "pushing"} => Len(old'[obj]) \in {0, Len(Signals)}
      BY <2>1
    <2>7. \A h \in Handlers : life'[h] = "dead" => Len(old'[h]) = 0 /\ ~Installed(h)'
      BY <2>1
    <2> QED
      BY <2>1, <2>4, <2>5, <2>6, <2>7
  <1>3. CASE LockStack
    BY <1>3, LockEffect
  <1>4. CASE Push
    BY <1>0, <1>4, PushEffect
  <1>5. CASE RestoreOne
    <2>1. /\ Where(Owner) = "restore" /\ life[obj] = "dtor" /\ UNCHANGED <<life, obj>>
          /\ \A h \in Handlers \ {obj} : old'[h] = old[h]
          /\ \/ old[obj] = <<>> /\ Where(Owner)' = "erase" /\ UNCHANGED old
             \/ Where(Owner)' = "restore"
      BY <1>5, RestoreEffect
    <2> QED
      BY <1>0, <2>1
  <1>6. CASE Erase
    <2>1. /\ Where(Owner) = "erasing" /\ Where(Owner)' = "run" /\ life'[obj] = "dead"
          /\ UNCHANGED <<obj, old>> /\ \A g \in Handlers \ {obj} : life'[g] = life[g]
      BY <1>6, EraseEffect
    <2> QED
      BY <1>0, <2>1
  <1> QED
    BY <1>1, <1>2, <1>3, <1>4, <1>5, <1>6 DEF OwnerStep, Lifecycle

\* The handlers on the stack are those that are alive.
LEMMA StepPlaceInv == IInv /\ PlaceInv /\ OwnerStep => PlaceInv'
  <1> SUFFICES ASSUME IInv, PlaceInv, OwnerStep PROVE PlaceInv'
    OBVIOUS
  <1> USE OldFacts DEF PlaceInv, Constructing, Destroying
  <1>1. ASSUME NEW h \in Handlers, Construct(h) \/ Destruct(h) PROVE PlaceInv'
    BY <1>1, BeginEffect
  <1>2. CASE InstallOne
    BY <1>2, InstallEffect
  <1>3. CASE LockStack
    BY <1>3, LockEffect
  <1>4. CASE Push
    BY <1>4, PushEffect
  <1>5. CASE RestoreOne
    BY <1>5, RestoreEffect
  <1>6. CASE Erase
    BY <1>6, EraseEffect
  <1> QED
    BY <1>1, <1>2, <1>3, <1>4, <1>5, <1>6 DEF OwnerStep, Lifecycle

\* The handlers that are alive and installed are those below the one in hand.
LEMMA AliveBelow ==
    ASSUME IInv, PlaceInv, Lifo
    PROVE  AnyAlive <=> Below(IF life[obj] = "dtor" THEN Len(stack) ELSE Len(stack) + 1)
  <1> DEFINE T == IF life[obj] = "dtor" THEN Len(stack) ELSE Len(stack) + 1
  <1>0. /\ obj \in Handlers /\ Len(stack) \in Nat
        /\ \A i \in 1..Len(stack) : stack[i] \in Handlers /\ life[stack[i]] \in {"alive", "dtor"}
        /\ \A i, j \in 1..Len(stack) : stack[i] = stack[j] => i = j
    BY OldFacts DEF IInv, StackInv
  <1>1. life[obj] = "dtor" => Len(stack) \in 1..Len(stack) /\ stack[Len(stack)] = obj
    <2> SUFFICES ASSUME life[obj] = "dtor" PROVE Len(stack) \in 1..Len(stack) /\ stack[Len(stack)] = obj
      OBVIOUS
    <2>1. PICK i \in 1..Len(stack) : stack[i] = obj
      BY <1>0 DEF PlaceInv
    <2> QED
      BY <1>0, <2>1 DEF PlaceInv
  <1>2. ASSUME AnyAlive PROVE Below(T)
    <2>1. PICK h \in Handlers : life[h] = "alive" /\ Installed(h)
      BY <1>2 DEF AnyAlive
    <2>2. PICK i \in 1..Len(stack) : stack[i] = h
      BY <2>1 DEF PlaceInv
    <2>3. i \in 1..(T - 1)
      BY <1>0, <1>1, <2>1, <2>2
    <2> QED
      BY <2>1, <2>2, <2>3 DEF Below
  <1>3. ASSUME Below(T) PROVE AnyAlive
    <2>1. PICK j \in 1..(T - 1) : Installed(stack[j])
      BY <1>3 DEF Below
    <2>2. j \in 1..Len(stack) /\ (life[obj] = "dtor" => j # Len(stack))
      BY <1>0, <2>1
    <2>3. stack[j] \in Handlers /\ life[stack[j]] = "alive"
      BY <1>0, <1>1, <2>2 DEF PlaceInv
    <2> QED
      BY <2>1, <2>3 DEF AnyAlive
  <1> QED
    BY <1>2, <1>3

\* The invariants of the dispositions, for one step of the owner.
KeepsDisp == HandlerInv' /\ (UnaskedInv => UnaskedInv')

\* The beginning of a constructor or destructor leaves all dispositions alone.
LEMMA BeginKeepsDisp ==
    ASSUME IInv, SavedInv, PlaceInv, Lifo, HandlerInv,
           NEW h \in Handlers, Construct(h) \/ Destruct(h)
    PROVE  KeepsDisp
  <1>0. /\ obj \in Handlers
        /\ \A g \in Handlers : Len(old[g]) \in Nat /\ (old[g] = <<>> <=> Len(old[g]) = 0)
        /\ \A g \in Handlers : life[g] \in {"none", "ctor", "alive", "dtor", "dead"}
    BY OldFacts
  <1>1. /\ Where(Owner) = "run" /\ obj' = h
        /\ \A g \in Handlers \ {h} : life'[g] = life[g]
        /\ UNCHANGED <<disp, old, stack>>
        /\ \/ life[h] = "none" /\ life'[h] = "ctor"
           \/ life[h] = "alive" /\ life'[h] = "dtor"
    BY BeginEffect
  <1>2. Installed(obj) => life[obj] = "alive"
    BY <1>0, <1>1 DEF Installed, SavedInv, PlaceInv, IInv, OwnerInv, Constructing, Destroying
  <1>3. life[h] = "none" => Len(old[h]) = 0
    BY <1>0 DEF IInv, OwnerInv
  <1>4. \A i : Below(i)' = Below(i)
    BY <1>1 DEF Below, Installed
  <1>5. AnyAlive' => AnyAlive
    BY <1>1 DEF AnyAlive, Installed
  <1>6. ASSUME NEW s \in SignalSet, disp[s] = "Handler"
        PROVE  AnyAlive' \/ \E k \in 1..Len(old[h]) : old[h][k][1] = s
    <2>1. AnyAlive
      BY <1>0, <1>2, <1>6 DEF HandlerInv, AnyAlive, Installed
    <2>2. PICK g \in Handlers : life[g] = "alive" /\ Installed(g)
      BY <2>1 DEF AnyAlive
    <2>3. CASE g # h
      BY <1>1, <2>2, <2>3 DEF AnyAlive, Installed
    <2>4. CASE g = h
      <3>1. Len(old[h]) = Len(Signals) /\ \A k \in 1..Len(old[h]) : old[h][k][1] = Signals[k]
        BY <1>0, <2>2, <2>4 DEF SavedInv, Installed
      <3> QED
        BY <3>1, SignalsDiffer
    <2> QED
      BY <2>3, <2>4
  <1>7. HandlerInv'
    BY <1>1, <1>3, <1>4, <1>6 DEF HandlerInv
  <1>8. UnaskedInv => UnaskedInv'
    BY <1>1, <1>3, <1>4, <1>5 DEF UnaskedInv
  <1> QED
    BY <1>7, <1>8 DEF KeepsDisp

\* One sigaction of InstallHandlers saves what was there and sets SignalHandler.
LEMMA InstallKeepsDisp ==
    ASSUME IInv, SavedInv, PlaceInv, Lifo, HandlerInv, InstallOne
    PROVE  KeepsDisp
  <1> DEFINE n == Len(old[obj])
             s0 == Signals[n + 1]
  <1>0. /\ obj \in Handlers /\ Len(stack) \in Nat
        /\ \A i \in 1..Len(stack) : stack[i] \in Handlers /\ stack[i] # obj
        /\ disp \in [SignalSet -> {"DFL", "Handler"}]
    BY OldFacts, InstallEffect DEF IInv, TypeOK, StackInv
  <1>1. /\ n \in Nat /\ n + 1 \in 1..Len(Signals) /\ s0 \in SignalSet /\ life[obj] = "ctor"
        /\ \A h \in Handlers \ {obj} : old'[h] = old[h]
        /\ Len(old'[obj]) = n + 1
        /\ \A k \in 1..n : old'[obj][k] = old[obj][k]
        /\ old'[obj][n + 1] = <<s0, disp[s0]>>
        /\ disp' = [disp EXCEPT ![s0] = "Handler"]
        /\ UNCHANGED <<life, obj, stack>>
    BY InstallEffect
  <1>2. AnyAlive' <=> AnyAlive
    BY <1>0, <1>1 DEF AnyAlive, Installed
  <1>9. /\ stack' = stack /\ Len(stack) \in Nat
        /\ \A j \in 1..Len(stack) : old'[stack[j]] = old[stack[j]]
    BY <1>0, <1>1
  <1>3. \A i \in 1..(Len(stack) + 1) : Below(i)' <=> Below(i)
    <2>1. ASSUME NEW i \in 1..(Len(stack) + 1), NEW j \in 1..(i - 1)
          PROVE  j \in 1..Len(stack)
      BY <1>9
    <2> QED
      BY <1>9, <2>1 DEF Below, Installed
  <1>4. AnyAlive <=> Below(Len(stack) + 1)
    BY <1>1, AliveBelow
  <1>5. \A k \in 1..(n + 1) : k \in 1..n \/ k = n + 1
    BY <1>1
  <1>6. \A k \in 1..n : old[obj][k][1] # s0
    BY <1>0, <1>1, SignalsDiffer DEF SavedInv
  <1>7. HandlerInv'
    <2>1. ASSUME NEW s \in SignalSet, disp'[s] = "Handler"
          PROVE  AnyAlive' \/ \E k \in 1..Len(old'[obj]) : old'[obj][k][1] = s
      <3>1. CASE s = s0
        BY <1>1, <3>1
      <3>2. CASE s # s0
        <4>1. AnyAlive \/ \E k \in 1..n : old[obj][k][1] = s
          BY <1>0, <1>1, <2>1, <3>2 DEF HandlerInv
        <4> QED
          BY <1>1, <1>2, <4>1
      <3> QED
        BY <3>1, <3>2
    <2>2. \A i \in 1..Len(stack) : \A k \in 1..Len(old'[stack[i]]) :
             old'[stack[i]][k][2] = "Handler" => Below(i)'
      BY <1>0, <1>1, <1>3 DEF HandlerInv
    <2>3. disp[s0] = "Handler" => AnyAlive
      BY <1>1, <1>6 DEF HandlerInv
    <2>4. ASSUME NEW k \in 1..Len(old'[obj]), old'[obj][k][2] = "Handler"
          PROVE  Below(Len(stack) + 1)
      <3>1. CASE k \in 1..n
        BY <1>1, <2>4, <3>1 DEF HandlerInv
      <3>2. CASE k = n + 1
        BY <1>1, <1>4, <2>3, <2>4, <3>2
      <3> QED
        BY <1>1, <1>5, <3>1, <3>2
    <2> QED
      BY <1>0, <1>1, <1>3, <2>1, <2>2, <2>4 DEF HandlerInv
  <1>8. ASSUME UnaskedInv PROVE UnaskedInv'
    <2>1. AnyAlive' => \A s \in SignalSet : disp'[s] = "Handler"
      BY <1>0, <1>1, <1>2, <1>8 DEF UnaskedInv
    <2>2. \A k \in 1..Len(old'[obj]) : disp'[Signals[k]] = "Handler"
      BY <1>0, <1>1, <1>5, <1>8, SignalFacts DEF UnaskedInv
    <2>3. \A i \in 1..Len(stack) : Below(i)' =>
             \A k \in 1..Len(old'[stack[i]]) : old'[stack[i]][k][2] = "Handler"
      BY <1>0, <1>1, <1>3, <1>8 DEF UnaskedInv
    <2>4. Below(Len(stack) + 1) => \A k \in 1..Len(old'[obj]) : old'[obj][k][2] = "Handler"
      <3>1. life[obj] = "ctor"
        BY <1>1
      <3>2. AnyAlive => \A k \in 1..n : old[obj][k][2] = "Handler"
        BY <1>4, <1>8, <3>1 DEF UnaskedInv
      <3>3. AnyAlive => \A k \in 1..n : old'[obj][k][2] = "Handler"
        BY <1>1, <3>2
      <3>4. AnyAlive => disp[s0] = "Handler"
        BY <1>1, <1>8 DEF UnaskedInv
      <3>5. AnyAlive => old'[obj][n + 1][2] = "Handler"
        BY <1>1, <3>4
      <3>6. \A k \in 1..Len(old'[obj]) : k \in 1..n \/ k = n + 1
        BY <1>1, <1>5
      <3> QED
        BY <1>4, <3>3, <3>5, <3>6
    <2>5. Below(Len(stack) + 1)' <=> Below(Len(stack) + 1)
      BY <1>3, <1>9
    <2> QED
      BY <1>1, <2>1, <2>2, <2>3, <2>4, <2>5 DEF UnaskedInv
  <1> QED
    BY <1>7, <1>8 DEF KeepsDisp

\* A handler that gets onto the stack has installed its signals.
LEMMA PushKeepsDisp ==
    ASSUME IInv, SavedInv, PlaceInv, Lifo, HandlerInv, Push
    PROVE  KeepsDisp
  <1> DEFINE m == Len(stack)
  <1>0. /\ obj \in Handlers
        /\ \A g \in Handlers : Len(old[g]) \in Nat /\ (old[g] = <<>> <=> Len(old[g]) = 0)
    BY OldFacts
  <1>1. /\ UNCHANGED <<disp, old, obj>> /\ life[obj] = "ctor" /\ life'[obj] = "alive"
        /\ Where(Owner) = "pushing"
        /\ \A g \in Handlers \ {obj} : life'[g] = life[g]
        /\ m \in Nat /\ Len(stack') = m + 1 /\ stack'[m + 1] = obj
        /\ \A i \in 1..m : stack'[i] = stack[i]
    BY PushEffect
  <1>2. AnyAlive => AnyAlive'
    BY <1>1 DEF AnyAlive, Installed
  <1>3. \A i \in 1..(m + 1) : Below(i)' <=> Below(i)
    BY <1>1 DEF Below, Installed
  <1>4. \A i \in 1..Len(stack') : (i \in 1..m /\ stack'[i] = stack[i]) \/ (i = m + 1 /\ stack'[i] = obj)
    BY <1>1
  <1>5. HandlerInv'
    BY <1>1, <1>2, <1>3, <1>4 DEF HandlerInv
  <1>6. ASSUME UnaskedInv PROVE UnaskedInv'
    <2>1. ASSUME AnyAlive', NEW s \in SignalSet PROVE disp[s] = "Handler"
      <3>1. CASE AnyAlive
        BY <1>6, <3>1 DEF UnaskedInv
      <3>2. CASE ~AnyAlive
        <4>1. Installed(obj)
          BY <1>1, <2>1, <3>2 DEF AnyAlive, Installed
        <4>2. Len(old[obj]) = Len(Signals)
          BY <1>0, <1>1, <4>1 DEF SavedInv, Installed
        <4> QED
          BY <1>1, <1>6, <4>2, SignalsDiffer DEF UnaskedInv
      <3> QED
        BY <3>1, <3>2
    <2> QED
      BY <1>1, <1>3, <1>4, <1>6, <2>1 DEF UnaskedInv
  <1> QED
    BY <1>5, <1>6 DEF KeepsDisp

\* One sigaction of UninstallHandlers gives back what the handlers below had set.
LEMMA RestoreKeepsDisp ==
    ASSUME IInv, SavedInv, PlaceInv, Lifo, HandlerInv, RestoreOne
    PROVE  KeepsDisp
  <1> DEFINE n == Len(old[obj])
             m == Len(stack)
             s0 == old[obj][1][1]
  <1>0. /\ obj \in Handlers /\ m \in Nat
        /\ \A i \in 1..m : stack[i] \in Handlers
        /\ \A i, j \in 1..m : stack[i] = stack[j] => i = j
        /\ disp \in [SignalSet -> {"DFL", "Handler"}]
    BY OldFacts DEF IInv, TypeOK, StackInv
  <1>1. /\ life[obj] = "dtor" /\ UNCHANGED <<life, obj, stack>>
        /\ \A h \in Handlers \ {obj} : old'[h] = old[h]
        /\ \/ UNCHANGED <<disp, old>>
           \/ /\ n \in Nat \ {0} /\ Len(old'[obj]) = n - 1
              /\ \A k \in 1..(n - 1) : old'[obj][k] = old[obj][k + 1]
              /\ old[obj][1] \in SignalSet \X {"DFL", "Handler"}
              /\ disp' = [disp EXCEPT ![old[obj][1][1]] = old[obj][1][2]]
    BY RestoreEffect
  <1>2. m \in 1..m /\ stack[m] = obj
    BY <1>0, <1>1 DEF PlaceInv
  <1>3. AnyAlive' <=> AnyAlive
    BY <1>0, <1>1 DEF AnyAlive, Installed
  <1>4. \A j \in 1..m : j # m => stack[j] \in Handlers \ {obj}
    BY <1>0, <1>2
  <1>5. \A i \in 1..m : Below(i)' <=> Below(i)
    BY <1>0, <1>1, <1>4 DEF Below, Installed
  <1>6. AnyAlive <=> Below(m)
    BY <1>1, AliveBelow
  <1>7. CASE UNCHANGED <<disp, old>>
    BY <1>1, <1>7 DEF HandlerInv, UnaskedInv, KeepsDisp, AnyAlive, Below, Installed
  <1>8. CASE /\ n \in Nat \ {0} /\ Len(old'[obj]) = n - 1
             /\ \A k \in 1..(n - 1) : old'[obj][k] = old[obj][k + 1]
             /\ old[obj][1] \in SignalSet \X {"DFL", "Handler"}
             /\ disp' = [disp EXCEPT ![old[obj][1][1]] = old[obj][1][2]]
    <2>1. 1 \in 1..n /\ \A k \in 1..n : k = 1 \/ k - 1 \in 1..(n - 1)
      BY <1>8
    <2>2. \A k \in 1..(n - 1) : k + 1 \in 1..n
      BY <1>8
    <2>3. s0 \in SignalSet /\ disp'[s0] = old[obj][1][2]
          /\ \A s \in SignalSet : s # s0 => disp'[s] = disp[s]
      BY <1>0, <1>8
    <2>4. HandlerInv'
      <3>1. ASSUME NEW s \in SignalSet, disp'[s] = "Handler"
            PROVE  AnyAlive' \/ \E k \in 1..Len(old'[obj]) : old'[obj][k][1] = s
        <4>1. CASE s = s0
          BY <1>2, <1>3, <1>6, <2>1, <2>3, <3>1, <4>1 DEF HandlerInv
        <4>2. CASE s # s0
          <5>1. AnyAlive \/ \E k \in 1..n : old[obj][k][1] = s
            BY <2>3, <3>1, <4>2 DEF HandlerInv
          <5>2. ASSUME NEW k \in 1..n, old[obj][k][1] = s
                PROVE  \E j \in 1..Len(old'[obj]) : old'[obj][j][1] = s
            <6>1. k - 1 \in 1..(n - 1) /\ (k - 1) + 1 = k
              BY <2>1, <4>2, <5>2
            <6>2. old'[obj][k - 1] = old[obj][k]
              BY <1>8, <6>1
            <6> QED
              BY <1>8, <5>2, <6>1, <6>2
          <5> QED
            BY <1>3, <5>1, <5>2
        <4> QED
          BY <4>1, <4>2
      <3>2. ASSUME NEW i \in 1..m, NEW k \in 1..Len(old'[stack[i]]),
                   old'[stack[i]][k][2] = "Handler"
            PROVE  Below(i)'
        <4>1. CASE i = m
          <5>1. k + 1 \in 1..n /\ old[stack[m]][k + 1][2] = "Handler"
            BY <1>2, <1>8, <2>2, <3>2, <4>1
          <5>2. Below(m)
            BY <1>2, <5>1 DEF HandlerInv
          <5> QED
            BY <1>2, <1>5, <4>1, <5>2
        <4>2. CASE i # m
          BY <1>1, <1>4, <1>5, <3>2, <4>2 DEF HandlerInv
        <4> QED
          BY <4>1, <4>2
      <3> QED
        BY <1>1, <3>1, <3>2 DEF HandlerInv
    <2>5. ASSUME UnaskedInv PROVE UnaskedInv'
      <3>1. AnyAlive' => \A s \in SignalSet : disp'[s] = "Handler"
        BY <1>2, <1>3, <1>6, <2>1, <2>3, <2>5 DEF UnaskedInv
      <3>2. ASSUME NEW i \in 1..m, Below(i)', NEW k \in 1..Len(old'[stack[i]])
            PROVE  old'[stack[i]][k][2] = "Handler"
        <4>1. CASE i = m
          <5>1. k + 1 \in 1..n /\ old'[stack[m]][k] = old[stack[m]][k + 1]
            BY <1>2, <1>8, <2>2, <3>2, <4>1
          <5>2. Below(m)
            BY <1>2, <1>5, <3>2, <4>1
          <5>3. old[stack[m]][k + 1][2] = "Handler"
            BY <1>2, <2>5, <5>1, <5>2 DEF UnaskedInv
          <5> QED
            BY <4>1, <5>1, <5>3
        <4>2. CASE i # m
          BY <1>1, <1>4, <1>5, <2>5, <3>2, <4>2 DEF UnaskedInv
        <4> QED
          BY <4>1, <4>2
      <3> QED
        BY <1>1, <3>1, <3>2 DEF UnaskedInv
    <2> QED
      BY <2>4, <2>5 DEF KeepsDisp
  <1> QED
    BY <1>1, <1>7, <1>8

\* A handler that leaves the stack has none of its dispositions left.
LEMMA EraseKeepsDisp ==
    ASSUME IInv, SavedInv, PlaceInv, Lifo, HandlerInv, Erase
    PROVE  KeepsDisp
  <1> DEFINE m == Len(stack)
  <1>0. obj \in Handlers /\ Len(old[obj]) \in Nat /\ (old[obj] = <<>> <=> Len(old[obj]) = 0)
    BY OldFacts
  <1>1. /\ UNCHANGED <<disp, old, obj>> /\ Where(Owner) = "erasing"
        /\ life[obj] = "dtor" /\ life'[obj] = "dead"
        /\ \A g \in Handlers \ {obj} : life'[g] = life[g]
        /\ m \in Nat \ {0} /\ Len(stack') = m - 1
        /\ stack[m] = obj => \A j \in 1..Len(stack') : stack'[j] = stack[j]
    BY EraseEffect
  <1>2. \A j \in 1..(m - 1) : j \in 1..m /\ stack'[j] = stack[j]
    BY <1>1 DEF PlaceInv
  <1>3. ~Installed(obj)
    BY <1>1 DEF SavedInv
  <1>4. AnyAlive' <=> AnyAlive
    BY <1>0, <1>1 DEF AnyAlive, Installed
  <1>5. \A i \in 1..(m - 1) : Below(i)' <=> Below(i)
    <2> SUFFICES ASSUME NEW i \in 1..(m - 1) PROVE Below(i)' <=> Below(i)
      OBVIOUS
    <2>1. \A j \in 1..(i - 1) : j \in 1..(m - 1)
      BY <1>1
    <2> QED
      BY <1>1, <1>2, <2>1 DEF Below, Installed
  <1>6. HandlerInv'
    BY <1>0, <1>1, <1>2, <1>3, <1>4, <1>5 DEF HandlerInv, Installed
  <1>7. UnaskedInv => UnaskedInv'
    BY <1>0, <1>1, <1>2, <1>4, <1>5 DEF UnaskedInv
  <1> QED
    BY <1>6, <1>7 DEF KeepsDisp

\* At first all dispositions are the program's.
LEMMA InitDispInv == Init => DispInv
  <1> SUFFICES ASSUME Init PROVE DispInv
    OBVIOUS
  <1>1. \A h \in Handlers : old[h] = <<>> /\ Len(old[h]) = 0 /\ life[h] = "none"
    BY DEF Init
  <1>2. stack = <<>> /\ Len(stack) = 0 /\ obj \in Handlers
    BY DEF Init
  <1>3. Where(Owner) = "run"
    BY SignalFacts DEF Init, Where
  <1>4. SavedInv /\ PlaceInv
    BY <1>1, <1>2, <1>3 DEF SavedInv, PlaceInv, Installed
  <1>5. AskedInv
    BY SignalsDiffer DEF Init, AskedInv
  <1>6. \A s \in SignalSet : disp[s] # "Handler"
    BY DEF Init
  <1>7. HandlerInv
    BY <1>1, <1>2, <1>6 DEF HandlerInv
  <1>8. UnaskedInv
    BY <1>1, <1>2 DEF UnaskedInv, AnyAlive
  <1> QED
    BY <1>4, <1>5, <1>7, <1>8 DEF DispInv

\* Every step keeps who has saved what.
LEMMA StepDispInv == IInv /\ DispInv /\ [Next]_vars => DispInv'
  <1> SUFFICES ASSUME IInv, DispInv, [Next]_vars PROVE DispInv'
    OBVIOUS
  <1> USE DEF DispInv
  <1>1. CASE UNCHANGED vars
    BY <1>1 DEF vars, lock, frame, Where, SavedInv, PlaceInv, AskedInv, HandlerInv, UnaskedInv,
       Installed, Below, AnyAlive
  <1>2. CASE Next /\ SignalStep
    <2>1. /\ AskedInv'
          /\ UNCHANGED <<life, obj, old, stack, stackNull>> /\ Where(Owner)' = Where(Owner)
          /\ \A s \in SignalSet : disp'[s] = "Handler" => disp[s] = "Handler"
          /\ asked' = {} => asked = {} /\ disp' = disp
      BY <1>2, SignalEffect DEF Next
    <2>2. SavedInv' /\ PlaceInv'
      BY <2>1 DEF SavedInv, PlaceInv, Installed
    <2>3. Lifo => HandlerInv'
      BY <2>1 DEF HandlerInv, AnyAlive, Below, Installed
    <2>4. Lifo /\ asked' = {} => UnaskedInv'
      BY <2>1 DEF UnaskedInv, AnyAlive, Below, Installed
    <2> QED
      BY <2>1, <2>2, <2>3, <2>4
  <1>3. CASE Next /\ OwnerStep
    <2>1. SavedInv' /\ PlaceInv'
      BY <1>3, StepSavedInv, StepPlaceInv
    <2>2. asked' = asked /\ proc' = proc
      BY <1>3, BeginEffect, InstallEffect, LockEffect, PushEffect, RestoreEffect, EraseEffect
      DEF OwnerStep, Lifecycle
    <2>3. AskedInv'
      <3>1. \A t \in Threads : pc'[t] \in {"unlock", "reissue", "reset"} => pc[t] = pc'[t]
        BY <1>3, OwnerMoves DEF OwnerStates
      <3>2. proc' \notin SignalSet
        BY <1>3, <2>2, SignalsDiffer DEF Next
      <3> QED
        BY <2>2, <3>1, <3>2 DEF AskedInv
    <2>4. ASSUME Lifo PROVE KeepsDisp
      <3>1. ASSUME NEW h \in Handlers, Construct(h) \/ Destruct(h) PROVE KeepsDisp
        BY <2>4, <3>1, BeginKeepsDisp
      <3>2. CASE InstallOne
        BY <2>4, <3>2, InstallKeepsDisp
      <3>3. CASE LockStack
        BY <2>4, <3>3, LockEffect
        DEF KeepsDisp, HandlerInv, UnaskedInv, AnyAlive, Below, Installed
      <3>4. CASE Push
        BY <2>4, <3>4, PushKeepsDisp
      <3>5. CASE RestoreOne
        BY <2>4, <3>5, RestoreKeepsDisp
      <3>6. CASE Erase
        BY <2>4, <3>6, EraseKeepsDisp
      <3> QED
        BY <1>3, <3>1, <3>2, <3>3, <3>4, <3>5, <3>6 DEF OwnerStep, Lifecycle
    <2> QED
      BY <2>1, <2>2, <2>3, <2>4 DEF KeepsDisp
  <1> QED
    BY <1>1, <1>2, <1>3, NextSplits

\* Who has saved what is an invariant.
LEMMA DispInvariance == Spec => []DispInv
  BY Invariance, InitDispInv, StepDispInv, PTL DEF Spec

\* If handlers are destroyed in the reverse order of construction, the
\* dispositions of before are back when the last one is destroyed, whatever
\* crashes and signals came meanwhile.
THEOREM DefaultsAreBack == Spec => []DispositionsRestored
  <1>1. IInv /\ DispInv => DispositionsRestored
    <2> SUFFICES ASSUME IInv, DispInv, Lifo, \A h \in Handlers : life[h] \in {"none", "dead"},
                        NEW s \in SignalSet
                 PROVE  disp[s] = "DFL"
      BY DEF DispositionsRestored
    <2>1. obj \in Handlers /\ \A h \in Handlers : ~Installed(h)
      BY OldFacts DEF DispInv, SavedInv, Installed, IInv, OwnerInv
    <2>2. Len(old[obj]) = 0 /\ ~AnyAlive
      BY <2>1, OldFacts DEF Installed, AnyAlive
    <2>3. disp[s] # "Handler"
      BY <2>2 DEF DispInv, HandlerInv
    <2> QED
      BY <2>3 DEF IInv, TypeOK
  <1> QED
    BY <1>1, Invariance, DispInvariance, PTL

\* If handlers are destroyed in the reverse order of construction, no fatal
\* signal kills the process unasked while a handler with its signals installed
\* is alive, even if another one is being constructed or destroyed.
THEOREM CrashIsAsked == ASSUME Lifo PROVE Spec => []InstalledHandlerAsked
  <1>1. IInv /\ DispInv => InstalledHandlerAsked
    <2> SUFFICES ASSUME IInv, DispInv, proc \in SignalSet, asked = {},
                        NEW h \in Handlers, life[h] = "alive", old[h] # <<>>
                 PROVE  FALSE
      BY DEF InstalledHandlerAsked
    <2>1. ~stackNull
      <3>1. \E i \in 1..Len(stack) : stack[i] = h
        BY DEF DispInv, PlaceInv
      <3> QED
        BY <3>1 DEF DispInv, PlaceInv
    <2>2. \A s \in SignalSet : disp[s] = "Handler"
      BY DEF DispInv, UnaskedInv, AnyAlive, Installed
    <2> QED
      BY <2>1, <2>2 DEF DispInv, AskedInv
  <1> QED
    BY <1>1, Invariance, DispInvariance, PTL
===============================================================================
