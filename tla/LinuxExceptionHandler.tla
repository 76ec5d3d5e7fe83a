----------------------- MODULE LinuxExceptionHandler -----------------------
(***************************************************************************)
(* The Linux ExceptionHandler: handler objects that are constructed and      *)
(* destroyed by one thread of a process, the signal dispositions they        *)
(* install and restore, the global handler_stack_ with its mutex, and        *)
(* SignalHandler, which runs on whatever thread receives a fatal signal.     *)
(* How a handler writes its dump is in LinuxGenerateDump; here HandleSignal  *)
(* is one step with any outcome its filter, callbacks and dump allow.        *)
(*                                                                           *)
(* A signal is either a hard fault (it comes again when the handler returns) *)
(* or was sent with kill(); it may be sent while a thread is anywhere but in *)
(* SignalHandler, which masks all of kExceptionSignals.                      *)
(***************************************************************************)
EXTENDS Integers, Sequences, FiniteSets

CONSTANTS
    Threads,     \* threads of the process
    Owner,       \* the one that constructs and destroys the handlers
    Handlers,    \* ExceptionHandler objects, each constructed at most once
    Installing,  \* those constructed with install_handler = true
    Signals,     \* kExceptionSignals, in order
    SigSegv,     \* the one of them a bad memory access raises
    Lifo,        \* are handlers destroyed in the reverse order of construction?
    MaxFaults,   \* bound: threads that fault
    MaxSent      \* bound: signals sent with kill()

SignalSet == {Signals[i] : i \in 1..Len(Signals)}

ASSUME LinuxExceptionHandlerAssumption ==
    /\ Owner \in Threads /\ Installing \subseteq Handlers
    /\ Signals \in Seq(STRING) /\ SigSegv \in SignalSet
    /\ \A i, j \in 1..Len(Signals) : Signals[i] = Signals[j] => i = j
    /\ {"alive", "exit"} \cap SignalSet = {}
    /\ Lifo \in BOOLEAN /\ MaxFaults \in Nat /\ MaxSent \in Nat

VARIABLES
    disp,      \* per signal: "DFL", or "Handler" for SignalHandler
    stack,     \* *handler_stack_, bottom first
    stackNull, \* handler_stack_ == NULL
    mutex,     \* handler_stack_mutex_: the set of its owner, or {}
    old,       \* per handler: old_handlers_, pairs <<signal, disposition>>
    life,      \* per handler: "none", "ctor", "alive", "dtor", "dead"
    pc,        \* per thread
    obj,       \* the handler Owner is constructing or destroying
    sig, sync, \* per thread: the signal it handles; is it a hard fault?
    ret,       \* per thread: where SignalHandler returns to
    idx,       \* per thread: index of the loop over the stack
    pending,   \* threads with a signal of their own tgkill pending
    proc,      \* "alive", the signal that killed the process, or "exit"
    asked,     \* history: the handlers whose HandleSignal was called
    faults, sent

lock   == <<stack, stackNull, mutex>>
frame  == <<sig, sync, ret>>
bounds == <<faults, sent>>
vars == <<disp, lock, old, life, pc, obj, frame, idx, pending, proc, asked,
          bounds>>

InHandler == {"enter", "handling", "unlock", "reissue", "reset", "return"}

Init ==
    /\ disp = [s \in SignalSet |-> "DFL"]
    /\ stack = <<>> /\ stackNull = TRUE /\ mutex = {}
    /\ old = [h \in Handlers |-> <<>>]
    /\ life = [h \in Handlers |-> "none"]
    /\ pc = [t \in Threads |-> "run"]
    /\ obj \in Handlers
    /\ sig = [t \in Threads |-> SigSegv]
    /\ sync = [t \in Threads |-> FALSE]
    /\ ret = [t \in Threads |-> "run"]
    /\ idx = [t \in Threads |-> 0]
    /\ pending = {}
    /\ proc = "alive"
    /\ asked = {}
    /\ faults = 0 /\ sent = 0

Goto(t, l) == pc' = [pc EXCEPT ![t] = l]

-----------------------------------------------------------------------------
(* Init and InstallHandlers, on the owner's thread. *)

\* The constructor.  InstallHandlers gives up at once if sigaltstack fails, and
\* nobody looks at its result.
Construct(h) ==
    /\ pc[Owner] = "run" /\ life[h] = "none"
    /\ life' = [life EXCEPT ![h] = "ctor"]
    /\ obj' = h
    /\ \/ h \in Installing /\ Goto(Owner, "install")
       \/ Goto(Owner, "push")
    /\ UNCHANGED <<disp, lock, old, frame, idx, pending, proc, asked, bounds>>

\* One sigaction of the loop in InstallHandlers.
InstallOne ==
    /\ pc[Owner] = "install"
    /\ LET s == Signals[Len(old[obj]) + 1] IN
         /\ old' = [old EXCEPT ![obj] = Append(@, <<s, disp[s]>>)]
         /\ disp' = [disp EXCEPT ![s] = "Handler"]
    /\ Goto(Owner, IF Len(old'[obj]) = Len(Signals) THEN "push" ELSE "install")
    /\ UNCHANGED <<lock, life, obj, frame, idx, pending, proc, asked, bounds>>

Acquire(t) == mutex = {} /\ mutex' = {t} /\ UNCHANGED <<stack, stackNull>>

\* BUG (mutant): the destructor does not take the mutex.
LockStackToPushOnly ==
    /\ \/ pc[Owner] = "push" /\ Goto(Owner, "pushing") /\ Acquire(Owner)
       \/ pc[Owner] = "erase" /\ Goto(Owner, "erasing") /\ UNCHANGED lock
    /\ UNCHANGED <<disp, old, life, obj, frame, idx, pending, proc, asked, bounds>>

\* The critical sections of Init and UninstallHandlers are entered ...
LockStack ==
    /\ \/ pc[Owner] = "push" /\ Goto(Owner, "pushing")
       \/ pc[Owner] = "erase" /\ Goto(Owner, "erasing")
    /\ Acquire(Owner)
    /\ UNCHANGED <<disp, old, life, obj, frame, idx, pending, proc, asked, bounds>>

\* ... and left: Init makes the vector if there is none, and pushes.
Push ==
    /\ pc[Owner] = "pushing"
    /\ stack' = Append(stack, obj) /\ stackNull' = FALSE /\ mutex' = {}
    /\ life' = [life EXCEPT ![obj] = "alive"]
    /\ Goto(Owner, "run")
    /\ UNCHANGED <<disp, old, obj, frame, idx, pending, proc, asked, bounds>>

-----------------------------------------------------------------------------
(* UninstallHandlers, on the owner's thread. *)

Destruct(h) ==
    /\ pc[Owner] = "run" /\ life[h] = "alive"
    /\ Lifo => h = stack[Len(stack)]
    /\ life' = [life EXCEPT ![h] = "dtor"]
    /\ obj' = h
    /\ Goto(Owner, "restore")
    /\ UNCHANGED <<disp, lock, old, frame, idx, pending, proc, asked, bounds>>

\* BUG (mutant): the default action is restored instead of the saved one.
RestoreOneDefault ==
    /\ pc[Owner] = "restore"
    /\ IF old[obj] = <<>>
       THEN Goto(Owner, "erase") /\ UNCHANGED <<disp, old>>
       ELSE /\ disp' = [disp EXCEPT ![Head(old[obj])[1]] = "DFL"]
            /\ old' = [old EXCEPT ![obj] = Tail(@)]
            /\ UNCHANGED pc
    /\ UNCHANGED <<lock, life, obj, frame, idx, pending, proc, asked, bounds>>

\* BUG (mutant): the last signal of the list is not restored.
RestoreOneShort ==
    /\ pc[Owner] = "restore"
    /\ IF Len(old[obj]) <= 1
       THEN Goto(Owner, "erase") /\ UNCHANGED <<disp, old>>
       ELSE /\ disp' = [disp EXCEPT ![Head(old[obj])[1]] = Head(old[obj])[2]]
            /\ old' = [old EXCEPT ![obj] = Tail(@)]
            /\ UNCHANGED pc
    /\ UNCHANGED <<lock, life, obj, frame, idx, pending, proc, asked, bounds>>

\* One sigaction of the loop; it takes no lock.
RestoreOne ==
    /\ pc[Owner] = "restore"
    /\ IF old[obj] = <<>>
       THEN Goto(Owner, "erase") /\ UNCHANGED <<disp, old>>
       ELSE /\ disp' = [disp EXCEPT ![Head(old[obj])[1]] = Head(old[obj])[2]]
            /\ old' = [old EXCEPT ![obj] = Tail(@)]
            /\ UNCHANGED pc
    /\ UNCHANGED <<lock, life, obj, frame, idx, pending, proc, asked, bounds>>

\* std::find and erase; a handler is in the stack once.
Erase ==
    /\ pc[Owner] = "erasing"
    /\ \E i \in 1..Len(stack) :
         /\ stack[i] = obj
         /\ stack' = [j \in 1..(Len(stack) - 1) |->
                         IF j < i THEN stack[j] ELSE stack[j + 1]]
    /\ mutex' = {} /\ UNCHANGED stackNull
    /\ life' = [life EXCEPT ![obj] = "dead"]
    /\ Goto(Owner, "run")
    /\ UNCHANGED <<disp, old, obj, frame, idx, pending, proc, asked, bounds>>

-----------------------------------------------------------------------------
(* Signals. *)

\* The kernel delivers s to a thread that does not mask it.
Deliver(t, s, hard, back) ==
    IF disp[s] = "DFL"
    THEN proc' = s /\ UNCHANGED <<pc, frame>>
    ELSE /\ Goto(t, "enter")
         /\ sig' = [sig EXCEPT ![t] = s]
         /\ sync' = [sync EXCEPT ![t] = hard]
         /\ ret' = [ret EXCEPT ![t] = back]
         /\ UNCHANGED proc

\* The program's own code faults.
Fault(t, s) ==
    /\ pc[t] = "run" /\ faults < MaxFaults
    /\ faults' = faults + 1
    /\ Deliver(t, s, TRUE, "run")
    /\ UNCHANGED <<disp, lock, old, life, obj, idx, pending, asked, sent>>

\* Somebody sends the signal with kill().
SendSignal(t, s) ==
    /\ pc[t] \notin InHandler /\ sent < MaxSent
    /\ sent' = sent + 1
    /\ Deliver(t, s, FALSE, pc[t])
    /\ UNCHANGED <<disp, lock, old, life, obj, idx, pending, asked, faults>>

\* SignalHandler takes the mutex and looks at the stack.  A NULL stack is a bad
\* access with SIGSEGV masked, which kills; an empty one means return.
Enter(t) ==
    /\ pc[t] = "enter"
    /\ IF stackNull
       THEN mutex = {} /\ proc' = SigSegv /\ UNCHANGED <<lock, pc, idx>>
       ELSE /\ UNCHANGED proc
            /\ IF stack = <<>>
               THEN mutex = {} /\ Goto(t, "return") /\ UNCHANGED <<lock, idx>>
               ELSE /\ Acquire(t)
                    /\ idx' = [idx EXCEPT ![t] = Len(stack)]
                    /\ Goto(t, "handling")
    /\ UNCHANGED <<disp, old, life, obj, frame, pending, asked, bounds>>

\* One turn of the loop: HandleSignal of the handler at idx, whose verdict its
\* filter, crash handler, dump and callback decide between them.
HandleSignal(t) ==
    /\ pc[t] = "handling"
    /\ asked' = asked \cup {stack[idx[t]]}
    /\ \E verdict \in BOOLEAN :
         Goto(t, IF verdict \/ idx[t] = 1 THEN "unlock" ELSE "handling")
    /\ idx' = [idx EXCEPT ![t] = @ - 1]
    /\ UNCHANGED <<disp, lock, old, life, obj, frame, pending, proc, bounds>>

Unlock(t) ==
    /\ pc[t] = "unlock"
    /\ mutex' = {} /\ UNCHANGED <<stack, stackNull>>
    /\ Goto(t, "reissue")
    /\ UNCHANGED <<disp, old, life, obj, frame, idx, pending, proc, asked, bounds>>

\* A signal whose si_pid is not 0 is queued again, or else the process exits.
\* The kernel keeps si_pid and si_addr in one union, so this is also what happens
\* after a hard fault, unless the low half of the faulting address is 0.
Reissue(t) ==
    /\ pc[t] = "reissue"
    /\ \/ sync[t] /\ Goto(t, "reset") /\ UNCHANGED <<pending, proc>>
       \/ pending' = pending \cup {t} /\ Goto(t, "reset") /\ UNCHANGED proc
       \/ proc' = "exit" /\ UNCHANGED <<pc, pending>>
    /\ UNCHANGED <<disp, lock, old, life, obj, frame, idx, asked, bounds>>

\* BUG (mutant): the disposition is left as it is.
ResetToNothing(t) ==
    /\ pc[t] = "reset"
    /\ Goto(t, "return")
    /\ UNCHANGED <<disp, lock, old, life, obj, frame, idx, pending, proc, asked,
                   bounds>>

\* signal(sig, SIG_DFL).
Reset(t) ==
    /\ pc[t] = "reset"
    /\ disp' = [disp EXCEPT ![sig[t]] = "DFL"]
    /\ Goto(t, "return")
    /\ UNCHANGED <<lock, old, life, obj, frame, idx, pending, proc, asked, bounds>>

\* SignalHandler returns: a hard fault comes again, so does a queued signal.
Return(t) ==
    /\ pc[t] = "return"
    /\ pending' = pending \ {t}
    /\ IF sync[t] \/ t \in pending
       THEN Deliver(t, sig[t], sync[t], ret[t])
       ELSE Goto(t, ret[t]) /\ UNCHANGED <<frame, proc>>
    /\ UNCHANGED <<disp, lock, old, life, obj, idx, asked, bounds>>

SignalHandler(t) ==
    Enter(t) \/ HandleSignal(t) \/ Unlock(t) \/ Reissue(t) \/ Reset(t) \/ Return(t)
Lifecycle == InstallOne \/ LockStack \/ Push \/ RestoreOne \/ Erase

Next ==
    /\ proc = "alive"
    /\ \/ \E h \in Handlers : Construct(h) \/ Destruct(h)
       \/ Lifecycle
       \/ \E t \in Threads :
            \/ \E s \in SignalSet : Fault(t, s) \/ SendSignal(t, s)
            \/ SignalHandler(t)

Spec == Init /\ [][Next]_vars

(* Threads run: one in SignalHandler, or in a constructor or destructor, goes *)
(* on unless it waits for the mutex.                                          *)
FairSpec ==
    /\ Spec
    /\ \A t \in Threads : WF_vars(proc = "alive" /\ SignalHandler(t))
    /\ WF_vars(proc = "alive" /\ Lifecycle)

-----------------------------------------------------------------------------
OwnerStates == {"run", "install", "push", "pushing", "restore", "erase", "erasing"}

\* The variables have their types.
TypeOK ==
    /\ disp \in [SignalSet -> {"DFL", "Handler"}]
    /\ stack \in Seq(Handlers) /\ stackNull \in BOOLEAN
    /\ mutex \subseteq Threads
    /\ old \in [Handlers -> Seq(SignalSet \X {"DFL", "Handler"})]
    /\ life \in [Handlers -> {"none", "ctor", "alive", "dtor", "dead"}]
    /\ pc \in [Threads -> OwnerStates \cup InHandler]
    /\ obj \in Handlers
    /\ sig \in [Threads -> SignalSet]
    /\ sync \in [Threads -> BOOLEAN]
    /\ ret \in [Threads -> OwnerStates]
    /\ idx \in [Threads -> Nat]
    /\ pending \subseteq Threads
    /\ proc \in {"alive", "exit"} \cup SignalSet
    /\ asked \subseteq Handlers
    /\ faults \in Nat /\ sent \in Nat

\* A handler is asked only while it exists: one that is being destroyed by
\* another thread stays in place until the crashing thread has left the stack.
HandlerLives ==
    \A t \in Threads : pc[t] = "handling" =>
        /\ mutex = {t}
        /\ idx[t] \in 1..Len(stack)
        /\ life[stack[idx[t]]] \in {"alive", "dtor"}

\* While a handler whose signals were installed is alive, no fatal signal kills
\* the process before some handler was asked about a crash, if handlers are
\* destroyed in the reverse order of construction.
InstalledHandlerAsked ==
    /\ proc \in SignalSet
    /\ \E h \in Handlers : life[h] = "alive" /\ old[h] # <<>>
    => asked # {}

\* The dispositions of before are back once the last handler is destroyed.
DispositionsRestored ==
    Lifo /\ (\A h \in Handlers : life[h] \in {"none", "dead"}) =>
        \A s \in SignalSet : disp[s] = "DFL"

\* Init and UninstallHandlers hold the mutex with the signals unmasked: a signal
\* sent to the thread that holds it waits in SignalHandler for itself.
SelfDeadlock == \E t \in Threads : pc[t] = "enter" /\ mutex = {t}

\* The comment at the end of SignalHandler: when it returns "we will get
\* terminated with the same signal that was triggered originally".  Whatever
\* handlers come and go meanwhile, a hard fault ends the process.
CrashTerminates ==
    \A t \in Threads :
        pc[t] = "enter" /\ sync[t] ~> proc # "alive" \/ SelfDeadlock
=============================================================================
