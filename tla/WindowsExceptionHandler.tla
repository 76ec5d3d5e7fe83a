---------------------- MODULE WindowsExceptionHandler ----------------------
(***************************************************************************)
(* The Windows ExceptionHandler: handler objects constructed and destroyed   *)
(* by one thread, the filters they install for exceptions, invalid           *)
(* parameters and pure virtual calls, the static handler_stack_ with its     *)
(* index and critical section, and the thread each in-process handler has    *)
(* for writing its dumps, with two semaphores and a critical section.        *)
(*                                                                           *)
(* An actor is a thread of the program or, under the name of the handler,    *)
(* a handler's own thread.  Any actor may fault in the program's filter and  *)
(* callback or in dbghelp; the system then calls the filter that is set.     *)
(* Filters and callbacks return anything.                                    *)
(***************************************************************************)
EXTENDS Integers, Sequences, FiniteSets, SequencesExt

CONSTANTS
    Threads,      \* threads of the program
    Owner,        \* the one that constructs and destroys the handlers
    Handlers,     \* ExceptionHandler objects, and their threads
    Types,        \* per handler: handler_types, the slots it installs
    Piped,        \* handlers constructed with a pipe name
    DebugHandlers,\* handlers with handle_debug_exceptions
    FaultKinds,   \* faults that happen
    Writers,      \* threads that call WriteMinidump
    Original,     \* per slot: what was set before Breakpad, "none" or "app"
    Lifo,         \* are handlers destroyed in the reverse order of construction?
    MaxFaults,    \* bound: faults
    MaxWrites     \* bound: calls of WriteMinidump

Slots == {"exception", "iph", "pch"}
Slot(f) == IF f = "breakpoint" THEN "exception" ELSE f

ASSUME WindowsExceptionHandlerAssumption ==
    /\ Owner \in Threads /\ Threads \cap Handlers = {}
    /\ Types \in [Handlers -> SUBSET Slots]
    /\ Piped \subseteq Handlers /\ DebugHandlers \subseteq Handlers
    /\ FaultKinds \subseteq Slots \cup {"breakpoint"} /\ Writers \subseteq Threads
    /\ Original \in [Slots -> {"none", "app"}]
    /\ Lifo \in BOOLEAN /\ MaxFaults \in Nat /\ MaxWrites \in Nat

Actors == Threads \cup Handlers

VARIABLES
    filter,   \* per slot: "none", "app" or "breakpad"
    previous, \* per handler and slot: previous_filter_, previous_iph_, previous_pch_
    stack,    \* *handler_stack_, bottom first; <<>> also when it is NULL
    index,    \* handler_stack_index_
    stackCs,  \* handler_stack_critical_section_: the set of its owner, or {}
    life,     \* per handler: "none", "built", "alive", "removed", "dead"
    remote,   \* handlers registered with a crash generation server
    pc,       \* per actor
    frames,   \* per actor: its AutoExceptionHandlers, <<handler, "enter" if the system
              \* called it, "chained" if a handler did>>
    fault,    \* per actor: the last fault
    doing,    \* per thread: the handler whose WriteMinidump it called
    verdict,  \* per actor: what the system is told of its fault
    result,   \* per actor: what the last call it made returned
    hcs,      \* per handler: handler_critical_section_, the set of its owner
    start, finish, \* handlers whose semaphore is signaled
    request,  \* per handler: requesting_thread_id_, as a set
    served,   \* per handler: whose request handler_return_value_ answers
    nextId,   \* per handler: next_minidump_id_
    files,    \* dump files: the id in the name, and for whom
    misled,   \* history: ids a callback was told of without a dump of that name
    proc,     \* "alive", how the process ended, or "undefined"
    faults, writes

statics == <<filter, stack, index, stackCs>>
object  == <<previous, life, remote>>
handoff == <<hcs, start, finish, request, served>>
output  == <<nextId, files, misled>>
bounds  == <<faults, writes>>
vars == <<statics, object, pc, frames, fault, doing, verdict, result, handoff,
          output, proc, bounds>>

Init ==
    /\ filter = Original
    /\ previous = [h \in Handlers |-> [s \in Slots |-> "none"]]
    /\ stack = <<>> /\ index = 0 /\ stackCs = {}
    /\ life = [h \in Handlers |-> "none"] /\ remote = {}
    /\ pc = [a \in Actors |-> IF a \in Threads THEN "run" ELSE "none"]
    /\ frames = [a \in Actors |-> <<>>]
    /\ fault = [a \in Actors |-> "exception"]
    /\ doing = [t \in Threads |-> CHOOSE h \in Handlers : TRUE]
    /\ verdict = [a \in Actors |-> "none"]
    /\ result = [a \in Actors |-> FALSE]
    /\ hcs = [h \in Handlers |-> {}] /\ start = {} /\ finish = {}
    /\ request = [h \in Handlers |-> {}] /\ served = [h \in Handlers |-> {}]
    /\ nextId = [h \in Handlers |-> 0] /\ files = {} /\ misled = {}
    /\ proc = "alive" /\ faults = 0 /\ writes = 0

Goto(a, l) == pc' = [pc EXCEPT ![a] = l]

\* The handler an actor works for: of its innermost AutoExceptionHandler, or its
\* own, or the one whose WriteMinidump was called.
At(a) == IF frames[a] # <<>> THEN Last(frames[a])[1]
         ELSE IF a \in Handlers THEN a ELSE doing[a]

-----------------------------------------------------------------------------
(* Initialize and ~ExceptionHandler, on the owner's thread. *)

Idle == pc[Owner] = "run" /\ \A h \in Handlers : life[h] \notin {"built", "removed"}

\* Registers with the server, or else makes the handler's thread, which may fail;
\* the first instance makes the critical section of the stack.
Construct(h) ==
    /\ Idle /\ life[h] = "none"
    /\ life' = [life EXCEPT ![h] = "built"]
    /\ \/ h \in Piped /\ remote' = remote \cup {h} /\ UNCHANGED pc
       \/ UNCHANGED <<remote, pc>>
       \/ Goto(h, "idle") /\ UNCHANGED remote
    /\ UNCHANGED <<statics, previous, frames, fault, doing, verdict, result,
                   handoff, output, proc, bounds>>

\* One critical section: push_back, and the filters of its types.
Install(h) ==
    /\ life[h] = "built" /\ life' = [life EXCEPT ![h] = "alive"]
    /\ \/ Types[h] = {} /\ UNCHANGED <<statics, previous>>
       \/ /\ Types[h] # {} /\ stackCs = {}
          /\ stack' = Append(stack, h)
          /\ previous' = [previous EXCEPT ![h] =
                             [s \in Slots |-> IF s \in Types[h] THEN filter[s] ELSE @[s]]]
          /\ filter' = [s \in Slots |-> IF s \in Types[h] THEN "breakpad" ELSE filter[s]]
          /\ UNCHANGED <<index, stackCs>>
    /\ UNCHANGED <<remote, pc, frames, fault, doing, verdict, result, handoff,
                   output, proc, bounds>>

InUse(h) == \E t \in Threads : pc[t] # "run" /\ frames[t] = <<>> /\ doing[t] = h

InOrder(h) == Lifo => \A g \in Handlers : g # h /\ life[g] = "alive" =>
                        \E i, j \in 1..Len(stack) : i < j /\ stack[i] = g /\ stack[j] = h

\* Erased wherever it is, with a warning when not at the back; it was pushed once.
Removed(h) == RemoveAt(stack, CHOOSE i \in DOMAIN stack : stack[i] = h)

\* BUG (mutant): the filters are left as they are.
UninstallKeepsFilters(h) ==
    /\ Idle /\ life[h] = "alive" /\ ~InUse(h) /\ InOrder(h)
    /\ life' = [life EXCEPT ![h] = "removed"]
    /\ stackCs = {} /\ stack' = Removed(h)
    /\ UNCHANGED <<filter, index, stackCs, previous, remote, pc, frames,
                   fault, doing, verdict, result, handoff, output, proc, bounds>>

\* The destructor's critical section.  No thread calls WriteMinidump of an object
\* that is being destroyed.
Uninstall(h) ==
    /\ Idle /\ life[h] = "alive" /\ ~InUse(h) /\ InOrder(h)
    /\ life' = [life EXCEPT ![h] = "removed"]
    /\ \/ Types[h] = {} /\ UNCHANGED statics
       \/ /\ Types[h] # {} /\ stackCs = {}
          /\ filter' = [s \in Slots |-> IF s \in Types[h] THEN previous[h][s] ELSE filter[s]]
          /\ stack' = Removed(h)
          /\ UNCHANGED <<index, stackCs>>
    /\ UNCHANGED <<previous, remote, pc, frames, fault, doing, verdict, result,
                   handoff, output, proc, bounds>>

\* TerminateThread; the last instance deletes the stack's critical section.
Destroy(h) ==
    /\ life[h] = "removed" /\ life' = [life EXCEPT ![h] = "dead"]
    /\ Goto(h, "none")
    /\ hcs' = [hcs EXCEPT ![h] = {}] /\ start' = start \ {h} /\ finish' = finish \ {h}
    /\ UNCHANGED <<statics, previous, remote, frames, fault, doing, verdict,
                   result, request, served, output, proc, bounds>>

Lifecycle == \E h \in Handlers : Construct(h) \/ Install(h) \/ Uninstall(h) \/ Destroy(h)

-----------------------------------------------------------------------------
(* HandleException, HandleInvalidParameter, HandlePureVirtualCall. *)

\* A thread of the program faults, or an actor in filter, callback or dbghelp.
\* The system calls the filter; the default one and the program's end the process.
Fault(a, f) ==
    /\ faults < MaxFaults /\ faults' = faults + 1
    /\ \/ pc[a] \in {"write", "callback"}
       \/ a \in Threads /\ pc[a] = "run" /\ (a = Owner => Idle)
    /\ fault' = [fault EXCEPT ![a] = f]
    /\ \/ filter[Slot(f)] = "breakpad" /\ Goto(a, "enter") /\ UNCHANGED verdict
       \/ /\ filter[Slot(f)] # "breakpad" /\ Goto(a, "ending")
          /\ verdict' = [verdict EXCEPT ![a] = "system"]
    /\ UNCHANGED <<statics, object, frames, doing, result, handoff, output, proc, writes>>

CsExists == \E h \in Handlers : life[h] \in {"built", "alive", "removed"}

\* AutoExceptionHandler: the next handler down the stack, and the filters that
\* were set before it.  With nobody there, at() of the vector, or of NULL, faults in
\* turn with the critical section held, and that ends the process.  The critical
\* section may be gone: the race the destructor's comment speaks of.
Enter(a) ==
    /\ pc[a] \in {"enter", "chained"} /\ stackCs \subseteq {a}
    /\ \/ /\ CsExists /\ index < Len(stack)
          /\ LET h == stack[Len(stack) - index] IN
               /\ frames' = [frames EXCEPT ![a] = Append(@, <<h, pc[a]>>)]
               /\ filter' = previous[h]
          /\ index' = index + 1
          /\ Goto(a, "ask")
          /\ UNCHANGED <<verdict, proc>>
       \/ /\ CsExists /\ index >= Len(stack)
          /\ Goto(a, "ending") /\ verdict' = [verdict EXCEPT ![a] = "system"]
          /\ UNCHANGED <<filter, index, frames, proc>>
       \/ ~CsExists /\ proc' = "undefined" /\ UNCHANGED <<filter, index, frames, pc, verdict>>
    /\ stackCs' = {a}
    /\ UNCHANGED <<stack, object, fault, doing, result, handoff, output, bounds>>

\* Breakpoints and single steps are for somebody else; out of process there is no
\* thread to go through.
Ask(a) ==
    /\ pc[a] = "ask"
    /\ LET h == At(a) IN
         \/ fault[a] = "breakpoint" /\ h \notin DebugHandlers /\ Goto(a, "declined")
         \/ /\ fault[a] = "breakpoint" => h \in DebugHandlers
            /\ Goto(a, IF h \in remote THEN "write" ELSE "lock")
    /\ UNCHANGED <<statics, object, frames, fault, doing, verdict, result, handoff,
                   output, proc, bounds>>

Chains(a) ==
    /\ previous[At(a)][Slot(fault[a])] = "breakpad" /\ Goto(a, "chained")
    /\ UNCHANGED verdict

\* No previous handler: the exception is reported to the system, or the default
\* code path is taken.  The program's own handler decides as it likes; after an
\* invalid parameter or a pure call that it handled, the process exits.
GivesUp(a) ==
    /\ previous[At(a)][Slot(fault[a])] # "breakpad"
    /\ verdict' = [verdict EXCEPT ![a] = "system"]
    /\ Goto(a, IF \/ Slot(fault[a]) = "exception"
                  \/ fault[a] = "pch" /\ previous[At(a)]["pch"] = "none"
               THEN "unwind" ELSE "ending")

\* BUG (mutant): the previous handler is not given its chance.
DeclinedStops(a) ==
    /\ pc[a] = "declined"
    /\ verdict' = [verdict EXCEPT ![a] = "system"] /\ Goto(a, "unwind")
    /\ UNCHANGED <<statics, object, frames, fault, doing, result, handoff, output,
                   proc, bounds>>

\* Not handled: the previous handler gets its chance.
Declined(a) ==
    /\ pc[a] = "declined"
    /\ Chains(a) \/ GivesUp(a)
    /\ UNCHANGED <<statics, object, frames, fault, doing, result, handoff, output,
                   proc, bounds>>

\* The end of WriteMinidump... in a handler function: handled means
\* EXCEPTION_EXECUTE_HANDLER or exit(0), which does not unwind.
Decide(a) ==
    /\ pc[a] = "result" /\ frames[a] # <<>>
    /\ \/ ~result[a] /\ Goto(a, "declined") /\ UNCHANGED verdict
       \/ /\ result[a] /\ verdict' = [verdict EXCEPT ![a] = "handled"]
          /\ Goto(a, IF Slot(fault[a]) = "exception" THEN "unwind" ELSE "ending")
    /\ result' = [result EXCEPT ![a] = FALSE]
    /\ UNCHANGED <<statics, object, frames, fault, doing, handoff, output, proc, bounds>>

\* ~AutoExceptionHandler, once for each handler function that returns to the one
\* that called it and at last to the system.
Unwind(a) ==
    /\ pc[a] = "unwind"
    /\ filter' = [s \in Slots |-> "breakpad"]
    /\ index' = index - 1
    /\ stackCs' = IF Len(frames[a]) = 1 THEN {} ELSE stackCs
    /\ frames' = [frames EXCEPT ![a] = Front(@)]
    /\ Goto(a, IF Last(frames[a])[2] = "enter" THEN "ending" ELSE "unwind")
    /\ UNCHANGED <<stack, object, fault, doing, verdict, result, handoff,
                   output, proc, bounds>>

\* The system, or exit, ends the process.
End(a) ==
    /\ pc[a] = "ending" /\ proc' = verdict[a]
    /\ UNCHANGED <<statics, object, pc, frames, fault, doing, verdict, result,
                   handoff, output, bounds>>

-----------------------------------------------------------------------------
(* WriteMinidump and the handler's thread. *)

\* A thread of the program asks for a dump.
WriteMinidump(t, h) ==
    /\ writes < MaxWrites /\ writes' = writes + 1
    /\ t \in Writers /\ pc[t] = "run" /\ (t = Owner => Idle)
    /\ life[h] = "alive"
    /\ doing' = [doing EXCEPT ![t] = h]
    /\ Goto(t, IF h \in remote THEN "write" ELSE "lock")
    /\ UNCHANGED <<statics, object, frames, fault, verdict, result, handoff, output,
                   proc, faults>>

\* BUG (mutant): handler_critical_section_ is not entered.
HandOverUnlocked(a) ==
    /\ pc[a] = "lock"
    /\ LET h == At(a) IN
         /\ pc[h] # "none" /\ request' = [request EXCEPT ![h] = {a}]
         /\ start' = start \cup {h} /\ Goto(a, "wait")
    /\ UNCHANGED <<statics, object, frames, fault, doing, verdict, result, hcs,
                   finish, served, output, proc, bounds>>

\* WriteMinidumpOnHandlerThread enters the handler's critical section, and leaves
\* it when there is no thread; else it wakes the thread.
HandOver(a) ==
    /\ pc[a] = "lock" /\ hcs[At(a)] \subseteq {a}
    /\ LET h == At(a) IN
         \/ /\ pc[h] = "none" /\ result' = [result EXCEPT ![a] = FALSE]
            /\ Goto(a, "result") /\ UNCHANGED handoff
         \/ /\ pc[h] # "none" /\ hcs' = [hcs EXCEPT ![h] = {a}]
            /\ request' = [request EXCEPT ![h] = {a}]
            /\ start' = start \cup {h} /\ Goto(a, "wait")
            /\ UNCHANGED <<finish, served, result>>
    /\ UNCHANGED <<statics, object, frames, fault, doing, verdict, output, proc, bounds>>

\* ExceptionHandlerThreadMain
WorkerStarts(h) ==
    /\ pc[h] = "idle" /\ h \in start /\ start' = start \ {h} /\ Goto(h, "write")
    /\ UNCHANGED <<statics, object, frames, fault, doing, verdict, result, hcs,
                   finish, request, served, output, proc, bounds>>

Requester(a) == IF frames[a] = <<>> /\ a \in Handlers THEN request[a] ELSE {a}

\* WriteMinidumpWithException: the filter refuses; or the server is asked; or the
\* file is made, which fails when it exists, and written.
Write(a) ==
    /\ pc[a] = "write"
    /\ LET h == At(a)
           id == <<h, nextId[h]>> IN
         \/ Goto(a, "result") /\ result' = [result EXCEPT ![a] = FALSE] /\ UNCHANGED files
         \/ /\ Goto(a, "callback")
            /\ \/ result' = [result EXCEPT ![a] = FALSE] /\ UNCHANGED files
               \/ /\ h \notin remote /\ \A r \in files : r.id # id
                  /\ files' = files \cup {[id |-> id, by |-> Requester(a)]}
                  /\ result' = [result EXCEPT ![a] = TRUE]
    /\ UNCHANGED <<statics, object, frames, fault, doing, verdict, handoff, nextId,
                   misled, proc, bounds>>

\* The callback, if any, has the last word.
Callback(a) ==
    /\ pc[a] = "callback" /\ Goto(a, "result")
    /\ \E ok \in BOOLEAN : result' = [result EXCEPT ![a] = ok]
    /\ LET id == <<At(a), nextId[At(a)]>> IN
         misled' = IF result[a] /\ [id |-> id, by |-> Requester(a)] \notin files
                   THEN misled \cup {id} ELSE misled
    /\ UNCHANGED <<statics, object, frames, fault, doing, verdict, handoff, nextId,
                   files, proc, bounds>>

\* BUG (mutant): only a success releases handler_finish_semaphore_.
WorkerFinishesSuccess(h) ==
    /\ pc[h] = "result" /\ frames[h] = <<>> /\ Goto(h, "idle")
    /\ served' = [served EXCEPT ![h] = request[h]]
    /\ finish' = IF result[h] THEN finish \cup {h} ELSE finish
    /\ UNCHANGED <<statics, object, frames, fault, doing, verdict, result, hcs,
                   start, request, output, proc, bounds>>

\* handler_return_value_ is result[h].
WorkerFinishes(h) ==
    /\ pc[h] = "result" /\ frames[h] = <<>> /\ Goto(h, "idle")
    /\ served' = [served EXCEPT ![h] = request[h]]
    /\ finish' = finish \cup {h}
    /\ UNCHANGED <<statics, object, frames, fault, doing, verdict, result, hcs,
                   start, request, output, proc, bounds>>

\* The requesting thread collects the value and leaves the critical section.
Collect(a) ==
    /\ pc[a] = "wait" /\ At(a) \in finish
    /\ LET h == At(a) IN
         /\ result' = [result EXCEPT ![a] = result[h], ![h] = FALSE]
         /\ served' = [served EXCEPT ![h] = {}]
         /\ finish' = finish \ {h}
         /\ request' = [request EXCEPT ![h] = {}]
         /\ hcs' = [hcs EXCEPT ![h] = {}]
    /\ Goto(a, "result")
    /\ UNCHANGED <<statics, object, frames, fault, doing, verdict, start, output,
                   proc, bounds>>

\* WriteMinidump returns, in process only after UpdateNextID, outside the critical
\* section.
WriteReturns(t) ==
    /\ t \in Threads /\ pc[t] = "result" /\ frames[t] = <<>> /\ Goto(t, "run")
    /\ nextId' = IF doing[t] \in remote THEN nextId
                 ELSE [nextId EXCEPT ![doing[t]] = @ + 1]
    /\ result' = [result EXCEPT ![t] = FALSE]
    /\ UNCHANGED <<statics, object, frames, fault, doing, verdict, handoff, files,
                   misled, proc, bounds>>

Handle(a) == \/ Enter(a) \/ Ask(a) \/ Declined(a) \/ Decide(a) \/ Unwind(a) \/ End(a)
             \/ HandOver(a) \/ Write(a) \/ Callback(a) \/ Collect(a)
Work(h) == WorkerStarts(h) \/ WorkerFinishes(h)

Next ==
    /\ proc = "alive"
    /\ \/ Lifecycle
       \/ \E a \in Actors, f \in FaultKinds : Fault(a, f)
       \/ \E t \in Threads, h \in Handlers : WriteMinidump(t, h)
       \/ \E a \in Actors : Handle(a)
       \/ \E h \in Handlers : Work(h)
       \/ \E t \in Threads : WriteReturns(t)

Spec == Init /\ [][Next]_vars

\* Threads that are not blocked run; filters, callbacks and dbghelp return.
FairSpec ==
    /\ Spec
    /\ \A a \in Actors : WF_vars(proc = "alive" /\ Handle(a))
    /\ \A h \in Handlers : WF_vars(proc = "alive" /\ Work(h))
    /\ \A t \in Threads : WF_vars(proc = "alive" /\ WriteReturns(t))

-----------------------------------------------------------------------------
(* Properties *)

Values == {"none", "app", "breakpad"}

TypeOK ==
    /\ filter \in [Slots -> Values]
    /\ previous \in [Handlers -> [Slots -> Values]]
    /\ stack \in Seq(Handlers) /\ index \in Nat
    /\ stackCs \in SUBSET Actors /\ Cardinality(stackCs) <= 1
    /\ life \in [Handlers -> {"none", "built", "alive", "removed", "dead"}]
    /\ remote \subseteq Handlers
    /\ pc \in [Actors -> {"run", "none", "idle", "enter", "chained", "ask", "lock",
                          "wait", "write", "callback", "result", "declined",
                          "unwind", "ending"}]
    /\ frames \in [Actors -> Seq(Handlers \X {"enter", "chained"})]
    /\ fault \in [Actors -> Slots \cup {"breakpoint"}] /\ doing \in [Threads -> Handlers]
    /\ verdict \in [Actors -> {"none", "handled", "system"}]
    /\ result \in [Actors -> BOOLEAN]
    /\ hcs \in [Handlers -> SUBSET Actors]
    /\ start \subseteq Handlers /\ finish \subseteq Handlers
    /\ request \in [Handlers -> SUBSET Actors] /\ served \in [Handlers -> SUBSET Actors]
    /\ nextId \in [Handlers -> Nat]
    /\ files \subseteq [id : Handlers \X Nat, by : SUBSET Actors]
    /\ misled \subseteq Handlers \X Nat
    /\ proc \in {"alive", "handled", "system", "undefined"}
    /\ faults \in 0..MaxFaults /\ writes \in 0..MaxWrites

\* "handler_stack_index_ ... restores the state in effect": when nobody is in a
\* handler function, the index is 0, and each filter is Breakpad's as long as a
\* handler is installed and then what it was before the first.  (The handlers are
\* of the same types here.)
FiltersAgree ==
    stackCs = {} =>
        /\ index = 0
        /\ \A s \in Slots : filter[s] = IF \E h \in Handlers : /\ s \in Types[h]
                                                               /\ \E i \in 1..Len(stack) : stack[i] = h
                                        THEN "breakpad" ELSE Original[s]

\* The value a requesting thread collects answers its own request, of its own
\* handler, and nobody else waits there.
OwnVerdict ==
    \A h \in finish : /\ served[h] = request[h]
                      /\ Cardinality({a \in Actors : pc[a] = "wait" /\ At(a) = h}) = 1
                      /\ \A a \in request[h] : pc[a] = "wait" /\ At(a) = h

Asked(a) == {frames[a][i][1] : i \in 1..Len(frames[a])}

\* exception_handler.h: a fault is reported to the system as unhandled only "if
\* there are no other handlers", every one on the stack having been given the fault by
\* the thread; or else while another thread is in a handler function, when the
\* filters are those of the handlers below.
DeclinedByAll ==
    [][\A a \in Actors :
         /\ pc[a] \in {"run", "write", "callback", "declined", "enter", "chained"}
         /\ pc'[a] \in {"unwind", "ending"}
         => \/ \A i \in 1..Len(stack) : stack[i] \in Asked(a)
            \/ ~(stackCs \subseteq {a})]_vars

\* A handler's own thread that faults waits for the critical section of the stack,
\* or of its handler, whose owner waits for this thread.
SelfWait == \E h \in Handlers : pc[h] \in {"enter", "lock"}

\* "The handler fully handled the exception ... usually results in the application
\* being terminated": a thread that has faulted or asked for a dump comes to an end, unless a
\* handler's own thread has faulted.
HandlingEnds ==
    \A t \in Threads : pc[t] # "run" ~> (pc[t] = "run" \/ proc # "alive" \/ SelfWait)

\* exception_handler.h: "minidump_id is a unique id for the dump, so the minidump
\* file is <dump_path>\<minidump_id>.dmp ... succeeded indicates whether a minidump
\* file was successfully written".
ToldTruth == misled = {}
=============================================================================
