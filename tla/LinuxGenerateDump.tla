------------------------- MODULE LinuxGenerateDump -------------------------
(***************************************************************************)
(* How a Linux ExceptionHandler writes a minidump of its own process:       *)
(* GenerateDump clones a child that shares the descriptor table, lets it    *)
(* through a pipe once it may ptrace, and waits for it; the child (DoDump,  *)
(* MinidumpWriter, LinuxDumper) suspends the threads, writes the file,      *)
(* resumes the threads and exits.                                           *)
(*                                                                          *)
(* One handler object.  Crashers come through HandleSignal, under           *)
(* handler_stack_mutex_; Callers call WriteMinidump, under no lock; the     *)
(* other threads are the program's own and open and close files.  The       *)
(* members fdes and next_minidump_path_c_ belong to the handler; the child  *)
(* has a copy of its memory as of clone().  A thread that is traced does    *)
(* not run.                                                                 *)
(***************************************************************************)
EXTENDS Integers, FiniteSets, FiniteSetsExt

CONSTANTS
    Threads,       \* threads of the process
    Crashers,      \* those that crash
    Callers,       \* those that call WriteMinidump
    NumFds,        \* size of the descriptor table
    Yama,          \* does ptrace need PR_SET_PTRACER?
    CloneMayFail,
    OtherStatus,   \* exit status of the child process the program has of its own
    Overlap,       \* may a dump begin while another thread writes one?
    FirstFdes,     \* bound: what the uninitialized fdes may hold
    MaxDumps,      \* bound: dumps that are begun
    MaxOpens,      \* bound: files the program opens
    MaxDeaths      \* bound: cloned children that are killed

Fds == 0..(NumFds - 1)
None == "none"
Child == Threads  \* a child is named after the thread that cloned it

ASSUME LinuxGenerateDumpAssumption ==
    /\ IsFiniteSet(Threads) /\ Crashers \subseteq Threads /\ Callers \subseteq Threads
    /\ Crashers \cap Callers = {} /\ None \notin Threads
    /\ NumFds \in Nat /\ Yama \in BOOLEAN /\ CloneMayFail \in BOOLEAN
    /\ Overlap \in BOOLEAN /\ OtherStatus \in Nat
    /\ FirstFdes \subseteq (Fds \cup {-1}) \X (Fds \cup {-1})
    /\ MaxDumps \in Nat /\ MaxOpens \in Nat /\ MaxDeaths \in Nat

VARIABLES
    table,    \* descriptor table of the process and its cloned children
    bytes,    \* per pipe: bytes written and not read
    fdes,     \* the member
    piped,    \* did the last sys_pipe succeed, so that fdes are what it made?
    nextId,   \* next_minidump_id_ and next_minidump_path_
    files,    \* minidump files: [id, by, with, done]
    mutex,    \* handler_stack_mutex_
    pc,       \* per thread
    pid,      \* per thread: did its clone succeed?
    success,  \* per thread: the local of GenerateDump
    child,    \* per child: where it is, or how it exited
    memory,   \* per child: its copy of fdes and of the path
    reading,  \* per child: the pipe it reads, or 0
    todo,     \* per child: threads its dumper still has to suspend or read
    ptracer,  \* PR_SET_PTRACER
    tracer,   \* per thread: the child that traces it
    proc,     \* "alive" or "SIGPIPE"
    other,    \* a child of the program itself: "runs", "exited", "reaped"
    touched,  \* history: for each dump that read, wrote or closed a file of the
              \*   program, whether it had its pipe
    told,     \* history: what callbacks were told
    begun, opens, deaths

fdVars     == <<table, bytes, fdes, piped, touched>>
childVars  == <<child, memory, reading, todo>>
fileVars   == <<nextId, files>>
traceVars  == <<ptracer, tracer>>
threadVars == <<mutex, pc, pid, success>>
restVars   == <<proc, other, told>>
bounds     == <<begun, opens, deaths>>
vars == <<fdVars, childVars, fileVars, traceVars, threadVars, restVars, bounds>>

Free == <<"free", 0>>
Program == <<"program", 0>>   \* a file of the program (reads and writes return)
Minidump(c) == <<"minidump", c>> \* the file child c writes
Status == <<"status", 0>>     \* /proc/<tid>/status

Object(fd) == IF fd \in Fds THEN table[fd] ELSE Free
FreeFds == {fd \in Fds : table[fd] = Free}
Open(o) == FreeFds # {} /\ table' = [table EXCEPT ![Min(FreeFds)] = o]
Close(fd) == table' = [table EXCEPT ![fd] = Free]

Pipes == 1..MaxDumps
Readers(p) == \/ \E fd \in Fds : table[fd] = <<"r", p>>
              \/ \E c \in Child : reading[c] = p
Writers(p) == \E fd \in Fds : table[fd] = <<"w", p>>
Runs(t) == tracer[t] = None
Goto(t, l) == pc' = [pc EXCEPT ![t] = l]
ChildGoto(c, l) == child' = [child EXCEPT ![c] = l]
Exited == {"exit0", "exit1", "killed"}

Init ==
    /\ table = [fd \in Fds |-> Free]
    /\ bytes = [p \in Pipes |-> 0]
    /\ fdes \in FirstFdes /\ piped = FALSE
    /\ nextId = 0 /\ files = {}
    /\ mutex = None
    /\ pc = [t \in Threads |-> "run"]
    /\ pid = [t \in Threads |-> FALSE]
    /\ success = [t \in Threads |-> FALSE]
    /\ child = [c \in Child |-> None]
    /\ memory = [c \in Child |-> [fd |-> -1, id |-> 0]]
    /\ reading = [c \in Child |-> 0]
    /\ todo = [c \in Child |-> {}]
    /\ ptracer = None
    /\ tracer = [t \in Threads |-> None]
    /\ proc = "alive" /\ other = "runs"
    /\ touched = {} /\ told = {}
    /\ begun = 0 /\ opens = 0 /\ deaths = 0

-----------------------------------------------------------------------------
(* GenerateDump, on the thread that crashed or called WriteMinidump. *)

Dumping(t) == pc[t] \notin {"run", "crashed"}
MayBegin(t) == /\ pc[t] = "run" /\ begun < MaxDumps
               /\ Overlap \/ \A u \in Threads : ~Dumping(u)

\* HandleSignal is called with the mutex held, WriteMinidump without.
Begin(t) ==
    /\ MayBegin(t)
    /\ \/ t \in Crashers /\ mutex = None /\ mutex' = t
       \/ t \in Callers /\ UNCHANGED mutex
    /\ begun' = begun + 1
    /\ Goto(t, "pipe")
    /\ UNCHANGED <<fdVars, childVars, fileVars, traceVars, pid, success, restVars,
                   opens, deaths>>

\* Without two free descriptors sys_pipe fails, and fdes keeps what it held: the
\* closed ends of the pipe before, or what the constructor left in it.
Pipe(t) ==
    /\ pc[t] = "pipe"
    /\ IF Cardinality(FreeFds) < 2
       THEN piped' = FALSE /\ UNCHANGED <<table, bytes, fdes>>
       ELSE LET p == Min({q \in Pipes : ~Readers(q) /\ ~Writers(q)})
                r == Min(FreeFds)
                w == Min(FreeFds \ {r})
            IN /\ table' = [table EXCEPT ![r] = <<"r", p>>, ![w] = <<"w", p>>]
               /\ bytes' = [bytes EXCEPT ![p] = 0]
               /\ fdes' = <<r, w>> /\ piped' = TRUE
    /\ Goto(t, "clone")
    /\ UNCHANGED <<touched, childVars, fileVars, traceVars, mutex, pid, success,
                   restVars, bounds>>

\* A new process, which an earlier PR_SET_PTRACER is not about.
Clone(t) ==
    /\ pc[t] = "clone"
    /\ ptracer' = IF ptracer = t THEN None ELSE ptracer
    /\ \/ /\ pid' = [pid EXCEPT ![t] = TRUE]
          /\ ChildGoto(t, "start")
          /\ memory' = [memory EXCEPT ![t] = [fd |-> fdes[1], id |-> nextId]]
       \/ /\ CloneMayFail
          /\ pid' = [pid EXCEPT ![t] = FALSE]
          /\ UNCHANGED <<child, memory>>
    /\ Goto(t, "ptracer")
    /\ UNCHANGED <<fdVars, reading, todo, fileVars, tracer, mutex, success,
                   restVars, bounds>>

SetPtracer(t) ==
    /\ pc[t] = "ptracer"
    /\ ptracer' = IF pid[t] THEN t ELSE ptracer
    /\ Goto(t, "write")
    /\ UNCHANGED <<fdVars, childVars, fileVars, tracer, mutex, pid, success,
                   restVars, bounds>>


\* A file of the program is not the dump's to use.
Touch(o) == touched' = IF o = Program THEN touched \cup {piped} ELSE touched

\* One byte to whatever is at fdes[1].
SendContinueSignalToChild(t) ==
    /\ pc[t] = "write"
    /\ LET o == Object(fdes[2]) IN
         /\ Touch(o)
         /\ IF o[1] = "w" /\ ~Readers(o[2])
            THEN proc' = "SIGPIPE" /\ UNCHANGED bytes
            ELSE /\ bytes' = IF o[1] = "w" THEN [bytes EXCEPT ![o[2]] = @ + 1] ELSE bytes
                 /\ UNCHANGED proc
    /\ Goto(t, "wait")
    /\ UNCHANGED <<table, fdes, piped, childVars, fileVars, traceVars, mutex, pid, success,
                   other, told, bounds>>

\* waitpid for the child; with child = -1, for any child of the process.
Waitpid(t) ==
    /\ pc[t] = "wait"
    /\ \/ /\ pid[t] /\ child[t] \in Exited
          /\ success' = [success EXCEPT ![t] = child[t] = "exit0"]
          /\ ChildGoto(t, None) /\ UNCHANGED other
       \/ /\ pid[t] /\ child[t] = None
          /\ success' = [success EXCEPT ![t] = FALSE]
          /\ UNCHANGED <<child, other>>
       \/ /\ ~pid[t]
          /\ \/ \E c \in Child :
                  /\ child[c] \in Exited
                  /\ success' = [success EXCEPT ![t] = child[c] = "exit0"]
                  /\ ChildGoto(c, None) /\ UNCHANGED other
             \/ /\ other = "exited"
                /\ success' = [success EXCEPT ![t] = OtherStatus = 0]
                /\ other' = "reaped" /\ UNCHANGED child
             \/ /\ other = "reaped" /\ \A c \in Child : child[c] = None
                /\ success' = [success EXCEPT ![t] = FALSE]
                /\ UNCHANGED <<child, other>>
    /\ Goto(t, "close0")
    /\ UNCHANGED <<fdVars, memory, reading, todo, fileVars, traceVars, mutex, pid,
                   proc, told, bounds>>

CloseAt(fd) ==
    /\ Touch(Object(fd))
    /\ IF fd \in Fds THEN Close(fd) ELSE UNCHANGED table

\* BUG (mutant): the read end is closed twice.
CloseReadEndTwice(t) ==
    /\ \/ pc[t] = "close0" /\ Goto(t, "close1") /\ CloseAt(fdes[1])
       \/ pc[t] = "close1" /\ Goto(t, "callback") /\ CloseAt(fdes[1])
    /\ UNCHANGED <<bytes, fdes, piped, childVars, fileVars, traceVars, mutex, pid, success,
                   restVars, bounds>>

ClosePipe(t) ==
    /\ \/ pc[t] = "close0" /\ Goto(t, "close1") /\ CloseAt(fdes[1])
       \/ pc[t] = "close1" /\ Goto(t, "callback") /\ CloseAt(fdes[2])
    /\ UNCHANGED <<bytes, fdes, piped, childVars, fileVars, traceVars, mutex, pid, success,
                   restVars, bounds>>

\* The callback is given the member next_minidump_id_c_ and success.
Callback(t) ==
    /\ pc[t] = "callback"
    /\ told' = told \cup {[by |-> t, id |-> nextId, succeeded |-> success[t],
                              piped |-> piped, cloned |-> pid[t]]}
    /\ Goto(t, IF t \in Crashers THEN "unlock" ELSE "update")
    /\ UNCHANGED <<fdVars, childVars, fileVars, traceVars, mutex, pid, success, proc,
                   other, bounds>>

\* A crash is over; WriteMinidump goes on to UpdateNextID and returns.
Unlock(t) ==
    /\ pc[t] = "unlock"
    /\ mutex' = None /\ Goto(t, "crashed")
    /\ UNCHANGED <<fdVars, childVars, fileVars, traceVars, pid, success, restVars, bounds>>

UpdateNextID(t) ==
    /\ pc[t] = "update"
    /\ nextId' = nextId + 1
    /\ Goto(t, "run")
    /\ UNCHANGED <<fdVars, childVars, files, traceVars, mutex, pid, success, restVars,
                   bounds>>

GenerateDump(t) ==
    /\ Runs(t)
    /\ \/ Pipe(t) \/ Clone(t) \/ SetPtracer(t) \/ SendContinueSignalToChild(t)
       \/ Waitpid(t) \/ ClosePipe(t) \/ Callback(t) \/ Unlock(t) \/ UpdateNextID(t)

-----------------------------------------------------------------------------
(* ThreadEntry, in the cloned child. *)

\* BUG (mutant): the child does not wait.
ContinueAtOnce(c) ==
    /\ child[c] = "start" /\ ChildGoto(c, "open")
    /\ UNCHANGED <<fdVars, memory, reading, todo, fileVars, traceVars, threadVars,
                   restVars, bounds>>

\* The read waits on the pipe found at fdes[0], closed or not meanwhile, until
\* there is a byte or no writer; a read of anything else returns.
WaitForContinueSignal(c) ==
    /\ LET o == Object(memory[c].fd) IN
       \/ /\ child[c] = "start"
          /\ Touch(o)
          /\ IF o[1] = "r"
             THEN /\ reading' = [reading EXCEPT ![c] = o[2]]
                  /\ ChildGoto(c, "read")
             ELSE ChildGoto(c, "open") /\ UNCHANGED reading
          /\ UNCHANGED bytes
       \/ /\ child[c] = "read"
          /\ bytes[reading[c]] > 0 \/ ~Writers(reading[c])
          /\ bytes' = [bytes EXCEPT ![reading[c]] = IF @ > 0 THEN @ - 1 ELSE 0]
          /\ reading' = [reading EXCEPT ![c] = 0]
          /\ ChildGoto(c, "open")
          /\ UNCHANGED touched
    /\ UNCHANGED <<table, fdes, piped, memory, todo, fileVars, traceVars, threadVars,
                   restVars, bounds>>

\* MinidumpWriter::Init up to Open, which is O_EXCL; any part of it may fail.
OpenMinidump(c) ==
    /\ child[c] = "open"
    /\ \/ /\ \A f \in files : f.id # memory[c].id
          /\ Open(Minidump(c))
          /\ files' = files \cup {[id |-> memory[c].id, by |-> c, with |-> {}, done |-> FALSE]}
          /\ todo' = [todo EXCEPT ![c] = Threads]
          /\ ChildGoto(c, "suspend")
       \/ /\ ChildGoto(c, "exit1")
          /\ UNCHANGED <<table, files, todo>>
    /\ UNCHANGED <<bytes, fdes, piped, touched, memory, reading, nextId, traceVars, threadVars,
                   restVars, bounds>>

Suspended(c) == {t \in Threads : tracer[t] = c}

\* ThreadsSuspend, one thread after the other.  One that cannot be attached to, or
\* that has gone or is trusted code of the sandbox, is dropped without a word.
SuspendThread(c) ==
    /\ child[c] = "suspend"
    /\ \E t \in todo[c] :
         /\ todo' = [todo EXCEPT ![c] = @ \ {t}]
         /\ \/ /\ tracer[t] = None /\ (Yama => ptracer = c)
               /\ tracer' = [tracer EXCEPT ![t] = c]
            \/ /\ \/ tracer[t] # None
                  \/ Yama /\ ptracer # c
                  \/ t \notin Crashers \cup Callers
               /\ UNCHANGED tracer
    /\ UNCHANGED <<fdVars, child, memory, reading, fileVars, ptracer, threadVars,
                   restVars, bounds>>

\* No thread left is a failure.
AllSuspended(c) ==
    /\ child[c] = "suspend" /\ todo[c] = {}
    /\ todo' = [todo EXCEPT ![c] = Suspended(c) \ {c}]
    /\ ChildGoto(c, IF Suspended(c) = {} THEN "failed" ELSE "dump")
    /\ UNCHANGED <<fdVars, memory, reading, fileVars, traceVars, threadVars, restVars,
                   bounds>>

\* ThreadInfoGet of every thread but the crashing one: it opens the status file
\* and leaves it open, in the table that the process shares.
ThreadInfoGet(c) ==
    /\ child[c] = "dump"
    /\ \E t \in todo[c] :
         /\ todo' = [todo EXCEPT ![c] = @ \ {t}]
         /\ \/ Open(Status) /\ UNCHANGED child
            \/ Open(Status) /\ ChildGoto(c, "failed")
            \/ FreeFds = {} /\ ChildGoto(c, "failed") /\ UNCHANGED table
    /\ UNCHANGED <<bytes, fdes, piped, touched, memory, reading, fileVars, traceVars, threadVars,
                   restVars, bounds>>

\* The file of child c, when all of its streams are there.
Completed(f, c) ==
    IF f.id = memory[c].id /\ f.by = c
    THEN [f EXCEPT !.with = Suspended(c), !.done = TRUE] ELSE f

\* The rest of Dump: it succeeds, or a write fails.
WriteStreams(c) ==
    /\ child[c] = "dump" /\ todo[c] = {}
    /\ \/ /\ files' = {Completed(f, c) : f \in files}
          /\ ChildGoto(c, "written")
       \/ ChildGoto(c, "failed") /\ UNCHANGED files
    /\ UNCHANGED <<fdVars, memory, reading, todo, nextId, traceVars, threadVars,
                   restVars, bounds>>

\* ThreadsResume, and ~MinidumpWriter, which closes the file; then exit.
DestroyWriter(c) ==
    /\ child[c] \in {"written", "failed"}
    /\ tracer' = [t \in Threads |-> IF tracer[t] = c THEN None ELSE tracer[t]]
    /\ Close(CHOOSE fd \in Fds : table[fd] = Minidump(c))
    /\ ChildGoto(c, IF child[c] = "written" THEN "exit0" ELSE "exit1")
    /\ UNCHANGED <<bytes, fdes, piped, touched, memory, reading, todo, fileVars, ptracer,
                   threadVars, restVars, bounds>>

ThreadEntry(c) ==
    \/ WaitForContinueSignal(c) \/ OpenMinidump(c) \/ SuspendThread(c)
    \/ AllSuspended(c) \/ ThreadInfoGet(c) \/ WriteStreams(c) \/ DestroyWriter(c)

-----------------------------------------------------------------------------
(* The surroundings. *)

\* A cloned child is killed: the kernel detaches what it traced.
ChildDies(c) ==
    /\ child[c] \notin Exited \cup {None} /\ deaths < MaxDeaths
    /\ deaths' = deaths + 1
    /\ ChildGoto(c, "killed")
    /\ reading' = [reading EXCEPT ![c] = 0]
    /\ tracer' = [t \in Threads |-> IF tracer[t] = c THEN None ELSE tracer[t]]
    /\ UNCHANGED <<fdVars, memory, todo, fileVars, ptracer, threadVars, restVars,
                   begun, opens>>

\* The program opens and closes files of its own.
ProgramOpens(t) ==
    /\ t \notin Crashers \cup Callers /\ Runs(t) /\ opens < MaxOpens
    /\ opens' = opens + 1
    /\ Open(Program)
    /\ UNCHANGED <<bytes, fdes, piped, touched, childVars, fileVars, traceVars, threadVars,
                   restVars, begun, deaths>>

ProgramCloses(t) ==
    /\ t \notin Crashers \cup Callers /\ Runs(t)
    /\ \E fd \in Fds : table[fd] = Program /\ Close(fd)
    /\ UNCHANGED <<bytes, fdes, piped, touched, childVars, fileVars, traceVars, threadVars,
                   restVars, bounds>>

\* The program's own child process exits.
OtherExits ==
    /\ other = "runs" /\ other' = "exited"
    /\ UNCHANGED <<fdVars, childVars, fileVars, traceVars, threadVars, proc, told, bounds>>

Next ==
    /\ proc = "alive"
    /\ \/ \E t \in Threads :
            \/ Runs(t) /\ Begin(t)
            \/ GenerateDump(t)
            \/ ProgramOpens(t) \/ ProgramCloses(t)
       \/ \E c \in Child : ThreadEntry(c) \/ ChildDies(c)
       \/ OtherExits

Spec == Init /\ [][Next]_vars

(* Threads and cloned children run.  Nothing makes the program's own child exit. *)
FairSpec ==
    /\ Spec
    /\ \A t \in Threads : WF_vars(proc = "alive" /\ GenerateDump(t))
    /\ \A c \in Child : WF_vars(proc = "alive" /\ ThreadEntry(c))

-----------------------------------------------------------------------------
Objects == {Free, Program, Status} \cup {"r", "w"} \X Pipes \cup {Minidump(c) : c \in Child}
ThreadStates == {"run", "pipe", "clone", "ptracer", "write", "wait", "close0", "close1",
                 "callback", "unlock", "crashed", "update"}
ChildStates == {None, "start", "read", "open", "suspend", "dump", "written", "failed"}
               \cup Exited

\* The variables have their types.
TypeOK ==
    /\ table \in [Fds -> Objects] /\ bytes \in [Pipes -> Nat]
    /\ fdes \in (Fds \cup {-1}) \X (Fds \cup {-1})
    /\ nextId \in Nat
    /\ \A f \in files : f.id \in 0..nextId /\ f.by \in Child
    /\ mutex \in Crashers \cup {None}
    /\ pc \in [Threads -> ThreadStates]
    /\ pid \in [Threads -> BOOLEAN] /\ success \in [Threads -> BOOLEAN]
    /\ child \in [Child -> ChildStates]
    /\ reading \in [Child -> Pipes \cup {0}]
    /\ todo \in [Child -> SUBSET Threads]
    /\ ptracer \in Child \cup {None} /\ tracer \in [Threads -> Child \cup {None}]
    /\ proc \in {"alive", "SIGPIPE"} /\ other \in {"runs", "exited", "reaped"}
    /\ piped \in BOOLEAN /\ touched \subseteq BOOLEAN

\* What exception_handler.h tells the writer of a callback: the minidump file is
\* <dump_path>/<minidump_id>.dmp, and succeeded says whether it was written.  It
\* was written for this thread, which is one of the threads in it if the pipe of
\* the dump could be made; without one the child need not wait for the thread to
\* let itself be traced.  There is one way to be told of success without a dump:
\* clone failed, and waitpid(-1) took a child of the program that exited with 0.
ToldTruth ==
    \A r \in told : r.succeeded =>
        \/ \E f \in files : /\ f.id = r.id /\ f.by = r.by /\ f.done
                            /\ r.piped => r.by \in f.with
        \/ ~r.cloned /\ other = "reaped" /\ OtherStatus = 0

\* A dump that has its pipe reads, writes and closes no file of the program, also
\* after dumps that had none and though its child shares the descriptors.  Of a
\* pipe that cannot be made exception_handler.cc:388-390 says that all that
\* happens is that "the write() and read() calls will fail with EBADF"; but such
\* a dump does use, and close, what the stale fdes have come to name.
ProgramFilesUntouched == TRUE \notin touched


\* exception_handler.h: "a minidump will be written whenever an unhandled exception
\* occurs", and exception_handler.cc that the signal then ends the process: the
\* thread that crashed gets through GenerateDump.
CrashReturns ==
    \A t \in Crashers : pc[t] = "pipe" ~> pc[t] = "crashed" \/ proc # "alive"
=============================================================================
