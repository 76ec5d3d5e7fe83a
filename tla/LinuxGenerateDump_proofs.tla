--------------------- MODULE LinuxGenerateDump_proofs ---------------------
(***************************************************************************)
(* What a callback of the Linux ExceptionHandler may believe, proved for    *)
(* every number of threads, descriptors and dumps, one dump at a time, with *)
(* pipes that can be made or not and clones that fail or not.               *)
(*                                                                          *)
(* DumpInv is the inductive invariant; what it says of the pipe it says of  *)
(* a dump that has one.  CountInv counts the descriptors that dumps leave   *)
(* open.                                                                    *)
(***************************************************************************)
EXTENDS LinuxGenerateDump, FiniteSetTheorems, WellFoundedInduction, TLAPS

-----------------------------------------------------------------------------
(* The inductive invariant. *)

\* The threads that wait for the clone they made, and the clones that are at work,
\* have the pipe, if it could be made.
HasPipe(t) == piped /\ pc[t] \in {"clone", "ptracer", "write", "wait", "close0", "close1"}
HasReadEnd(t) == HasPipe(t) /\ pc[t] # "close1"
Working == {"suspend", "dump", "written", "failed"}
ThePipe == table[fdes[1]][2]

\* A minidump of the thread that was written, of that number; with the thread in
\* it, if the dump had its pipe.
Dumped(t, id, p) ==
    \E f \in files : f.id = id /\ f.by = t /\ f.done /\ (p => t \in f.with)

\* After a failed clone, waitpid took a child of the program for the clone.
TookAnother == other = "reaped" /\ OtherStatus = 0

TypeInv ==
    /\ table \in [Fds -> Objects] /\ bytes \in [Pipes -> Nat]
    /\ fdes \in (Fds \cup {-1}) \X (Fds \cup {-1}) /\ piped \in BOOLEAN
    /\ nextId \in Nat
    /\ pc \in [Threads -> ThreadStates]
    /\ pid \in [Threads -> BOOLEAN] /\ success \in [Threads -> BOOLEAN]
    /\ child \in [Child -> ChildStates]
    /\ DOMAIN memory = Child
    /\ reading \in [Child -> Pipes \cup {0}]
    /\ todo \in [Child -> SUBSET Threads]
    /\ tracer \in [Threads -> Child \cup {None}]
    /\ begun \in 0..MaxDumps

\* One thread dumps at a time, and only it has a clone, from clone() to the end
\* of waitpid().
OneInv ==
    /\ \A t, u \in Threads : Dumping(t) /\ Dumping(u) => t = u
    /\ \A t \in Threads : Dumping(t) => begun > 0 /\ t \in Crashers \cup Callers
    /\ \A c \in Child : child[c] # None =>
          /\ pc[c] \in {"ptracer", "write", "wait"} /\ pid[c]
          /\ memory[c].fd = fdes[1] /\ memory[c].id = nextId

\* The members fdes are the ends of one pipe from pipe() until they are closed,
\* and there is no other end of a pipe.
PipeInv ==
    /\ \A t \in Threads : HasPipe(t) => fdes[2] \in Fds /\ table[fdes[2]][1] = "w"
    /\ \A t \in Threads : HasReadEnd(t) =>
          fdes[1] \in Fds /\ table[fdes[1]] = <<"r", ThePipe>> /\ ThePipe \in Pipes
          /\ table[fdes[2]] = <<"w", ThePipe>>
    /\ \A fd \in Fds : table[fd][1] = "r" => fd = fdes[1] /\ \E t \in Threads : HasReadEnd(t)
    /\ \A fd \in Fds : table[fd][1] = "w" => fd = fdes[2] /\ \E t \in Threads : HasPipe(t)
    /\ \A c \in Child : IF child[c] = "read" THEN piped /\ reading[c] = ThePipe
                        ELSE reading[c] = 0

\* A clone is let through after its thread has made it the tracer.
GateInv ==
    /\ \A t \in Threads : HasPipe(t) /\ pc[t] \in {"clone", "ptracer", "write"} =>
          bytes[ThePipe] = 0
    /\ \A t \in Threads : pc[t] \in {"write", "wait"} /\ pid[t] => ptracer = t
    /\ \A c \in Child : piped /\ child[c] \in {"open", "exit0", "exit1"} \cup Working =>
          pc[c] = "wait"

\* The clone traces the thread that made it from the suspension on.
TraceInv ==
    /\ \A u \in Threads : tracer[u] # None => child[tracer[u]] \in Working
    /\ \A c \in Child : child[c] = "suspend" =>
          /\ \A u \in todo[c] : tracer[u] = None
          /\ piped /\ c \notin todo[c] => tracer[c] = c
    /\ \A c \in Child : child[c] = "dump" => (piped => tracer[c] = c) /\ c \notin todo[c]

\* The clone has its file, and what was said to be written is.
FileInv ==
    /\ \A c \in Child : child[c] \in Working =>
          /\ \E fd \in Fds : table[fd] = Minidump(c)
          /\ \E f \in files : f.id = nextId /\ f.by = c
    /\ \A c \in Child : child[c] \in {"suspend", "dump"} =>
          \A f \in files : f.id = nextId => f.with = {}
    /\ \A c \in Child : child[c] \in {"written", "exit0"} => Dumped(c, nextId, piped)
    /\ \A t \in Threads : pc[t] \in {"close0", "close1", "callback"} /\ success[t] =>
          Dumped(t, nextId, piped) \/ (~pid[t] /\ TookAnother)
    /\ \A r \in told : r.succeeded =>
          Dumped(r.by, r.id, r.piped) \/ (~r.cloned /\ TookAnother)

DumpInv == TypeInv /\ OneInv /\ PipeInv /\ GateInv /\ TraceInv /\ FileInv /\ TRUE \notin touched

-----------------------------------------------------------------------------
(* How many descriptors there are. *)

Used == {fd \in Fds : table[fd] # Free}

\* What the clone may still open: its file, and a status file for each other thread.
Left(t) ==
    IF pc[t] \in {"pipe", "clone"} \/ child[t] \in {"start", "read", "open"}
    THEN Cardinality(Threads)
    ELSE IF child[t] = "suspend" THEN Cardinality(Threads) - 1
    ELSE IF child[t] = "dump" THEN Cardinality(todo[t])
    ELSE 0
Ends(t) == IF HasReadEnd(t) THEN 2 ELSE IF HasPipe(t) THEN 1 ELSE 0
Budget == opens + begun * Cardinality(Threads)

\* A dump leaves behind a descriptor for each thread at the most.
CountInv ==
    /\ opens \in 0..MaxOpens
    /\ \A t \in Threads : Dumping(t) => Cardinality(Used) + Left(t) <= Budget + Ends(t)
    /\ (\A t \in Threads : ~Dumping(t)) => Cardinality(Used) <= Budget

-----------------------------------------------------------------------------
(* The descriptors. *)

\* The constants, as the assumption on them leaves them.
LEMMA Setting ==
    /\ IsFiniteSet(Threads) /\ None \notin Threads /\ Child = Threads
    /\ NumFds \in Nat /\ MaxDumps \in Nat /\ MaxOpens \in Nat
    /\ -1 \notin Fds /\ Fds \subseteq Nat /\ IsFiniteSet(Fds)
    /\ Pipes \subseteq Nat
  <1>1. IsFiniteSet(Fds)
    BY FS_Interval, LinuxGenerateDumpAssumption DEF Fds, LinuxGenerateDumpAssumption
  <1> QED
    BY <1>1, LinuxGenerateDumpAssumption DEF LinuxGenerateDumpAssumption, Fds, Child, Pipes

\* Of the initial segments of the elements of S one contains no other.
LEMMA MinIsLeast ==
    ASSUME NEW S, S \subseteq Nat, S # {}
    PROVE  Min(S) \in S /\ \A y \in S : Min(S) <= y
  <1> DEFINE T == {1..x : x \in S}
             R == StrictSubsetOrdering(Nat)
  <1>1. T \subseteq FiniteSubsetsOf(Nat) /\ T # {}
    <2>1. \A x \in S : 1..x \in SUBSET Nat /\ IsFiniteSet(1..x)
      BY FS_Interval
    <2>2. PICK x : x \in S
      OBVIOUS
    <2>3. 1..x \in T
      BY <2>2
    <2> QED
      BY <2>1, <2>3 DEF FiniteSubsetsOf
  <1>2. \E s \in T : \A t \in T : <<t, s>> \notin R
    <2> HIDE DEF T, R
    <2> IsWellFoundedOn(R, FiniteSubsetsOf(Nat))
      BY FS_StrictSubsetOrderingWellFounded DEF R
    <2> QED
      BY <1>1, WFMin
  <1>3. PICK x \in S : \A y \in S : <<1..y, 1..x>> \notin R
    BY <1>2
  <1>4. ASSUME NEW y \in S PROVE x <= y
    <2> SUFFICES ASSUME y < x PROVE FALSE
      OBVIOUS
    <2>1. 1..y \subseteq 1..x /\ x \in 1..x /\ x \notin 1..y
      OBVIOUS
    <2>2. <<1..y, 1..x>> \in R
      BY <2>1 DEF StrictSubsetOrdering
    <2> QED
      BY <1>3, <2>2
  <1> QED
    BY <1>4 DEF Min

\* open() takes a free descriptor.
LEMMA OpenEffect ==
    ASSUME NEW o, Open(o)
    PROVE  \E fd \in Fds : table[fd] = Free /\ table' = [table EXCEPT ![fd] = o]
  <1>1. Min(FreeFds) \in FreeFds
    BY Setting, MinIsLeast DEF FreeFds, Open
  <1> QED
    BY <1>1 DEF Open, FreeFds

\* pipe() takes two, for a pipe that has no end yet.
LEMMA PipeEffect ==
    ASSUME DumpInv, ~Overlap, NEW t \in Threads, Pipe(t), piped'
    PROVE  \E p \in Pipes, r, w \in Fds :
             /\ r # w /\ table[r] = Free /\ table[w] = Free
             /\ table' = [table EXCEPT ![r] = <<"r", p>>, ![w] = <<"w", p>>]
             /\ bytes' = [bytes EXCEPT ![p] = 0]
             /\ fdes' = <<r, w>>
  <1>1. Cardinality(FreeFds) >= 2 /\ IsFiniteSet(FreeFds) /\ FreeFds \subseteq Nat
    <2>1. FreeFds \subseteq Fds
      BY DEF FreeFds
    <2>2. IsFiniteSet(FreeFds) /\ Cardinality(FreeFds) \in Nat
      BY <2>1, Setting, FS_Subset, FS_CardinalityType
    <2>3. ~(Cardinality(FreeFds) < 2)
      BY DEF Pipe
    <2> QED
      BY <2>1, <2>2, <2>3, Setting
  <1>2. FreeFds # {}
    BY <1>1, FS_EmptySet
  <1>3. Min(FreeFds) \in FreeFds
    BY <1>1, <1>2, MinIsLeast
  <1>4. FreeFds \ {Min(FreeFds)} # {}
    <2>1. Cardinality(FreeFds \ {Min(FreeFds)}) = Cardinality(FreeFds) - 1
      BY <1>1, <1>3, FS_RemoveElement
    <2>2. Cardinality(FreeFds) \in Nat
      BY <1>1, FS_CardinalityType
    <2>3. Cardinality({}) = 0
      BY FS_EmptySet
    <2> QED
      BY <1>1, <2>1, <2>2, <2>3
  <1>5. Min(FreeFds \ {Min(FreeFds)}) \in FreeFds \ {Min(FreeFds)}
    BY <1>1, <1>4, MinIsLeast
  <1>6. \A q \in Pipes : ~Readers(q) /\ ~Writers(q)
    <2>1. \A u \in Threads : Dumping(u) => u = t
      BY DEF DumpInv, OneInv, Pipe, Dumping
    <2>2. \A u \in Threads : ~HasPipe(u)
      BY <2>1 DEF Pipe, HasPipe, Dumping
    <2>3. \A fd \in Fds : table[fd][1] # "r" /\ table[fd][1] # "w"
      BY <2>2 DEF DumpInv, PipeInv, HasReadEnd
    <2>4. \A c \in Child : child[c] = None
      BY <2>1, Setting DEF DumpInv, OneInv, Dumping, Pipe
    <2>5. \A c \in Child : reading[c] = 0
      BY <2>4 DEF DumpInv, PipeInv, None
    <2> QED
      BY <2>3, <2>5 DEF Readers, Writers, Pipes
  <1>7. Pipes # {} /\ {q \in Pipes : ~Readers(q) /\ ~Writers(q)} = Pipes
    <2>1. begun > 0 /\ begun \in 0..MaxDumps
      BY DEF DumpInv, OneInv, TypeInv, Pipe, Dumping
    <2> QED
      BY <1>6, <2>1, Setting DEF Pipes
  <1>8. Min(Pipes) \in Pipes
    BY <1>7, Setting, MinIsLeast
  <1> DEFINE p == Min(Pipes)
             r == Min(FreeFds)
             w == Min(FreeFds \ {r})
  <1>9. ~(Cardinality(FreeFds) < 2)
    BY <1>1, FS_CardinalityType
  <1>10. /\ table' = [table EXCEPT ![r] = <<"r", p>>, ![w] = <<"w", p>>]
         /\ bytes' = [bytes EXCEPT ![p] = 0]
         /\ fdes' = <<r, w>>
    BY <1>7, <1>9 DEF Pipe
  <1>11. r \in FreeFds /\ w \in FreeFds \ {r} /\ p \in Pipes
    BY <1>3, <1>5, <1>8
  <1> HIDE DEF p, r, w
  <1> QED
    BY <1>10, <1>11 DEF FreeFds

\* A pipe that cannot be made changes nothing else.
LEMMA PipeFails ==
    ASSUME DumpInv, NEW t \in Threads, Pipe(t), ~piped'
    PROVE  piped' = FALSE /\ UNCHANGED <<table, bytes, fdes>>
  BY DEF Pipe

-----------------------------------------------------------------------------
(* The threads and their clones. *)

\* A thread begins when no other dumps, and it has no clone before clone()
\* and after waitpid().
LEMMA OneStays ==
    ASSUME ~Overlap, DumpInv, [Next]_vars
    PROVE  OneInv'
  <1> USE Setting
      DEF DumpInv, TypeInv, OneInv, ChildStates, None, Exited, Dumping, MayBegin, Goto,
          ChildGoto, fdVars, childVars, fileVars, traceVars, threadVars, restVars,
          bounds
  <1>1. ASSUME NEW t \in Threads, Begin(t) PROVE OneInv'
    BY <1>1 DEF Begin
  <1>2. ASSUME NEW t \in Threads, Pipe(t) PROVE OneInv'
    BY <1>2 DEF Pipe
  <1>3. ASSUME NEW t \in Threads, Clone(t) PROVE OneInv'
    BY <1>3 DEF Clone
  <1>4. ASSUME NEW t \in Threads, SetPtracer(t) PROVE OneInv'
    BY <1>4 DEF SetPtracer
  <1>5. ASSUME NEW t \in Threads, SendContinueSignalToChild(t) PROVE OneInv'
    BY <1>5 DEF SendContinueSignalToChild
  <1>6. ASSUME NEW t \in Threads, Waitpid(t) PROVE OneInv'
    BY <1>6 DEF Waitpid
  <1>7. ASSUME NEW t \in Threads, ClosePipe(t) PROVE OneInv'
    BY <1>7 DEF ClosePipe
  <1>8. ASSUME NEW t \in Threads, Callback(t) PROVE OneInv'
    BY <1>8 DEF Callback
  <1>9. ASSUME NEW t \in Threads, Unlock(t) PROVE OneInv'
    BY <1>9 DEF Unlock
  <1>10. ASSUME NEW t \in Threads, UpdateNextID(t) PROVE OneInv'
    BY <1>10 DEF UpdateNextID
  <1>11. ASSUME NEW c \in Child, WaitForContinueSignal(c) PROVE OneInv'
    BY <1>11 DEF WaitForContinueSignal
  <1>12. ASSUME NEW c \in Child, OpenMinidump(c) PROVE OneInv'
    BY <1>12 DEF OpenMinidump
  <1>13. ASSUME NEW c \in Child, AllSuspended(c) PROVE OneInv'
    BY <1>13 DEF AllSuspended
  <1>14. ASSUME NEW c \in Child, ThreadInfoGet(c) PROVE OneInv'
    BY <1>14 DEF ThreadInfoGet
  <1>15. ASSUME NEW c \in Child, WriteStreams(c) PROVE OneInv'
    BY <1>15 DEF WriteStreams
  <1>16. ASSUME NEW c \in Child, DestroyWriter(c) PROVE OneInv'
    BY <1>16 DEF DestroyWriter
  <1>17. ASSUME NEW c \in Child, ChildDies(c) PROVE OneInv'
    BY <1>17 DEF ChildDies
  <1>18. ASSUME \/ \E t \in Threads : ProgramOpens(t) \/ ProgramCloses(t)
                \/ \E c \in Child : SuspendThread(c)
                \/ OtherExits
                \/ UNCHANGED vars
        PROVE  OneInv'
    <2>1. UNCHANGED <<pc, pid, child, memory, fdes, nextId, begun>>
      BY <1>18
      DEF ProgramOpens, ProgramCloses, SuspendThread, OtherExits, vars
    <2> QED
      BY <2>1
  <1> HIDE DEF DumpInv, TypeInv, OneInv, ChildStates, None, Exited, Dumping, MayBegin,
               Goto, ChildGoto, fdVars, childVars, fileVars, traceVars, threadVars,
               restVars, bounds
  <1>a. ASSUME NEW t \in Threads, GenerateDump(t) PROVE OneInv'
    BY <1>2, <1>3, <1>4, <1>5, <1>6, <1>7, <1>8, <1>9, <1>10, <1>a DEF GenerateDump
  <1>b. ASSUME NEW c \in Child, ThreadEntry(c) PROVE OneInv'
    BY <1>11, <1>12, <1>18, <1>13, <1>14, <1>15, <1>16, <1>b DEF ThreadEntry
  <1> QED
    BY <1>a, <1>b, <1>1, <1>18, <1>17 DEF Next

\* What the first component of an object tells.
LEMMA ObjectFacts ==
    /\ Free \in Objects /\ Program \in Objects /\ Status \in Objects
    /\ \A p \in Pipes : <<"r", p>> \in Objects /\ <<"w", p>> \in Objects
    /\ \A c \in Child : Minidump(c) \in Objects
    /\ \A o \in Objects : o[1] \in {"r", "w"} => o[2] \in Pipes
  BY DEF Objects, Free, Program, Status, Minidump

\* Every step keeps the variables in their types.
LEMMA TypeStays ==
    ASSUME ~Overlap, DumpInv, TypeInv, [Next]_vars
    PROVE  TypeInv'
  <1> USE Setting
      DEF TypeInv, ChildStates, ThreadStates, Exited, MayBegin, Goto, ChildGoto, fdVars,
          childVars, fileVars, traceVars, threadVars, restVars, bounds
  <1>1. ASSUME NEW t \in Threads, Begin(t) PROVE TypeInv'
    BY <1>1 DEF Begin
  <1>2. ASSUME NEW t \in Threads, Pipe(t) PROVE TypeInv'
    <2>1. piped' => \E p \in Pipes, r, w \in Fds :
             /\ table' = [table EXCEPT ![r] = <<"r", p>>, ![w] = <<"w", p>>]
             /\ bytes' = [bytes EXCEPT ![p] = 0]
             /\ fdes' = <<r, w>>
      BY <1>2, PipeEffect DEF DumpInv
    <2>2. /\ pc' = [pc EXCEPT ![t] = "clone"] /\ piped' \in BOOLEAN
          /\ UNCHANGED <<childVars, fileVars, traceVars, pid, success, bounds>>
      BY <1>2 DEF Pipe
    <2>3. table' \in [Fds -> Objects] /\ bytes' \in [Pipes -> Nat]
          /\ fdes' \in (Fds \cup {-1}) \X (Fds \cup {-1})
      <3>1. CASE piped'
        BY <2>1, <3>1, ObjectFacts
      <3>2. CASE ~piped'
        <4>1. UNCHANGED <<table, bytes, fdes>>
          BY <1>2, <3>2, PipeFails
        <4> QED
          BY <4>1
      <3> QED
        BY <3>1, <3>2
    <2> QED
      BY <2>2, <2>3
  <1>3. ASSUME NEW t \in Threads, Clone(t) PROVE TypeInv'
    BY <1>3 DEF Clone
  <1>4. ASSUME NEW t \in Threads, SetPtracer(t) PROVE TypeInv'
    BY <1>4 DEF SetPtracer
  <1>5. ASSUME NEW t \in Threads, SendContinueSignalToChild(t) PROVE TypeInv'
    BY <1>5 DEF SendContinueSignalToChild
  <1>6. ASSUME NEW t \in Threads, Waitpid(t) PROVE TypeInv'
    BY <1>6 DEF Waitpid
  <1>7. ASSUME NEW t \in Threads, ClosePipe(t) PROVE TypeInv'
    BY <1>7, ObjectFacts DEF ClosePipe, CloseAt, Close
  <1>8. ASSUME NEW t \in Threads, Callback(t) PROVE TypeInv'
    BY <1>8 DEF Callback
  <1>9. ASSUME NEW t \in Threads, Unlock(t) PROVE TypeInv'
    BY <1>9 DEF Unlock
  <1>10. ASSUME NEW t \in Threads, UpdateNextID(t) PROVE TypeInv'
    BY <1>10 DEF UpdateNextID
  <1>11. ASSUME NEW t \in Threads, ProgramOpens(t) PROVE TypeInv'
    <2>1. table' \in [Fds -> Objects]
      BY <1>11, OpenEffect, ObjectFacts DEF ProgramOpens
    <2> QED
      BY <1>11, <2>1 DEF ProgramOpens
  <1>12. ASSUME NEW t \in Threads, ProgramCloses(t) PROVE TypeInv'
    BY <1>12, ObjectFacts DEF ProgramCloses, CloseAt, Close
  <1>13. ASSUME NEW c \in Child, WaitForContinueSignal(c) PROVE TypeInv'
    <2>1. UNCHANGED <<table, fdes, piped, memory, todo, fileVars, traceVars, threadVars, bounds>>
      BY <1>13 DEF WaitForContinueSignal
    <2>2. CASE child[c] = "start"
      <3>1. Object(memory[c].fd)[1] = "r" => Object(memory[c].fd)[2] \in Pipes
        BY ObjectFacts DEF Object, Free
      <3> QED
        BY <1>13, <2>1, <2>2, <3>1 DEF WaitForContinueSignal
    <2>3. CASE child[c] = "read"
      <3>1. bytes' \in [Pipes -> Nat]
        BY <1>13, <2>3 DEF WaitForContinueSignal
      <3> QED
        BY <1>13, <2>1, <2>3, <3>1 DEF WaitForContinueSignal
    <2> QED
      BY <1>13, <2>2, <2>3 DEF WaitForContinueSignal
  <1>14. ASSUME NEW c \in Child, OpenMinidump(c) PROVE TypeInv'
    <2>1. table' \in [Fds -> Objects]
      BY <1>14, OpenEffect, ObjectFacts DEF OpenMinidump
    <2> QED
      BY <1>14, <2>1 DEF OpenMinidump
  <1>15. ASSUME NEW c \in Child, SuspendThread(c) PROVE TypeInv'
    BY <1>15 DEF SuspendThread
  <1>16. ASSUME NEW c \in Child, AllSuspended(c) PROVE TypeInv'
    BY <1>16 DEF AllSuspended, Suspended
  <1>17. ASSUME NEW c \in Child, ThreadInfoGet(c) PROVE TypeInv'
    <2>1. table' \in [Fds -> Objects]
      BY <1>17, OpenEffect, ObjectFacts DEF ThreadInfoGet
    <2> QED
      BY <1>17, <2>1 DEF ThreadInfoGet
  <1>18. ASSUME NEW c \in Child, WriteStreams(c) PROVE TypeInv'
    BY <1>18 DEF WriteStreams
  <1>19. ASSUME NEW c \in Child, DestroyWriter(c) PROVE TypeInv'
    BY <1>19, ObjectFacts DEF DestroyWriter, CloseAt, Close
  <1>20. ASSUME NEW c \in Child, ChildDies(c) PROVE TypeInv'
    BY <1>20 DEF ChildDies
  <1>21. ASSUME \/ OtherExits
                \/ UNCHANGED vars
        PROVE  TypeInv'
    <2>1. UNCHANGED <<fdVars, childVars, fileVars, traceVars, threadVars, begun>>
      BY <1>21
      DEF OtherExits, vars
    <2> QED
      BY <2>1
  <1> HIDE DEF TypeInv, ChildStates, ThreadStates, Exited, MayBegin, Goto, ChildGoto,
               fdVars, childVars, fileVars, traceVars, threadVars, restVars, bounds
  <1>a. ASSUME NEW t \in Threads, GenerateDump(t) PROVE TypeInv'
    BY <1>2, <1>3, <1>4, <1>5, <1>6, <1>7, <1>8, <1>9, <1>10, <1>a DEF GenerateDump
  <1>b. ASSUME NEW c \in Child, ThreadEntry(c) PROVE TypeInv'
    BY <1>13, <1>14, <1>15, <1>16, <1>17, <1>18, <1>19, <1>b DEF ThreadEntry
  <1> QED
    BY <1>a, <1>b, <1>1, <1>11, <1>12, <1>20, <1>21 DEF Next

-----------------------------------------------------------------------------
(* The pipe. *)

\* Nobody else touches an end of a pipe.
EndsStay ==
    /\ fdes' = fdes /\ bytes' = bytes /\ piped' = piped
    /\ \A fd \in Fds : table[fd][1] \in {"r", "w"} \/ table'[fd][1] \in {"r", "w"} =>
          table'[fd] = table[fd]

\* A step that leaves the ends of pipes and the threads that have them.
LEMMA EndsStayed ==
    ASSUME DumpInv, NEW x \in Threads,
           \/ OpenMinidump(x) \/ ThreadInfoGet(x) \/ DestroyWriter(x)
           \/ ProgramOpens(x) \/ ProgramCloses(x)
    PROVE  EndsStay
  <1> DEFINE Other(o) == o[1] \notin {"r", "w"}
  <1>1. ASSUME NEW fd \in Fds, NEW o, Other(table[fd]), Other(o),
               table' = [table EXCEPT ![fd] = o], UNCHANGED <<fdes, bytes, piped>>
        PROVE  EndsStay
    BY <1>1 DEF DumpInv, TypeInv, EndsStay
  <1>2. Other(Free) /\ Other(Program) /\ Other(Status) /\ \A c \in Child : Other(Minidump(c))
    BY DEF Free, Program, Status, Minidump
  <1>3. ASSUME NEW o, Open(o), Other(o), UNCHANGED <<fdes, bytes, piped>> PROVE EndsStay
    <2> HIDE DEF Other
    <2>1. PICK fd \in Fds : table[fd] = Free /\ table' = [table EXCEPT ![fd] = o]
      BY <1>3, OpenEffect
    <2> QED
      BY <1>1, <1>2, <1>3, <2>1
  <1>4. ASSUME UNCHANGED <<table, fdes, bytes, piped>> PROVE EndsStay
    BY <1>4 DEF EndsStay
  <1> HIDE DEF Other
  <1>5. CASE OpenMinidump(x)
    BY <1>2, <1>3, <1>4, <1>5, Setting DEF OpenMinidump
  <1>6. CASE ThreadInfoGet(x)
    BY <1>2, <1>3, <1>4, <1>6, Setting DEF ThreadInfoGet
  <1>7. CASE DestroyWriter(x)
    <2> DEFINE fd == CHOOSE fd \in Fds : table[fd] = Minidump(x)
    <2>1. fd \in Fds /\ table[fd] = Minidump(x)
      BY <1>7, Setting DEF DestroyWriter, DumpInv, FileInv, Working
    <2>2. table' = [table EXCEPT ![fd] = Free] /\ UNCHANGED <<fdes, bytes, piped>>
      BY <1>7 DEF DestroyWriter, Close
    <2> HIDE DEF fd
    <2> QED
      BY <1>1, <1>2, <2>1, <2>2, Setting
  <1>8. CASE ProgramOpens(x)
    BY <1>2, <1>3, <1>8 DEF ProgramOpens
  <1>9. CASE ProgramCloses(x)
    BY <1>1, <1>2, <1>9 DEF ProgramCloses, Close
  <1> QED
    BY <1>5, <1>6, <1>7, <1>8, <1>9

\* Such a step keeps PipeInv, if the clones read what they read before.
LEMMA EndsKeepPipe ==
    ASSUME DumpInv, EndsStay, pc' = pc, reading' = reading,
           \A c \in Child : child'[c] = "read" <=> child[c] = "read"
    PROVE  PipeInv' /\ \A t \in Threads : HasReadEnd(t) => ThePipe' = ThePipe
  <1>1. \A t \in Threads : (HasPipe(t)' <=> HasPipe(t)) /\ (HasReadEnd(t)' <=> HasReadEnd(t))
    BY DEF HasPipe, HasReadEnd, EndsStay
  <1>2. \A t \in Threads : HasPipe(t) => table'[fdes[2]] = table[fdes[2]]
    BY DEF DumpInv, PipeInv, EndsStay
  <1>3. \A t \in Threads : HasReadEnd(t) => table'[fdes[1]] = table[fdes[1]]
    BY DEF DumpInv, PipeInv, EndsStay
  <1>4. \A t \in Threads : HasReadEnd(t) => ThePipe' = ThePipe
    BY <1>3 DEF ThePipe, EndsStay
  <1>5. \A c \in Child : child[c] = "read" => HasReadEnd(c)
    BY Setting DEF DumpInv, OneInv, PipeInv, HasReadEnd, HasPipe, None
  <1>6. \A c \in Child : IF child'[c] = "read" THEN piped' /\ reading'[c] = ThePipe'
                         ELSE reading'[c] = 0
    BY <1>4, <1>5, Setting DEF DumpInv, PipeInv, EndsStay
  <1>7. \A fd \in Fds : table'[fd][1] = "r" => table[fd][1] = "r"
    BY DEF EndsStay
  <1>8. \A fd \in Fds : table'[fd][1] = "w" => table[fd][1] = "w"
    BY DEF EndsStay
  <1>9. fdes' = fdes
    BY DEF EndsStay
  <1>10. \A t \in Threads : HasReadEnd(t) => HasPipe(t)
    BY DEF HasReadEnd
  <1> USE DEF DumpInv, PipeInv
  <1>11. \A t \in Threads : HasPipe(t)' => fdes'[2] \in Fds /\ table'[fdes'[2]][1] = "w"
    BY <1>1, <1>2, <1>9
  <1>12. \A t \in Threads : HasReadEnd(t)' =>
            fdes'[1] \in Fds /\ table'[fdes'[1]] = <<"r", ThePipe'>> /\ ThePipe' \in Pipes
            /\ table'[fdes'[2]] = <<"w", ThePipe'>>
    BY <1>1, <1>2, <1>3, <1>4, <1>9, <1>10
  <1>13. \A fd \in Fds : table'[fd][1] = "r" =>
            fd = fdes'[1] /\ \E t \in Threads : HasReadEnd(t)'
    BY <1>1, <1>7, <1>9
  <1>14. \A fd \in Fds : table'[fd][1] = "w" => fd = fdes'[2] /\ \E t \in Threads : HasPipe(t)'
    BY <1>1, <1>8, <1>9
  <1> QED
    BY <1>4, <1>6, <1>11, <1>12, <1>13, <1>14

\* fdes are the ends of the one pipe, whatever step is taken.
LEMMA PipeStays ==
    ASSUME ~Overlap, DumpInv, [Next]_vars
    PROVE  PipeInv'
  <1> USE Setting
      DEF DumpInv, TypeInv, OneInv, PipeInv, HasPipe, HasReadEnd, ThePipe, Dumping,
          MayBegin, Goto, ChildGoto, None, Exited, ChildStates, fdVars, childVars,
          fileVars, traceVars, threadVars, restVars, bounds
  <1>1. ASSUME NEW t \in Threads, Begin(t) PROVE PipeInv'
    BY <1>1 DEF Begin
  <1>0. ASSUME NEW t \in Threads, Pipe(t), ~piped' PROVE PipeInv'
    <2>1. /\ pc[t] = "pipe" /\ pc' = [pc EXCEPT ![t] = "clone"]
          /\ UNCHANGED <<child, reading, table, fdes>>
      BY <1>0, PipeFails DEF Pipe
    <2>2. \A u \in Threads : ~HasPipe(u) /\ ~HasPipe(u)'
      BY <1>0, <2>1
    <2>3. \A c \in Child : child[c] = None
      BY <2>1, Setting
    <2> QED
      BY <2>1, <2>2, <2>3
  <1>2. ASSUME NEW t \in Threads, Pipe(t), piped' PROVE PipeInv'
    <2>1. PICK p \in Pipes, r \in Fds, w \in Fds :
             /\ r # w /\ table[r] = Free /\ table[w] = Free
             /\ table' = [table EXCEPT ![r] = <<"r", p>>, ![w] = <<"w", p>>]
             /\ fdes' = <<r, w>>
      <3> HIDE DEF DumpInv
      <3> QED
        BY <1>2, PipeEffect
    <2>2. pc[t] = "pipe" /\ pc' = [pc EXCEPT ![t] = "clone"] /\ UNCHANGED <<child, reading>>
      BY <1>2 DEF Pipe
    <2>3. \A u \in Threads : ~HasPipe(u)
      BY <2>2
    <2>4. \A c \in Child : child[c] = None
      BY <2>2, Setting
    <2>5. \A u \in Threads : (HasPipe(u)' <=> u = t) /\ (HasReadEnd(u)' <=> u = t)
      BY <1>2, <2>2
    <2>6. \A fd \in Fds : table[fd][1] # "r" /\ table[fd][1] # "w"
      BY <2>3
    <2>7. /\ fdes'[1] = r /\ fdes'[2] = w /\ table'[r] = <<"r", p>> /\ table'[w] = <<"w", p>>
          /\ \A fd \in Fds \ {r, w} : table'[fd] = table[fd]
      BY <2>1
    <2>8. ThePipe' = p
      BY <2>7
    <2>9. \A fd \in Fds : /\ table'[fd][1] = "r" => fd = r
                         /\ table'[fd][1] = "w" => fd = w
      BY <2>1, <2>6, <2>7
    <2> QED
      BY <2>2, <2>4, <2>5, <2>7, <2>8, <2>9
  <1>3. ASSUME NEW t \in Threads, Clone(t) PROVE PipeInv'
    BY <1>3 DEF Clone
  <1>4. ASSUME NEW t \in Threads, SetPtracer(t) PROVE PipeInv'
    BY <1>4 DEF SetPtracer
  <1>5. ASSUME NEW t \in Threads, SendContinueSignalToChild(t) PROVE PipeInv'
    BY <1>5 DEF SendContinueSignalToChild
  <1>6. ASSUME NEW t \in Threads, Waitpid(t) PROVE PipeInv'
    BY <1>6 DEF Waitpid
  <1>22. ASSUME NEW t \in Threads, ClosePipe(t), ~piped PROVE PipeInv'
    <2>1. /\ UNCHANGED <<fdes, piped, child, reading>>
          /\ pc[t] \in {"close0", "close1"} /\ pc' = [pc EXCEPT ![t] = pc'[t]]
      BY <1>22 DEF ClosePipe
    <2>2. \A fd \in Fds : table[fd][1] # "r" /\ table[fd][1] # "w"
      BY <1>22
    <2>3. \A fd \in Fds : table'[fd] \in {table[fd], Free}
      BY <1>22 DEF ClosePipe, CloseAt, Close
    <2>4. \A fd \in Fds : table'[fd][1] # "r" /\ table'[fd][1] # "w"
      BY <2>2, <2>3 DEF Free
    <2>5. \A c \in Child : child[c] # "read" /\ reading[c] = 0
      BY <1>22
    <2> QED
      BY <1>22, <2>1, <2>4, <2>5
  <1>7. ASSUME NEW t \in Threads, ClosePipe(t), piped PROVE PipeInv'
    <2>1. UNCHANGED <<fdes, piped, child, reading>>
      BY <1>7 DEF ClosePipe
    <2>2. \A u \in Threads : HasPipe(u) => u = t
      BY <1>7 DEF ClosePipe
    <2>3. \A c \in Child : child[c] # "read" /\ reading[c] = 0
      BY <1>7, <2>2, Setting DEF ClosePipe
    <2>4. CASE pc[t] = "close0"
      <3>1. /\ fdes[1] \in Fds /\ fdes[2] \in Fds
            /\ table[fdes[1]][1] = "r" /\ table[fdes[2]][1] = "w"
        BY <1>7, <2>4
      <3>2. table' = [table EXCEPT ![fdes[1]] = Free] /\ pc' = [pc EXCEPT ![t] = "close1"]
        BY <1>7, <2>4, <3>1 DEF ClosePipe, CloseAt, Close
      <3>3. \A u \in Threads : HasPipe(u)' <=> u = t
        BY <1>7, <2>1, <2>2, <2>4, <3>2
      <3>4. \A u \in Threads : ~HasReadEnd(u)'
        BY <3>2, <3>3
      <3>5. \A fd \in Fds : table'[fd][1] # "r" /\ (table'[fd][1] = "w" <=> fd = fdes[2])
        BY <2>4, <3>1, <3>2 DEF Free
      <3> HIDE DEF TypeInv, OneInv, PipeInv, HasPipe, HasReadEnd
      <3>6. fdes' = fdes
        BY <2>1
      <3>7. fdes'[2] \in Fds /\ table'[fdes'[2]][1] = "w"
        BY <3>1, <3>5, <3>6
      <3>8. \A c \in Child : child'[c] # "read" /\ reading'[c] = 0
        BY <2>1, <2>3
      <3> QED
        BY <2>4, <3>3, <3>4, <3>5, <3>6, <3>7, <3>8 DEF PipeInv
    <2>5. CASE pc[t] = "close1"
      <3>1. fdes[2] \in Fds /\ table[fdes[2]][1] = "w"
        BY <1>7, <2>5
      <3>2. table' = [table EXCEPT ![fdes[2]] = Free] /\ pc' = [pc EXCEPT ![t] = "callback"]
        BY <1>7, <2>5, <3>1 DEF ClosePipe, CloseAt, Close
      <3>3. \A u \in Threads : ~HasPipe(u)'
        BY <2>2, <2>5, <3>2
      <3>4. \A fd \in Fds : table[fd][1] # "r"
        BY <2>2, <2>5
      <3>5. \A fd \in Fds : table'[fd][1] # "r" /\ table'[fd][1] # "w"
        BY <3>1, <3>2, <3>4 DEF Free
      <3> QED
        BY <2>1, <2>3, <3>3, <3>5
    <2> QED
      BY <1>7, <2>4, <2>5 DEF ClosePipe
  <1>8. ASSUME NEW t \in Threads, Callback(t) PROVE PipeInv'
    BY <1>8 DEF Callback
  <1>9. ASSUME NEW t \in Threads, Unlock(t) PROVE PipeInv'
    BY <1>9 DEF Unlock
  <1>10. ASSUME NEW t \in Threads, UpdateNextID(t) PROVE PipeInv'
    BY <1>10 DEF UpdateNextID
  <1>11. ASSUME NEW t \in Threads, ProgramOpens(t) PROVE PipeInv'
    <2>1. pc' = pc /\ reading' = reading
          /\ \A d \in Child : child'[d] = "read" <=> child[d] = "read"
      BY <1>11 DEF ProgramOpens
    <2> QED
      BY <1>11, <2>1, EndsStayed, EndsKeepPipe, Setting
  <1>12. ASSUME NEW t \in Threads, ProgramCloses(t) PROVE PipeInv'
    <2>1. pc' = pc /\ reading' = reading
          /\ \A d \in Child : child'[d] = "read" <=> child[d] = "read"
      BY <1>12 DEF ProgramCloses
    <2> QED
      BY <1>12, <2>1, EndsStayed, EndsKeepPipe, Setting
  <1>13. ASSUME NEW c \in Child, WaitForContinueSignal(c) PROVE PipeInv'
    <2>1. /\ UNCHANGED <<table, fdes, piped, pc>>
          /\ \A d \in Child \ {c} : child'[d] = child[d] /\ reading'[d] = reading[d]
          /\ child[c] \in {"start", "read"}
      BY <1>13 DEF WaitForContinueSignal
    <2>2. /\ child[c] = "read" => child'[c] = "open" /\ reading'[c] = 0
          /\ child[c] = "start" => \/ child'[c] = "open" /\ reading'[c] = reading[c]
                                  \/ /\ child'[c] = "read"
                                     /\ Object(memory[c].fd)[1] = "r"
                                     /\ reading'[c] = Object(memory[c].fd)[2]
      BY <1>13 DEF WaitForContinueSignal
    <2>3. child[c] = "start" /\ Object(memory[c].fd)[1] = "r" =>
             piped /\ Object(memory[c].fd)[2] = ThePipe
      <3>1. memory[c].fd = fdes[1] /\ Free[1] # "r"
        BY <2>1, Setting DEF Free
      <3> QED
        BY <3>1 DEF Object
    <2>4. \A d \in Child : IF child'[d] = "read" THEN piped /\ reading'[d] = ThePipe
                           ELSE reading'[d] = 0
      BY <2>1, <2>2, <2>3
    <2> QED
      BY <2>1, <2>4
  <1>14. ASSUME NEW c \in Child, OpenMinidump(c) PROVE PipeInv'
    <2>1. pc' = pc /\ reading' = reading
          /\ \A d \in Child : child'[d] = "read" <=> child[d] = "read"
      BY <1>14 DEF OpenMinidump
    <2> QED
      BY <1>14, <2>1, EndsStayed, EndsKeepPipe, Setting
  <1>15. ASSUME NEW c \in Child, AllSuspended(c) PROVE PipeInv'
    BY <1>15 DEF AllSuspended
  <1>16. ASSUME NEW c \in Child, ThreadInfoGet(c) PROVE PipeInv'
    <2>1. pc' = pc /\ reading' = reading
          /\ \A d \in Child : child'[d] = "read" <=> child[d] = "read"
      BY <1>16 DEF ThreadInfoGet
    <2> QED
      BY <1>16, <2>1, EndsStayed, EndsKeepPipe, Setting
  <1>17. ASSUME NEW c \in Child, WriteStreams(c) PROVE PipeInv'
    BY <1>17 DEF WriteStreams
  <1>18. ASSUME NEW c \in Child, DestroyWriter(c) PROVE PipeInv'
    <2>1. pc' = pc /\ reading' = reading
          /\ \A d \in Child : child'[d] = "read" <=> child[d] = "read"
      BY <1>18 DEF DestroyWriter
    <2> QED
      BY <1>18, <2>1, EndsStayed, EndsKeepPipe, Setting
  <1>19. ASSUME NEW c \in Child, ChildDies(c) PROVE PipeInv'
    BY <1>19 DEF ChildDies
  <1>20. ASSUME \/ \E c \in Child : SuspendThread(c)
                \/ OtherExits
                \/ UNCHANGED vars
        PROVE  PipeInv'
    <2>1. UNCHANGED <<table, fdes, piped, pc, child, reading>>
      BY <1>20
      DEF SuspendThread, OtherExits, vars
    <2> QED
      BY <2>1
  <1> HIDE DEF DumpInv, TypeInv, OneInv, PipeInv, HasPipe, HasReadEnd, ThePipe, Dumping,
               MayBegin, Goto, ChildGoto, None, Exited, ChildStates, fdVars, childVars,
               fileVars, traceVars, threadVars, restVars, bounds
  <1>a. ASSUME NEW t \in Threads, GenerateDump(t) PROVE PipeInv'
    BY <1>0, <1>22, <1>2, <1>3, <1>4, <1>5, <1>6, <1>7, <1>8, <1>9, <1>10, <1>a DEF GenerateDump
  <1>b. ASSUME NEW c \in Child, ThreadEntry(c) PROVE PipeInv'
    BY <1>13, <1>14, <1>20, <1>15, <1>16, <1>17, <1>18, <1>b DEF ThreadEntry
  <1> QED
    BY <1>a, <1>b, <1>1, <1>11, <1>12, <1>19, <1>20 DEF Next

-----------------------------------------------------------------------------
(* The gate: the clone goes on when its thread has named it the tracer. *)

\* The pipe is that of fdes and of the table.
LEMMA PipeKept ==
    ASSUME DumpInv, NEW t \in Threads, HasReadEnd(t), UNCHANGED <<table, fdes>>
    PROVE  ThePipe' = ThePipe
  BY DEF ThePipe

\* No byte is in the pipe before PR_SET_PTRACER, and no clone is past it.
LEMMA GateStays ==
    ASSUME ~Overlap, DumpInv, [Next]_vars
    PROVE  GateInv'
  <1> USE Setting
      DEF DumpInv, TypeInv, OneInv, PipeInv, GateInv, HasPipe, HasReadEnd, Working,
          Dumping, MayBegin, Goto, ChildGoto, None, Exited, ChildStates, fdVars,
          childVars, fileVars, traceVars, threadVars, restVars, bounds
  <1>1. ASSUME NEW t \in Threads, Begin(t) PROVE GateInv'
    BY <1>1 DEF Begin
  <1>0. ASSUME NEW t \in Threads, Pipe(t), ~piped' PROVE GateInv'
    <2>1. /\ pc[t] = "pipe" /\ pc' = [pc EXCEPT ![t] = "clone"]
          /\ UNCHANGED <<child, pid, ptracer>>
      BY <1>0 DEF Pipe
    <2> QED
      BY <1>0, <2>1
  <1>2. ASSUME NEW t \in Threads, Pipe(t), piped' PROVE GateInv'
    <2>1. PICK p \in Pipes, r \in Fds, w \in Fds :
             /\ r # w
             /\ table' = [table EXCEPT ![r] = <<"r", p>>, ![w] = <<"w", p>>]
             /\ bytes' = [bytes EXCEPT ![p] = 0]
             /\ fdes' = <<r, w>>
      <3> HIDE DEF DumpInv
      <3> QED
        BY <1>2, PipeEffect
    <2>2. /\ pc[t] = "pipe" /\ pc' = [pc EXCEPT ![t] = "clone"]
          /\ UNCHANGED <<child, pid, ptracer>>
      BY <1>2 DEF Pipe
    <2>3. \A u \in Threads : Dumping(u) => u = t
      BY <2>2
    <2>4. ThePipe' = p /\ bytes'[p] = 0
      BY <2>1 DEF ThePipe
    <2>5. \A c \in Child : child[c] = None
      BY <2>2, Setting
    <2> QED
      BY <2>2, <2>3, <2>4, <2>5
  <1>3. ASSUME NEW t \in Threads, Clone(t) PROVE GateInv'
    <2>1. /\ UNCHANGED <<table, fdes, piped, bytes>>
          /\ pc' = [pc EXCEPT ![t] = "ptracer"]
          /\ \A d \in Child \ {t} : child'[d] = child[d]
          /\ child'[t] \in {None, "start"}
      BY <1>3, Setting DEF Clone
    <2>2. \A u \in Threads \ {t} : pid'[u] = pid[u]
      BY <1>3 DEF Clone
    <2>3. (piped => bytes[ThePipe] = 0) /\ ThePipe' = ThePipe
      BY <1>3, <2>1 DEF Clone, ThePipe
    <2>4. pc[t] = "clone" /\ \A u \in Threads : Dumping(u) => u = t
      BY <1>3 DEF Clone
    <2>5. \A d \in Child : child'[d] \in {None, "start"}
      <3>1. \A d \in Child : child[d] # None => Dumping(d)
        BY Setting
      <3>2. \A d \in Child \ {t} : child[d] = None
        BY <2>4, <3>1, Setting
      <3> QED
        BY <2>1, <3>2
    <2>6. \A u \in Threads : pc'[u] \notin {"write", "wait"}
      BY <2>1, <2>4
    <2> HIDE DEF DumpInv
    <2> QED
      BY <2>1, <2>3, <2>5, <2>6
  <1>4. ASSUME NEW t \in Threads, SetPtracer(t) PROVE GateInv'
    BY <1>4 DEF SetPtracer, ThePipe
  <1>5. ASSUME NEW t \in Threads, SendContinueSignalToChild(t) PROVE GateInv'
    BY <1>5 DEF SendContinueSignalToChild, ThePipe
  <1>6. ASSUME NEW t \in Threads, Waitpid(t) PROVE GateInv'
    BY <1>6 DEF Waitpid
  <1>7. ASSUME NEW t \in Threads, ClosePipe(t) PROVE GateInv'
    BY <1>7 DEF ClosePipe, ThePipe
  <1>8. ASSUME NEW t \in Threads, Callback(t) PROVE GateInv'
    BY <1>8 DEF Callback
  <1>9. ASSUME NEW t \in Threads, Unlock(t) PROVE GateInv'
    BY <1>9 DEF Unlock
  <1>10. ASSUME NEW t \in Threads, UpdateNextID(t) PROVE GateInv'
    BY <1>10 DEF UpdateNextID
  <1>11. ASSUME NEW t \in Threads, ProgramOpens(t) PROVE GateInv'
    <2>1. /\ pc' = pc /\ reading' = reading /\ ptracer' = ptracer /\ pid' = pid
          /\ \A d \in Child : child'[d] = "read" <=> child[d] = "read"
      BY <1>11 DEF ProgramOpens
    <2>2. (\A u \in Threads : HasReadEnd(u) => ThePipe' = ThePipe) /\ UNCHANGED <<bytes, piped>>
      BY <1>11, <2>1, EndsStayed, EndsKeepPipe, Setting DEF EndsStay
    <2>3. \A d \in Child : child'[d] \in {"open", "exit0", "exit1"} \cup Working =>
             child[d] \in {"open", "exit0", "exit1"} \cup Working
      BY <1>11 DEF ProgramOpens
    <2> QED
      BY <2>1, <2>2, <2>3
  <1>12. ASSUME NEW t \in Threads, ProgramCloses(t) PROVE GateInv'
    <2>1. /\ pc' = pc /\ reading' = reading /\ ptracer' = ptracer /\ pid' = pid
          /\ \A d \in Child : child'[d] = "read" <=> child[d] = "read"
      BY <1>12 DEF ProgramCloses
    <2>2. (\A u \in Threads : HasReadEnd(u) => ThePipe' = ThePipe) /\ UNCHANGED <<bytes, piped>>
      BY <1>12, <2>1, EndsStayed, EndsKeepPipe, Setting DEF EndsStay
    <2>3. \A d \in Child : child'[d] \in {"open", "exit0", "exit1"} \cup Working =>
             child[d] \in {"open", "exit0", "exit1"} \cup Working
      BY <1>12 DEF ProgramCloses
    <2> QED
      BY <2>1, <2>2, <2>3
  <1>21. ASSUME NEW c \in Child, WaitForContinueSignal(c), ~piped PROVE GateInv'
    <2>1. UNCHANGED <<piped, pc, pid, ptracer>>
      BY <1>21 DEF WaitForContinueSignal
    <2> QED
      BY <1>21, <2>1
  <1>13. ASSUME NEW c \in Child, WaitForContinueSignal(c), piped PROVE GateInv'
    <2>1. UNCHANGED <<table, fdes, piped, pc, pid, ptracer>>
      BY <1>13 DEF WaitForContinueSignal
    <2>2. HasReadEnd(c) /\ Object(memory[c].fd) = <<"r", ThePipe>> /\ ThePipe' = ThePipe
      BY <1>13, <2>1, Setting DEF WaitForContinueSignal, Object, ThePipe
    <2>3. CASE child[c] = "start"
      <3>1. child' = [child EXCEPT ![c] = "read"] /\ bytes' = bytes
        BY <1>13, <2>2, <2>3 DEF WaitForContinueSignal
      <3> QED
        BY <2>1, <2>2, <3>1, Setting
    <2>4. CASE child[c] = "read"
      <3>1. reading[c] = ThePipe /\ Writers(ThePipe)
        BY <2>2, <2>4, Setting DEF Writers
      <3>2. bytes[ThePipe] > 0 /\ pc[c] = "wait"
        BY <1>13, <2>4, <3>1, Setting DEF WaitForContinueSignal
      <3>3. \A u \in Threads : pc[u] \notin {"clone", "ptracer", "write"}
        BY <3>2, Setting
      <3>4. child' = [child EXCEPT ![c] = "open"]
        BY <1>13, <2>4 DEF WaitForContinueSignal
      <3> QED
        BY <2>1, <3>2, <3>3, <3>4, Setting
    <2> QED
      BY <1>13, <2>3, <2>4 DEF WaitForContinueSignal
  <1>14. ASSUME NEW c \in Child, OpenMinidump(c) PROVE GateInv'
    <2>1. /\ pc' = pc /\ reading' = reading /\ ptracer' = ptracer /\ pid' = pid
          /\ \A d \in Child : child'[d] = "read" <=> child[d] = "read"
      BY <1>14 DEF OpenMinidump
    <2>2. (\A u \in Threads : HasReadEnd(u) => ThePipe' = ThePipe) /\ UNCHANGED <<bytes, piped>>
      BY <1>14, <2>1, EndsStayed, EndsKeepPipe, Setting DEF EndsStay
    <2>3. \A d \in Child : child'[d] \in {"open", "exit0", "exit1"} \cup Working =>
             child[d] \in {"open", "exit0", "exit1"} \cup Working
      BY <1>14 DEF OpenMinidump
    <2> QED
      BY <2>1, <2>2, <2>3
  <1>15. ASSUME NEW c \in Child, AllSuspended(c) PROVE GateInv'
    BY <1>15 DEF AllSuspended
  <1>16. ASSUME NEW c \in Child, ThreadInfoGet(c) PROVE GateInv'
    <2>1. /\ pc' = pc /\ reading' = reading /\ ptracer' = ptracer /\ pid' = pid
          /\ \A d \in Child : child'[d] = "read" <=> child[d] = "read"
      BY <1>16 DEF ThreadInfoGet
    <2>2. (\A u \in Threads : HasReadEnd(u) => ThePipe' = ThePipe) /\ UNCHANGED <<bytes, piped>>
      BY <1>16, <2>1, EndsStayed, EndsKeepPipe, Setting DEF EndsStay
    <2>3. \A d \in Child : child'[d] \in {"open", "exit0", "exit1"} \cup Working =>
             child[d] \in {"open", "exit0", "exit1"} \cup Working
      BY <1>16 DEF ThreadInfoGet
    <2> QED
      BY <2>1, <2>2, <2>3
  <1>17. ASSUME NEW c \in Child, WriteStreams(c) PROVE GateInv'
    BY <1>17 DEF WriteStreams
  <1>18. ASSUME NEW c \in Child, DestroyWriter(c) PROVE GateInv'
    <2>1. /\ pc' = pc /\ reading' = reading /\ ptracer' = ptracer /\ pid' = pid
          /\ \A d \in Child : child'[d] = "read" <=> child[d] = "read"
      BY <1>18 DEF DestroyWriter
    <2>2. (\A u \in Threads : HasReadEnd(u) => ThePipe' = ThePipe) /\ UNCHANGED <<bytes, piped>>
      BY <1>18, <2>1, EndsStayed, EndsKeepPipe, Setting DEF EndsStay
    <2>3. \A d \in Child : child'[d] \in {"open", "exit0", "exit1"} \cup Working =>
             child[d] \in {"open", "exit0", "exit1"} \cup Working
      BY <1>18 DEF DestroyWriter
    <2> QED
      BY <2>1, <2>2, <2>3
  <1>19. ASSUME NEW c \in Child, ChildDies(c) PROVE GateInv'
    BY <1>19 DEF ChildDies, ThePipe
  <1>20. ASSUME \/ \E c \in Child : SuspendThread(c)
                \/ OtherExits
                \/ UNCHANGED vars
        PROVE  GateInv'
    <2>1. UNCHANGED <<table, fdes, piped, bytes, pc, pid, child, ptracer>>
      BY <1>20
      DEF SuspendThread, OtherExits, vars
    <2> QED
      BY <2>1 DEF ThePipe
  <1> HIDE DEF DumpInv, TypeInv, OneInv, PipeInv, GateInv, HasPipe, HasReadEnd, Working,
               Dumping, MayBegin, Goto, ChildGoto, None, Exited, ChildStates, fdVars,
               childVars, fileVars, traceVars, threadVars, restVars, bounds
  <1>a. ASSUME NEW t \in Threads, GenerateDump(t) PROVE GateInv'
    BY <1>0, <1>2, <1>3, <1>4, <1>5, <1>6, <1>7, <1>8, <1>9, <1>10, <1>a DEF GenerateDump
  <1>b. ASSUME NEW c \in Child, ThreadEntry(c) PROVE GateInv'
    BY <1>21, <1>13, <1>14, <1>20, <1>15, <1>16, <1>17, <1>18, <1>b DEF ThreadEntry
  <1> QED
    BY <1>a, <1>b, <1>1, <1>11, <1>12, <1>19, <1>20 DEF Next

-----------------------------------------------------------------------------
(* What the clone traces and writes. *)

\* The clone attaches to the thread that made it, as its tracer.
LEMMA TraceStays ==
    ASSUME ~Overlap, DumpInv, [Next]_vars
    PROVE  TraceInv'
  <1> USE Setting
      DEF DumpInv, TypeInv, OneInv, GateInv, TraceInv, Working, Suspended, Goto,
          ChildGoto, None, Exited, ChildStates, fdVars, childVars, fileVars, traceVars,
          threadVars, restVars, bounds
  <1>1. ASSUME NEW t \in Threads, Clone(t) PROVE TraceInv'
    BY <1>1 DEF Clone
  <1>2. ASSUME NEW t \in Threads, Waitpid(t) PROVE TraceInv'
    BY <1>2 DEF Waitpid
  <1>3. ASSUME NEW c \in Child, WaitForContinueSignal(c) PROVE TraceInv'
    <2>1. /\ UNCHANGED <<tracer, todo, piped>> /\ child[c] \in {"start", "read"}
          /\ child'[c] \in {"read", "open"} /\ \A d \in Child \ {c} : child'[d] = child[d]
      BY <1>3 DEF WaitForContinueSignal
    <2>2. \A d \in Child : /\ child'[d] \in Working <=> child[d] \in Working
                           /\ child'[d] = "suspend" <=> child[d] = "suspend"
                           /\ child'[d] = "dump" <=> child[d] = "dump"
      BY <2>1
    <2>3. TraceInv /\ tracer \in [Threads -> Child \cup {None}]
      OBVIOUS
    <2> HIDE DEF DumpInv, TypeInv, OneInv, GateInv, Working, ChildStates, Exited
    <2>4. \A u \in Threads : tracer'[u] # None => child'[tracer'[u]] \in Working
      BY <2>1, <2>2, <2>3
    <2>5. \A d \in Child : child'[d] = "suspend" =>
             /\ \A u \in todo'[d] : tracer'[u] = None
             /\ piped' /\ d \notin todo'[d] => tracer'[d] = d
      BY <2>1, <2>2, <2>3
    <2>6. \A d \in Child : child'[d] = "dump" => (piped' => tracer'[d] = d) /\ d \notin todo'[d]
      BY <2>1, <2>2, <2>3
    <2> QED
      BY <2>4, <2>5, <2>6
  <1>4. ASSUME NEW c \in Child, OpenMinidump(c) PROVE TraceInv'
    <2>1. /\ UNCHANGED <<tracer, piped>> /\ child[c] = "open"
          /\ \A d \in Child \ {c} : child'[d] = child[d]
          /\ \/ child'[c] = "suspend" /\ todo' = [todo EXCEPT ![c] = Threads]
             \/ child'[c] = "exit1" /\ todo' = todo
      BY <1>4 DEF OpenMinidump
    <2>2. \A d \in Child \ {c} : child[d] = None
      <3>1. \A d \in Child : child[d] # None => Dumping(d)
        BY Setting DEF Dumping
      <3> QED
        BY <2>1, <3>1, Setting
    <2>3. \A u \in Threads : tracer[u] = None
      BY <2>1, <2>2
    <2>4. todo'[c] = Threads \/ child'[c] = "exit1"
      BY <2>1
    <2>5. \A d \in Child : child'[d] # "dump" /\ (child'[d] = "suspend" => todo'[d] = Threads /\ d \in Threads)
      BY <2>1, <2>2, <2>4, Setting
    <2> HIDE DEF DumpInv, TypeInv, OneInv, GateInv
    <2> QED
      BY <2>1, <2>3, <2>5
  <1>5. ASSUME NEW c \in Child, SuspendThread(c) PROVE TraceInv'
    <2>1. child[c] = "suspend" /\ child' = child
      BY <1>5 DEF SuspendThread
    <2>a. /\ c \in Threads /\ pc[c] \in {"ptracer", "write", "wait"} /\ pid[c]
          /\ piped => pc[c] = "wait"
      BY <2>1, Setting
    <2>b. (piped => ptracer = c) /\ c \in Crashers \cup Callers
      BY <2>a DEF Dumping
    <2>2. /\ pc[c] \in {"ptracer", "write", "wait"} /\ (piped => ptracer = c)
          /\ c \in Crashers \cup Callers /\ \A u \in todo[c] : tracer[u] = None
          /\ piped' = piped
      BY <1>5, <2>1, <2>a, <2>b, Setting DEF SuspendThread
    <2>3. \A d \in Child : child[d] # None => d = c
      <3>1. \A d \in Child : child[d] # None => Dumping(d)
        BY Setting DEF Dumping
      <3>2. \A d \in Child : Dumping(d) => d = c
        BY <2>2, Setting DEF Dumping
      <3> QED
        BY <3>1, <3>2
    <2>0. PICK u \in todo[c] :
             /\ todo' = [todo EXCEPT ![c] = todo[c] \ {u}]
             /\ \/ tracer[u] = None /\ tracer' = [tracer EXCEPT ![u] = c]
                \/ /\ tracer[u] # None \/ (Yama /\ ptracer # c) \/ u \notin Crashers \cup Callers
                   /\ tracer' = tracer
      BY <1>5 DEF SuspendThread
    <2>5. u \in Threads
      BY <2>0, Setting
    <2>14. tracer \in [Threads -> Child \cup {None}]
      OBVIOUS
    <2> HIDE DEF DumpInv, OneInv, GateInv
    <2>4. \/ tracer[u] = None /\ tracer' = [tracer EXCEPT ![u] = c]
          \/ (piped => u # c) /\ tracer' = tracer
      BY <2>0, <2>2
    <2> USE DEF DumpInv
    <2>9. \A v \in Threads : tracer'[v] = IF v = u /\ tracer' # tracer THEN c ELSE tracer[v]
      BY <2>4, <2>5
    <2>10. /\ \A v \in todo'[c] : v # u /\ v \in todo[c]
           /\ c \notin todo'[c] => c = u \/ c \notin todo[c]
      BY <2>0, Setting
    <2>11. tracer'[u] = c \/ ((piped => u # c) /\ tracer'[u] = tracer[u])
      <3>1. CASE tracer' = [tracer EXCEPT ![u] = c]
        BY <2>5, <2>14, <3>1
      <3> QED
        BY <2>4, <3>1
    <2>12. /\ \A v \in todo'[c] : tracer'[v] = None
           /\ piped /\ c \notin todo'[c] => tracer'[c] = c
      BY <2>1, <2>2, <2>5, <2>9, <2>10, <2>11, Setting
    <2>6. \A d \in Child : child'[d] = "suspend" =>
             /\ \A v \in todo'[d] : tracer'[v] = None
             /\ piped' /\ d \notin todo'[d] => tracer'[d] = d
      BY <2>1, <2>2, <2>3, <2>12
    <2>7. \A v \in Threads : tracer'[v] # None => child'[tracer'[v]] \in Working
      BY <2>1, <2>9, Setting
    <2>8. \A d \in Child : child'[d] = "dump" => (piped' => tracer'[d] = d) /\ d \notin todo'[d]
      BY <2>1, <2>3
    <2> HIDE DEF DumpInv, TypeInv, ChildStates, Exited, Working
    <2> QED
      BY <2>6, <2>7, <2>8
  <1>6. ASSUME NEW c \in Child, AllSuspended(c) PROVE TraceInv'
    BY <1>6 DEF AllSuspended
  <1>7. ASSUME NEW c \in Child, ThreadInfoGet(c) PROVE TraceInv'
    BY <1>7 DEF ThreadInfoGet
  <1>8. ASSUME NEW c \in Child, WriteStreams(c) PROVE TraceInv'
    BY <1>8 DEF WriteStreams
  <1>9. ASSUME NEW c \in Child, DestroyWriter(c) PROVE TraceInv'
    BY <1>9 DEF DestroyWriter
  <1>10. ASSUME NEW c \in Child, ChildDies(c) PROVE TraceInv'
    BY <1>10 DEF ChildDies
  <1>12. ASSUME NEW t \in Threads, Pipe(t) PROVE TraceInv'
    <2>1. UNCHANGED <<child, todo, tracer>> /\ \A c \in Child : child[c] = None
      BY <1>12, Setting DEF Pipe, Dumping
    <2> HIDE DEF DumpInv
    <2> QED
      BY <2>1 DEF DumpInv
  <1>11. ASSUME \/ \E t \in Threads : Begin(t) \/ SetPtracer(t) \/
                                      SendContinueSignalToChild(t) \/ ClosePipe(t) \/
                                      Callback(t) \/ Unlock(t) \/ UpdateNextID(t) \/
                                      ProgramOpens(t) \/ ProgramCloses(t)
                \/ OtherExits
                \/ UNCHANGED vars
        PROVE  TraceInv'
    <2>1. UNCHANGED <<child, todo, tracer, piped>>
      BY <1>11
      DEF Begin, SetPtracer, SendContinueSignalToChild, ClosePipe, Callback,
          Unlock, UpdateNextID, ProgramOpens, ProgramCloses, OtherExits, vars
    <2> QED
      BY <2>1
  <1> HIDE DEF DumpInv, TypeInv, OneInv, GateInv, TraceInv, Working, Suspended, Goto,
               ChildGoto, None, Exited, ChildStates, fdVars, childVars, fileVars,
               traceVars, threadVars, restVars, bounds
  <1>a. ASSUME NEW t \in Threads, GenerateDump(t) PROVE TraceInv'
    BY <1>11, <1>12, <1>1, <1>2, <1>a DEF GenerateDump
  <1>b. ASSUME NEW c \in Child, ThreadEntry(c) PROVE TraceInv'
    BY <1>3, <1>4, <1>5, <1>6, <1>7, <1>8, <1>9, <1>b DEF ThreadEntry
  <1> QED
    BY <1>a, <1>b, <1>11, <1>10 DEF Next

\* open() takes no descriptor of a minidump.
LEMMA OtherFilesStay ==
    ASSUME TypeInv, NEW o, \/ Open(o)
                           \/ UNCHANGED table
                           \/ \E fd \in Fds : table[fd] = Program /\ table' = [table EXCEPT ![fd] = Free]
    PROVE  \A d \in Child : (\E fd \in Fds : table[fd] = Minidump(d)) =>
                           \E fd \in Fds : table'[fd] = Minidump(d)
  BY OpenEffect DEF TypeInv, Minidump, Free, Program

\* A minidump that was written stays.
LEMMA DumpedStays ==
    ASSUME files \subseteq files', NEW t, NEW id, NEW p, Dumped(t, id, p)
    PROVE  Dumped(t, id, p)'
  BY DEF Dumped

\* A step that leaves the threads and their clones where they are.
LEMMA FilesKept ==
    ASSUME FileInv, UNCHANGED <<child, pc, pid, success, files, nextId, told, piped, other>>,
           \A d \in Child : (\E fd \in Fds : table[fd] = Minidump(d)) =>
                              \E fd \in Fds : table'[fd] = Minidump(d)
    PROVE  FileInv'
  <1>1. \A u, id, p : Dumped(u, id, p)' <=> Dumped(u, id, p)
    BY DEF Dumped
  <1> QED
    BY <1>1 DEF FileInv, TookAnother

\* The clone of a dump has its file, and what was said to be written is.
LEMMA FilesStay ==
    ASSUME ~Overlap, DumpInv, [Next]_vars
    PROVE  FileInv'
  <1> USE Setting, DumpedStays
      DEF DumpInv, TypeInv, OneInv, FileInv, GateInv, TraceInv, Working, Dumping, TookAnother,
          MayBegin, Goto, ChildGoto, None, Exited, ChildStates, fdVars, childVars,
          fileVars, traceVars, threadVars, restVars, bounds
  <1>1. ASSUME NEW t \in Threads, Begin(t) PROVE FileInv'
    BY <1>1 DEF Begin
  <1>2. ASSUME NEW t \in Threads, Pipe(t) PROVE FileInv'
    BY <1>2 DEF Pipe
  <1>3. ASSUME NEW t \in Threads, Clone(t) PROVE FileInv'
    BY <1>3 DEF Clone
  <1>4. ASSUME NEW t \in Threads, SetPtracer(t) PROVE FileInv'
    BY <1>4 DEF SetPtracer
  <1>5. ASSUME NEW t \in Threads, SendContinueSignalToChild(t) PROVE FileInv'
    BY <1>5 DEF SendContinueSignalToChild
  <1>6. ASSUME NEW t \in Threads, Waitpid(t) PROVE FileInv'
    <2>1. /\ UNCHANGED <<table, files, nextId, told, piped, pid>> /\ pc[t] = "wait"
          /\ pc' = [pc EXCEPT ![t] = "close0"]
          /\ \A d \in Child : child'[d] = child[d] \/ child'[d] = None
          /\ success' = [success EXCEPT ![t] = success'[t]]
          /\ other = "reaped" => other' = "reaped"
      BY <1>6 DEF Waitpid
    <2>2. \A c \in Child : child[c] # None => c = t /\ pid[t]
      <3>1. \A c \in Child : child[c] # None => Dumping(c) /\ pid[c]
        BY Setting
      <3> QED
        BY <2>1, <3>1, Setting
    <2>3. success'[t] => child[t] = "exit0" \/ (~pid[t] /\ TookAnother')
      <3>1. CASE pid[t]
        <4> HIDE DEF DumpInv
        <4>1. \/ success' = [success EXCEPT ![t] = (child[t] = "exit0")]
              \/ success' = [success EXCEPT ![t] = FALSE]
          BY <1>6, <3>1 DEF Waitpid
        <4>2. success \in [Threads -> BOOLEAN]
          BY DEF DumpInv
        <4> QED
          BY <4>1, <4>2
      <3>2. CASE ~pid[t]
        <4>1. \A c \in Child : child[c] \notin Exited
          BY <2>2, <3>2
        <4> HIDE DEF DumpInv
        <4>2. \/ success' = [success EXCEPT ![t] = (OtherStatus = 0)] /\ other' = "reaped"
              \/ success' = [success EXCEPT ![t] = FALSE]
          BY <1>6, <3>2, <4>1 DEF Waitpid
        <4>3. success \in [Threads -> BOOLEAN]
          BY DEF DumpInv
        <4> QED
          BY <3>2, <4>2, <4>3
      <3> QED
        BY <3>1, <3>2
    <2>4. \A u, id, p : Dumped(u, id, p)' <=> Dumped(u, id, p)
      BY <2>1 DEF Dumped
    <2> QED
      BY <2>1, <2>3, <2>4, Setting
  <1>7. ASSUME NEW t \in Threads, ClosePipe(t) PROVE FileInv'
    BY <1>7 DEF ClosePipe
  <1>8. ASSUME NEW t \in Threads, Callback(t) PROVE FileInv'
    BY <1>8 DEF Callback
  <1>9. ASSUME NEW t \in Threads, Unlock(t) PROVE FileInv'
    BY <1>9 DEF Unlock
  <1>10. ASSUME NEW t \in Threads, UpdateNextID(t) PROVE FileInv'
    BY <1>10 DEF UpdateNextID
  <1>11. ASSUME NEW t \in Threads, ProgramOpens(t) PROVE FileInv'
    <2>1. \A d \in Child : (\E fd \in Fds : table[fd] = Minidump(d)) =>
                             \E fd \in Fds : table'[fd] = Minidump(d)
      BY <1>11, OtherFilesStay, Setting DEF ProgramOpens
    <2>2. UNCHANGED <<child, pc, pid, success, files, nextId, told, piped, other>>
      BY <1>11 DEF ProgramOpens
    <2> QED
      BY <2>1, <2>2, FilesKept
  <1>12. ASSUME NEW t \in Threads, ProgramCloses(t) PROVE FileInv'
    <2>1. \A d \in Child : (\E fd \in Fds : table[fd] = Minidump(d)) =>
                             \E fd \in Fds : table'[fd] = Minidump(d)
      BY <1>12, OtherFilesStay, Setting DEF ProgramCloses, Close
    <2>2. UNCHANGED <<child, pc, pid, success, files, nextId, told, piped, other>>
      BY <1>12 DEF ProgramCloses
    <2> QED
      BY <2>1, <2>2, FilesKept
  <1>13. ASSUME NEW c \in Child, WaitForContinueSignal(c) PROVE FileInv'
    BY <1>13 DEF WaitForContinueSignal
  <1>14. ASSUME NEW c \in Child, OpenMinidump(c) PROVE FileInv'
    <2>1. \A d \in Child : (\E fd \in Fds : table[fd] = Minidump(d)) =>
                             \E fd \in Fds : table'[fd] = Minidump(d)
      BY <1>14, OtherFilesStay, Setting DEF OpenMinidump
    <2>2. /\ UNCHANGED <<nextId, pc, pid, success, told, piped, other>>
          /\ memory[c].id = nextId /\ files \subseteq files'
          /\ \A d \in Child \ {c} : child'[d] = child[d]
          /\ child'[c] \in {"suspend", "exit1"}
      BY <1>14 DEF OpenMinidump
    <2>4. Open(Minidump(c)) => \E fd \in Fds : table'[fd] = Minidump(c)
      BY OpenEffect, <1>14 DEF DumpInv, TypeInv
    <2>3. child'[c] = "suspend" => /\ \E fd \in Fds : table'[fd] = Minidump(c)
                                  /\ \E f \in files' : f.id = nextId /\ f.by = c
      <3> DEFINE new == [id |-> memory[c].id, by |-> c, with |-> {}, done |-> FALSE]
      <3>1. child'[c] = "suspend" => Open(Minidump(c)) /\ files' = files \cup {new}
        BY <1>14 DEF OpenMinidump
      <3>2. new.id = memory[c].id /\ new.by = c
        OBVIOUS
      <3> QED
        BY <2>2, <2>4, <3>1, <3>2
    <2>5. child'[c] = "suspend" => \A f \in files' : f.id = nextId => f.with = {}
      <3> DEFINE new == [id |-> memory[c].id, by |-> c, with |-> {}, done |-> FALSE]
      <3>1. child'[c] = "suspend" => /\ files' = files \cup {new}
                                    /\ \A f \in files : f.id # memory[c].id
        BY <1>14 DEF OpenMinidump
      <3>2. new.with = {}
        OBVIOUS
      <3> QED
        BY <2>2, <3>1, <3>2
    <2>6. \A d \in Child \ {c} : child[d] = None
      <3>1. child[c] = "open" /\ \A d \in Child : child[d] # None => Dumping(d)
        BY <1>14, Setting DEF OpenMinidump
      <3> QED
        BY <3>1, Setting
    <2> QED
      BY <2>1, <2>2, <2>3, <2>5, <2>6
  <1>15. ASSUME NEW c \in Child, AllSuspended(c) PROVE FileInv'
    BY <1>15 DEF AllSuspended
  <1>16. ASSUME NEW c \in Child, ThreadInfoGet(c) PROVE FileInv'
    <2>1. \A d \in Child : (\E fd \in Fds : table[fd] = Minidump(d)) =>
                             \E fd \in Fds : table'[fd] = Minidump(d)
      BY <1>16, OtherFilesStay, Setting DEF ThreadInfoGet
    <2> QED
      BY <1>16, <2>1 DEF ThreadInfoGet
  <1>17. ASSUME NEW c \in Child, WriteStreams(c) PROVE FileInv'
    <2>1. /\ UNCHANGED <<table, nextId, pc, pid, success, told, piped, other>>
          /\ child[c] = "dump"
          /\ \A d \in Child \ {c} : child'[d] = child[d]
          /\ child'[c] \in {"written", "failed"}
      BY <1>17, Setting DEF WriteStreams
    <2>2. CASE files' = {Completed(f, c) : f \in files}
      <3>1. (piped => c \in Suspended(c)) /\ memory[c].id = nextId
        BY <2>1, Setting DEF Suspended
      <3>2. \A f \in files : /\ Completed(f, c).id = f.id /\ Completed(f, c).by = f.by
                             /\ f.done => Completed(f, c).done
                             /\ f.by \in f.with => f.by \in Completed(f, c).with
        <4> HIDE DEF DumpInv, TypeInv, OneInv, FileInv, GateInv, TraceInv
        <4> USE DEF FileInv
        <4>1. \A f \in files : f.id = nextId => f.with = {}
          BY <2>1 DEF DumpInv
        <4>2. memory[c].id = nextId
          BY <3>1
        <4> QED
          BY <4>1, <4>2 DEF Completed
      <3>7. \A f \in files : f.id = nextId /\ f.by = c =>
                 /\ Completed(f, c).done
                 /\ piped => c \in Completed(f, c).with
        <4> HIDE DEF DumpInv, TypeInv, OneInv, FileInv, GateInv, TraceInv
        <4>1. CASE c \in Suspended(c)
          BY <3>1, <4>1 DEF Completed
        <4>2. CASE ~piped
          BY <3>1, <4>2 DEF Completed
        <4> QED
          BY <3>1, <4>1, <4>2
      <3>3. \A u, id, p : Dumped(u, id, p) => Dumped(u, id, p)'
        BY <2>2, <3>2 DEF Dumped
      <3>4. Dumped(c, nextId, piped)'
        <4>1. PICK f \in files : f.id = nextId /\ f.by = c
          BY <2>1
        <4>2. Completed(f, c) \in files'
          BY <2>2
        <4> QED
          BY <2>1, <3>2, <3>7, <4>1, <4>2 DEF Dumped
      <3>5. \A d \in Child : (\E f \in files : f.id = nextId /\ f.by = d) =>
                               \E f \in files' : f.id = nextId /\ f.by = d
        BY <2>2, <3>2
      <3> QED
        BY <2>1, <3>3, <3>4, <3>5
    <2>3. CASE files' = files /\ child'[c] = "failed"
      <3>1. \A u, id, p : Dumped(u, id, p)' <=> Dumped(u, id, p)
        BY <2>3 DEF Dumped
      <3>2. /\ \A d \in Child : child'[d] \in Working => child[d] \in Working
            /\ \A d \in Child : child'[d] \in {"written", "exit0"} => child'[d] = child[d]
        BY <2>1, <2>3
      <3> HIDE DEF TypeInv, OneInv, GateInv, TraceInv, Working
      <3> QED
        BY <2>1, <2>3, <3>1, <3>2
    <2> QED
      BY <1>17, <2>2, <2>3 DEF WriteStreams
  <1>18. ASSUME NEW c \in Child, DestroyWriter(c) PROVE FileInv'
    BY <1>18 DEF DestroyWriter
  <1>19. ASSUME NEW c \in Child, ChildDies(c) PROVE FileInv'
    BY <1>19 DEF ChildDies
  <1>20. ASSUME \/ \E c \in Child : SuspendThread(c)
                \/ OtherExits
                \/ UNCHANGED vars
        PROVE  FileInv'
    <2>1. /\ UNCHANGED <<child, table, files, nextId, pc, pid, success, told, piped>>
          /\ other = "reaped" => other' = "reaped"
      BY <1>20
      DEF SuspendThread, OtherExits, vars
    <2> QED
      BY <2>1
  <1> HIDE DEF DumpInv, TypeInv, OneInv, FileInv, GateInv, TraceInv, Working, Dumping,
               TookAnother, MayBegin, Goto, ChildGoto, None, Exited, ChildStates, fdVars, childVars,
               fileVars, traceVars, threadVars, restVars, bounds
  <1>a. ASSUME NEW t \in Threads, GenerateDump(t) PROVE FileInv'
    BY <1>2, <1>3, <1>4, <1>5, <1>6, <1>7, <1>8, <1>9, <1>10, <1>a DEF GenerateDump
  <1>b. ASSUME NEW c \in Child, ThreadEntry(c) PROVE FileInv'
    BY <1>13, <1>14, <1>20, <1>15, <1>16, <1>17, <1>18, <1>b DEF ThreadEntry
  <1> QED
    BY <1>a, <1>b, <1>1, <1>11, <1>12, <1>19, <1>20 DEF Next

-----------------------------------------------------------------------------
(* What is read, written and closed is the pipe. *)

\* The descriptors that are used are those of the pipe.
LEMMA StaysUntouched ==
    ASSUME ~Overlap, DumpInv, [Next]_vars
    PROVE  TRUE \notin touched'
  <1> USE Setting
      DEF DumpInv, TypeInv, OneInv, PipeInv, HasPipe, HasReadEnd, Object, CloseAt,
          Close, Program, None, Goto, fdVars, childVars, fileVars, traceVars,
          threadVars, restVars, bounds
  <1>0. ASSUME NEW o, Touch(o), piped => o # Program PROVE TRUE \notin touched'
    BY <1>0 DEF Touch
  <1>1. ASSUME NEW t \in Threads, SendContinueSignalToChild(t) PROVE TRUE \notin touched'
    <2>1. piped => Object(fdes[2]) # Program
      BY <1>1 DEF SendContinueSignalToChild
    <2>2. Touch(Object(fdes[2]))
      BY <1>1 DEF SendContinueSignalToChild
    <2> QED
      BY <1>0, <2>1, <2>2
  <1>2. ASSUME NEW t \in Threads, ClosePipe(t) PROVE TRUE \notin touched'
    <2>1. /\ piped /\ pc[t] = "close0" => Object(fdes[1]) # Program
          /\ piped /\ pc[t] = "close1" => Object(fdes[2]) # Program
      BY <1>2 DEF ClosePipe
    <2>2. \/ pc[t] = "close0" /\ Touch(Object(fdes[1]))
          \/ pc[t] = "close1" /\ Touch(Object(fdes[2]))
      BY <1>2 DEF ClosePipe
    <2> QED
      BY <1>0, <2>1, <2>2
  <1>3. ASSUME NEW c \in Child, WaitForContinueSignal(c) PROVE TRUE \notin touched'
    <2>1. piped /\ child[c] = "start" => Object(memory[c].fd) # Program
      BY <1>3 DEF WaitForContinueSignal
    <2>2. \/ child[c] = "start" /\ Touch(Object(memory[c].fd))
          \/ touched' = touched
      BY <1>3 DEF WaitForContinueSignal
    <2> QED
      BY <1>0, <2>1, <2>2
  <1>4. ASSUME \/ \E t \in Threads : Begin(t) \/ Pipe(t) \/ Clone(t) \/ SetPtracer(t) \/
                                     Waitpid(t) \/ Callback(t) \/ Unlock(t) \/
                                     UpdateNextID(t) \/ ProgramOpens(t) \/
                                     ProgramCloses(t)
               \/ \E c \in Child : OpenMinidump(c) \/ SuspendThread(c) \/
                                   AllSuspended(c) \/ ThreadInfoGet(c) \/
                                   WriteStreams(c) \/ DestroyWriter(c) \/ ChildDies(c)
               \/ OtherExits
               \/ UNCHANGED vars
        PROVE  TRUE \notin touched'
    <2>1. UNCHANGED touched
      BY <1>4
      DEF Begin, Pipe, Clone, SetPtracer, Waitpid, Callback, Unlock, UpdateNextID,
          ProgramOpens, ProgramCloses, OpenMinidump, SuspendThread, AllSuspended,
          ThreadInfoGet, WriteStreams, DestroyWriter, ChildDies, OtherExits, vars
    <2> QED
      BY <2>1
  <1> HIDE DEF DumpInv, TypeInv, OneInv, PipeInv, HasPipe, HasReadEnd, Object, CloseAt,
               Close, Program, None, Goto, fdVars, childVars, fileVars, traceVars,
               threadVars, restVars, bounds
  <1>a. ASSUME NEW t \in Threads, GenerateDump(t) PROVE TRUE \notin touched'
    BY <1>4, <1>1, <1>2, <1>a DEF GenerateDump
  <1>b. ASSUME NEW c \in Child, ThreadEntry(c) PROVE TRUE \notin touched'
    BY <1>3, <1>4, <1>b DEF ThreadEntry
  <1> QED
    BY <1>a, <1>b, <1>4 DEF Next

-----------------------------------------------------------------------------
(* Counting the descriptors. *)

\* Sets of descriptors and of threads have a number of elements.
LEMMA Counts ==
    /\ \A S \in SUBSET Fds : IsFiniteSet(S) /\ Cardinality(S) \in Nat
    /\ \A S \in SUBSET Threads : IsFiniteSet(S) /\ Cardinality(S) \in Nat
    /\ \A S \in SUBSET Threads, t \in Threads :
          Cardinality(S \ {t}) <= Cardinality(Threads) - 1 /\ Cardinality(Threads) > 0
    /\ \A S \in SUBSET Threads : \A t \in S : Cardinality(S \ {t}) = Cardinality(S) - 1
  <1>1. \A S \in SUBSET Fds : IsFiniteSet(S) /\ Cardinality(S) \in Nat
    BY Setting, FS_Subset, FS_CardinalityType
  <1>2. \A S \in SUBSET Threads : IsFiniteSet(S) /\ Cardinality(S) \in Nat
    BY Setting, FS_Subset, FS_CardinalityType
  <1>3. ASSUME NEW S \in SUBSET Threads, NEW t \in Threads
        PROVE  Cardinality(S \ {t}) <= Cardinality(Threads) - 1 /\ Cardinality(Threads) > 0
    <2>1. Cardinality(Threads \ {t}) = Cardinality(Threads) - 1
      BY Setting, FS_RemoveElement
    <2>2. IsFiniteSet(Threads \ {t}) /\ S \ {t} \in SUBSET (Threads \ {t})
      BY <1>2
    <2>3. Cardinality(S \ {t}) <= Cardinality(Threads \ {t})
      BY <2>2, FS_Subset
    <2>4. Cardinality(Threads \ {t}) \in Nat /\ Cardinality(Threads) \in Nat
      BY <1>2
    <2> QED
      BY <2>1, <2>3, <2>4
  <1>4. ASSUME NEW S \in SUBSET Threads, NEW t \in S
        PROVE  Cardinality(S \ {t}) = Cardinality(S) - 1
    BY <1>2, FS_RemoveElement
  <1> QED
    BY <1>1, <1>2, <1>3, <1>4

\* A descriptor that is taken.
LEMMA UsedGrows ==
    ASSUME TypeInv, NEW fd \in Fds, table[fd] = Free, NEW o, o # Free,
           table' = [table EXCEPT ![fd] = o]
    PROVE  Cardinality(Used') = Cardinality(Used) + 1
  <1>1. Used' = Used \cup {fd} /\ fd \notin Used /\ Used \in SUBSET Fds
    BY DEF Used, TypeInv
  <1> QED
    BY <1>1, Counts, FS_AddElement

\* A descriptor that is given back.
LEMMA UsedShrinks ==
    ASSUME TypeInv, NEW fd \in Fds, table[fd] # Free,
           table' = [table EXCEPT ![fd] = Free]
    PROVE  Cardinality(Used') = Cardinality(Used) - 1
  <1>1. Used' = Used \ {fd} /\ fd \in Used /\ Used \in SUBSET Fds
    BY DEF Used, TypeInv
  <1> QED
    BY <1>1, Counts, FS_RemoveElement

\* open() takes one descriptor.
LEMMA OpenCounts ==
    ASSUME TypeInv, NEW o, o # Free, Open(o)
    PROVE  Cardinality(Used') = Cardinality(Used) + 1
  BY OpenEffect, UsedGrows

\* A dump that begins brings a descriptor for each thread, the program one for
\* each file.
LEMMA BudgetGrows ==
    ASSUME TypeInv, opens \in Nat
    PROVE  /\ Budget \in Nat
           /\ begun' = begun /\ opens' = opens => Budget' = Budget
           /\ begun' = begun + 1 /\ opens' = opens => Budget' = Budget + Cardinality(Threads)
           /\ begun' = begun /\ opens' = opens + 1 => Budget' = Budget + 1
  <1> DEFINE T == Cardinality(Threads)
  <1>1. T \in Nat
    BY Counts
  <1>2. ASSUME NEW b \in Nat PROVE b * T \in Nat /\ (b + 1) * T = b * T + T
    BY <1>1, <1>2
  <1>3. begun \in Nat
    BY Setting DEF TypeInv
  <1> HIDE DEF T
  <1>4. Budget = opens + begun * T /\ Budget' = opens' + begun' * T
    BY DEF Budget, T
  <1>5. begun * T \in Nat /\ (begun + 1) * T = begun * T + T
    BY <1>2, <1>3
  <1> QED
    BY <1>1, <1>4, <1>5 DEF T

\* What the clone may still open is a number.
LEMMA LeftIsNat ==
    ASSUME TypeInv, NEW t \in Threads
    PROVE  Left(t) \in Nat
  BY Setting, Counts DEF Left, TypeInv

\* A step of the only thread that dumps, or of its clone.
LEMMA DumperCounts ==
    ASSUME DumpInv, CountInv, NEW t \in Threads, Dumping(t),
           \A u \in Threads \ {t} : pc'[u] = pc[u], Dumping(t)',
           opens' = opens, begun' = begun, Left(t)' \in Nat,
           Cardinality(Used') + Left(t)' + Ends(t) <= Cardinality(Used) + Left(t) + Ends(t)'
    PROVE  CountInv'
  <1>1. \A u \in Threads : Dumping(u)' => u = t
    BY DEF DumpInv, OneInv, Dumping
  <1>2. Budget \in Nat /\ Budget' = Budget /\ opens' \in 0..MaxOpens
    BY BudgetGrows, Setting DEF CountInv, DumpInv
  <1>3. Used \in SUBSET Fds /\ Used' \in SUBSET Fds
    BY DEF Used
  <1>4. Cardinality(Used) \in Nat /\ Cardinality(Used') \in Nat
    BY <1>3, Counts
  <1>5. Left(t) \in Nat
    BY LeftIsNat DEF DumpInv
  <1>6. Ends(t) \in Nat /\ Ends(t)' \in Nat
    BY DEF Ends
  <1>7. Cardinality(Used) + Left(t) <= Budget + Ends(t)
    BY DEF CountInv
  <1>8. Cardinality(Used') + Left(t)' <= Budget' + Ends(t)'
    BY <1>2, <1>4, <1>5, <1>6, <1>7
  <1> QED
    BY <1>1, <1>2, <1>8 DEF CountInv

\* pipe() takes two descriptors.
LEMMA TwoMore ==
    ASSUME NEW S \in SUBSET Fds, NEW r \in Fds, NEW w \in Fds, r \notin S, w \notin S \cup {r}
    PROVE  Cardinality((S \cup {r}) \cup {w}) = Cardinality(S) + 2
  <1>1. IsFiniteSet(S) /\ Cardinality(S) \in Nat
    BY Counts
  <1>2. IsFiniteSet(S \cup {r}) /\ Cardinality(S \cup {r}) = Cardinality(S) + 1
    BY <1>1, FS_AddElement
  <1>3. Cardinality((S \cup {r}) \cup {w}) = Cardinality(S \cup {r}) + 1
    BY <1>2, FS_AddElement
  <1> QED
    BY <1>1, <1>2, <1>3

\* A step of the program's own.
LEMMA LikeBefore ==
    ASSUME DumpInv, CountInv, UNCHANGED <<pc, piped, child, todo>>, opens' \in 0..MaxOpens,
           Budget \in Nat, Budget' \in Nat,
           Cardinality(Used') - Cardinality(Used) <= Budget' - Budget
    PROVE  CountInv'
  <1>1. \A t \in Threads : /\ Left(t)' = Left(t) /\ Ends(t)' = Ends(t)
                           /\ Dumping(t)' <=> Dumping(t)
    BY DEF Left, Ends, Dumping, HasReadEnd, HasPipe
  <1>2. \A t \in Threads : Left(t) \in Nat /\ Ends(t) \in Nat
    BY LeftIsNat DEF DumpInv, Ends
  <1>3. Used \in SUBSET Fds /\ Used' \in SUBSET Fds
    BY DEF Used
  <1>4. Cardinality(Used) \in Nat /\ Cardinality(Used') \in Nat
    BY <1>3, Counts
  <1> HIDE DEF Used
  <1> QED
    BY <1>1, <1>2, <1>4 DEF CountInv

\* Every step stays within the budget.
LEMMA CountStays ==
    ASSUME ~Overlap, DumpInv, CountInv, [Next]_vars
    PROVE  CountInv'
  <1> USE Setting
      DEF DumpInv, TypeInv, OneInv, PipeInv, CountInv, HasPipe, HasReadEnd, None, Goto,
          ChildGoto, Exited, ChildStates, fdVars, childVars, fileVars, traceVars,
          threadVars, restVars, bounds
  <1>1. ASSUME NEW t \in Threads, Begin(t) PROVE CountInv'
    <2>1. /\ \A u \in Threads : ~Dumping(u)
          /\ pc' = [pc EXCEPT ![t] = "pipe"]
          /\ begun' = begun + 1 /\ UNCHANGED <<table, opens>>
      BY <1>1 DEF Begin, MayBegin, Dumping
    <2>2. /\ Cardinality(Used') = Cardinality(Used)
          /\ Left(t)' = Cardinality(Threads) /\ Ends(t)' = 0
      BY <2>1 DEF Used, Left, Ends
    <2>3. \A u \in Threads : Dumping(u)' <=> u = t
      BY <2>1 DEF Dumping
    <2>4. Budget' = Budget + Cardinality(Threads) /\ Budget \in Nat
      BY <2>1, BudgetGrows, Setting
    <2>5. Used \in SUBSET Fds
      BY DEF Used
    <2>6. Cardinality(Used) \in Nat /\ Cardinality(Threads) \in Nat
      BY <2>5, Counts
    <2> QED
      BY <2>1, <2>2, <2>3, <2>4, <2>6
  <1>0. ASSUME NEW t \in Threads, Pipe(t), ~piped' PROVE CountInv'
    <2>1. Dumping(t) /\ Dumping(t)' /\ opens' = opens /\ begun' = begun
          /\ \A u \in Threads \ {t} : pc'[u] = pc[u]
      BY <1>0, Setting DEF Pipe, Dumping
    <2>2. Used' = Used
      BY <1>0, PipeFails DEF Used
    <2>3. Left(t) = Left(t)' /\ Ends(t) = 0 /\ Ends(t)' = 0
      BY <1>0, Counts, Setting DEF Pipe, Left, Ends
    <2>4. Used \in SUBSET Fds
      BY DEF Used
    <2>5. Cardinality(Used) \in Nat /\ Left(t) \in Nat
      BY <2>4, Counts, LeftIsNat
    <2>6. /\ Left(t)' \in Nat
          /\ Cardinality(Used') + Left(t)' + Ends(t)
                <= Cardinality(Used) + Left(t) + Ends(t)'
      BY <2>2, <2>3, <2>5
    <2> HIDE DEF DumpInv, CountInv
    <2> QED
      BY <2>1, <2>6, DumperCounts
  <1>2. ASSUME NEW t \in Threads, Pipe(t), piped' PROVE CountInv'
    <2>1. Dumping(t) /\ Dumping(t)' /\ opens' = opens /\ begun' = begun
          /\ \A u \in Threads \ {t} : pc'[u] = pc[u]
      BY <1>2, Setting DEF Pipe, Dumping
    <2>2. Cardinality(Used') = Cardinality(Used) + 2
      <3>1. PICK p \in Pipes, r \in Fds, w \in Fds :
               /\ r # w /\ table[r] = Free /\ table[w] = Free
               /\ table' = [table EXCEPT ![r] = <<"r", p>>, ![w] = <<"w", p>>]
        BY <1>2, PipeEffect
      <3>2. <<"r", p>> # Free /\ <<"w", p>> # Free
        BY DEF Free
      <3>3. r \in Used' /\ w \in Used'
        BY <3>1, <3>2 DEF Used
      <3>4. \A fd \in Fds \ {r, w} : fd \in Used' <=> fd \in Used
        BY <3>1 DEF Used
      <3>5. Used \in SUBSET Fds /\ Used' \in SUBSET Fds /\ r \notin Used /\ w \notin Used
        BY <3>1 DEF Used
      <3>6. w \notin Used \cup {r}
        BY <3>1, <3>5
      <3>7. Used' = (Used \cup {r}) \cup {w}
        <4>1. ASSUME NEW fd \in Fds
              PROVE  fd \in Used' <=> fd \in (Used \cup {r}) \cup {w}
          BY <3>3, <3>4
        <4>2. (Used \cup {r}) \cup {w} \in SUBSET Fds
          BY <3>1, <3>5
        <4> HIDE DEF Used
        <4> QED
          BY <4>1, <4>2, <3>5
      <3> QED
        BY <3>1, <3>5, <3>6, <3>7, TwoMore
    <2>3. Left(t) = Left(t)' /\ Ends(t) = 0 /\ Ends(t)' = 2
      BY <1>2, Counts, Setting DEF Pipe, Left, Ends
    <2>4. Used \in SUBSET Fds /\ Used' \in SUBSET Fds
      BY DEF Used
    <2>5. /\ Cardinality(Used) \in Nat /\ Cardinality(Used') \in Nat
          /\ Cardinality(Threads) \in Nat
      BY <2>4, Counts
    <2>6. Left(t) \in Nat /\ Ends(t) \in Nat /\ Ends(t)' \in Nat
      BY LeftIsNat DEF Ends
    <2>7. /\ Left(t)' \in Nat
          /\ Cardinality(Used') + Left(t)' + Ends(t)
                <= Cardinality(Used) + Left(t) + Ends(t)'
      BY <2>2, <2>3, <2>5, <2>6
    <2> HIDE DEF DumpInv, CountInv
    <2> QED
      BY <2>1, <2>7, DumperCounts
  <1>3. ASSUME NEW t \in Threads, Clone(t) PROVE CountInv'
    <2>1. Dumping(t) /\ Dumping(t)' /\ opens' = opens /\ begun' = begun
          /\ \A u \in Threads \ {t} : pc'[u] = pc[u]
      BY <1>3, Setting DEF Clone, Dumping
    <2>2. Cardinality(Used') = Cardinality(Used)
      BY <1>3 DEF Clone, Used
    <2>3. /\ Left(t) = Cardinality(Threads)
          /\ Left(t)' \in {0, Cardinality(Threads)} /\ Ends(t)' = Ends(t)
      BY <1>3, Counts, Setting DEF Clone, Left, Ends
    <2>4. Used \in SUBSET Fds /\ Used' \in SUBSET Fds
      BY DEF Used
    <2>5. /\ Cardinality(Used) \in Nat /\ Cardinality(Used') \in Nat
          /\ Cardinality(Threads) \in Nat
      BY <2>4, Counts
    <2>6. Left(t) \in Nat /\ Ends(t) \in Nat /\ Ends(t)' \in Nat
      BY LeftIsNat DEF Ends
    <2>7. /\ Left(t)' \in Nat
          /\ Cardinality(Used') + Left(t)' + Ends(t)
                <= Cardinality(Used) + Left(t) + Ends(t)'
      BY <2>2, <2>3, <2>5, <2>6
    <2> HIDE DEF DumpInv, CountInv
    <2> QED
      BY <2>1, <2>7, DumperCounts
  <1>4. ASSUME NEW t \in Threads, SetPtracer(t) PROVE CountInv'
    <2>1. Dumping(t) /\ Dumping(t)' /\ opens' = opens /\ begun' = begun
          /\ \A u \in Threads \ {t} : pc'[u] = pc[u]
      BY <1>4, Setting DEF SetPtracer, Dumping
    <2>2. Cardinality(Used') = Cardinality(Used)
      BY <1>4 DEF SetPtracer, Used
    <2>3. Left(t)' = Left(t) /\ Ends(t)' = Ends(t)
      BY <1>4, Counts, Setting DEF SetPtracer, Left, Ends
    <2>4. Used \in SUBSET Fds /\ Used' \in SUBSET Fds
      BY DEF Used
    <2>5. /\ Cardinality(Used) \in Nat /\ Cardinality(Used') \in Nat
          /\ Cardinality(Threads) \in Nat
      BY <2>4, Counts
    <2>6. Left(t) \in Nat /\ Ends(t) \in Nat /\ Ends(t)' \in Nat
      BY LeftIsNat DEF Ends
    <2>7. /\ Left(t)' \in Nat
          /\ Cardinality(Used') + Left(t)' + Ends(t)
                <= Cardinality(Used) + Left(t) + Ends(t)'
      BY <2>2, <2>3, <2>5, <2>6
    <2> HIDE DEF DumpInv, CountInv
    <2> QED
      BY <2>1, <2>7, DumperCounts
  <1>5. ASSUME NEW t \in Threads, SendContinueSignalToChild(t) PROVE CountInv'
    <2>1. Dumping(t) /\ Dumping(t)' /\ opens' = opens /\ begun' = begun
          /\ \A u \in Threads \ {t} : pc'[u] = pc[u]
      BY <1>5, Setting DEF SendContinueSignalToChild, Dumping
    <2>2. Cardinality(Used') = Cardinality(Used)
      BY <1>5 DEF SendContinueSignalToChild, Used
    <2>3. Left(t)' = Left(t) /\ Ends(t)' = Ends(t)
      BY <1>5, Counts, Setting DEF SendContinueSignalToChild, Left, Ends
    <2>4. Used \in SUBSET Fds /\ Used' \in SUBSET Fds
      BY DEF Used
    <2>5. /\ Cardinality(Used) \in Nat /\ Cardinality(Used') \in Nat
          /\ Cardinality(Threads) \in Nat
      BY <2>4, Counts
    <2>6. Left(t) \in Nat /\ Ends(t) \in Nat /\ Ends(t)' \in Nat
      BY LeftIsNat DEF Ends
    <2>7. /\ Left(t)' \in Nat
          /\ Cardinality(Used') + Left(t)' + Ends(t)
                <= Cardinality(Used) + Left(t) + Ends(t)'
      BY <2>2, <2>3, <2>5, <2>6
    <2> HIDE DEF DumpInv, CountInv
    <2> QED
      BY <2>1, <2>7, DumperCounts
  <1>6. ASSUME NEW t \in Threads, Waitpid(t) PROVE CountInv'
    <2>1. Dumping(t) /\ Dumping(t)' /\ opens' = opens /\ begun' = begun
          /\ \A u \in Threads \ {t} : pc'[u] = pc[u]
      BY <1>6, Setting DEF Waitpid, Dumping
    <2>2. Cardinality(Used') = Cardinality(Used)
      BY <1>6 DEF Waitpid, Used
    <2>3. Left(t)' = 0 /\ Ends(t)' = Ends(t)
      BY <1>6, Counts, Setting DEF Waitpid, Left, Ends
    <2>4. Used \in SUBSET Fds /\ Used' \in SUBSET Fds
      BY DEF Used
    <2>5. /\ Cardinality(Used) \in Nat /\ Cardinality(Used') \in Nat
          /\ Cardinality(Threads) \in Nat
      BY <2>4, Counts
    <2>6. Left(t) \in Nat /\ Ends(t) \in Nat /\ Ends(t)' \in Nat
      BY LeftIsNat DEF Ends
    <2>7. /\ Left(t)' \in Nat
          /\ Cardinality(Used') + Left(t)' + Ends(t)
                <= Cardinality(Used) + Left(t) + Ends(t)'
      BY <2>2, <2>3, <2>5, <2>6
    <2> HIDE DEF DumpInv, CountInv
    <2> QED
      BY <2>1, <2>7, DumperCounts
  <1>22. ASSUME NEW t \in Threads, ClosePipe(t), ~piped PROVE CountInv'
    <2>1. Dumping(t) /\ Dumping(t)' /\ opens' = opens /\ begun' = begun
          /\ \A u \in Threads \ {t} : pc'[u] = pc[u]
      BY <1>22, Setting DEF ClosePipe, Dumping
    <2>2. \A fd \in Fds : table'[fd] \in {table[fd], Free}
      BY <1>22 DEF ClosePipe, CloseAt, Close
    <2>3. Used \in SUBSET Fds /\ Used' \in SUBSET Fds
      BY DEF Used
    <2>4. Used' \subseteq Used
      BY <2>2 DEF Used
    <2>5. Cardinality(Used') <= Cardinality(Used) /\ Cardinality(Used') \in Nat
          /\ Cardinality(Used) \in Nat
      BY <2>3, <2>4, Counts, FS_Subset
    <2>6. Left(t) = 0 /\ Left(t)' = 0 /\ Ends(t) = 0 /\ Ends(t)' = 0
      BY <1>22, Counts, Setting DEF ClosePipe, Left, Ends
    <2>7. /\ Left(t)' \in Nat
          /\ Cardinality(Used') + Left(t)' + Ends(t)
                <= Cardinality(Used) + Left(t) + Ends(t)'
      BY <2>5, <2>6
    <2> HIDE DEF DumpInv, CountInv
    <2> QED
      BY <2>1, <2>7, DumperCounts
  <1>7. ASSUME NEW t \in Threads, ClosePipe(t), piped PROVE CountInv'
    <2>1. Dumping(t) /\ Dumping(t)' /\ opens' = opens /\ begun' = begun
          /\ \A u \in Threads \ {t} : pc'[u] = pc[u]
      BY <1>7, Setting DEF ClosePipe, Dumping
    <2>2. Cardinality(Used') = Cardinality(Used) - 1
      <3>1. PICK fd \in Fds : /\ table[fd][1] \in {"r", "w"}
                              /\ table' = [table EXCEPT ![fd] = Free]
        <4>1. CASE pc[t] = "close0"
          <5>1. fdes[1] \in Fds /\ table[fdes[1]][1] = "r"
            BY <1>7, <4>1
          <5>2. table' = [table EXCEPT ![fdes[1]] = Free]
            BY <1>7, <4>1, <5>1 DEF ClosePipe, CloseAt, Close
          <5> QED
            BY <5>1, <5>2
        <4>2. CASE pc[t] = "close1"
          <5>1. fdes[2] \in Fds /\ table[fdes[2]][1] = "w"
            BY <1>7, <4>2
          <5>2. table' = [table EXCEPT ![fdes[2]] = Free]
            BY <1>7, <4>2, <5>1 DEF ClosePipe, CloseAt, Close
          <5> QED
            BY <5>1, <5>2
        <4> QED
          BY <1>7, <4>1, <4>2 DEF ClosePipe
      <3>2. table[fd] # Free
        BY <3>1 DEF Free
      <3> QED
        BY <3>1, <3>2, UsedShrinks
    <2>3. Left(t) = 0 /\ Left(t)' = 0 /\ Ends(t) = Ends(t)' + 1
      BY <1>7, Counts, Setting DEF ClosePipe, Left, Ends
    <2>4. Used \in SUBSET Fds /\ Used' \in SUBSET Fds
      BY DEF Used
    <2>5. /\ Cardinality(Used) \in Nat /\ Cardinality(Used') \in Nat
          /\ Cardinality(Threads) \in Nat
      BY <2>4, Counts
    <2>6. Left(t) \in Nat /\ Ends(t) \in Nat /\ Ends(t)' \in Nat
      BY LeftIsNat DEF Ends
    <2>7. /\ Left(t)' \in Nat
          /\ Cardinality(Used') + Left(t)' + Ends(t)
                <= Cardinality(Used) + Left(t) + Ends(t)'
      BY <2>2, <2>3, <2>5, <2>6
    <2> HIDE DEF DumpInv, CountInv
    <2> QED
      BY <2>1, <2>7, DumperCounts
  <1>8. ASSUME NEW t \in Threads, Callback(t) PROVE CountInv'
    <2>1. Dumping(t) /\ Dumping(t)' /\ opens' = opens /\ begun' = begun
          /\ \A u \in Threads \ {t} : pc'[u] = pc[u]
      BY <1>8, Setting DEF Callback, Dumping
    <2>2. Cardinality(Used') = Cardinality(Used)
      BY <1>8 DEF Callback, Used
    <2>3. Left(t)' = Left(t) /\ Ends(t)' = Ends(t)
      BY <1>8, Counts, Setting DEF Callback, Left, Ends
    <2>4. Used \in SUBSET Fds /\ Used' \in SUBSET Fds
      BY DEF Used
    <2>5. /\ Cardinality(Used) \in Nat /\ Cardinality(Used') \in Nat
          /\ Cardinality(Threads) \in Nat
      BY <2>4, Counts
    <2>6. Left(t) \in Nat /\ Ends(t) \in Nat /\ Ends(t)' \in Nat
      BY LeftIsNat DEF Ends
    <2>7. /\ Left(t)' \in Nat
          /\ Cardinality(Used') + Left(t)' + Ends(t)
                <= Cardinality(Used) + Left(t) + Ends(t)'
      BY <2>2, <2>3, <2>5, <2>6
    <2> HIDE DEF DumpInv, CountInv
    <2> QED
      BY <2>1, <2>7, DumperCounts
  <1>9. ASSUME NEW t \in Threads, Unlock(t) PROVE CountInv'
    <2>1. /\ Dumping(t) /\ \A u \in Threads : ~Dumping(u)'
          /\ UNCHANGED <<table, opens, begun>>
      BY <1>9 DEF Unlock, Dumping
    <2>2. Left(t) = 0 /\ Ends(t) = 0
      BY <1>9, Setting DEF Unlock, Left, Ends
    <2>3. Used' = Used /\ Used \in SUBSET Fds
      BY <2>1 DEF Used
    <2>4. Budget' = Budget /\ Budget \in Nat /\ Cardinality(Used) \in Nat
      BY <2>1, <2>3, BudgetGrows, Counts, Setting
    <2> QED
      BY <2>1, <2>2, <2>3, <2>4
  <1>10. ASSUME NEW t \in Threads, UpdateNextID(t) PROVE CountInv'
    <2>1. /\ Dumping(t) /\ \A u \in Threads : ~Dumping(u)'
          /\ UNCHANGED <<table, opens, begun>>
      BY <1>10 DEF UpdateNextID, Dumping
    <2>2. Left(t) = 0 /\ Ends(t) = 0
      BY <1>10, Setting DEF UpdateNextID, Left, Ends
    <2>3. Used' = Used /\ Used \in SUBSET Fds
      BY <2>1 DEF Used
    <2>4. Budget' = Budget /\ Budget \in Nat /\ Cardinality(Used) \in Nat
      BY <2>1, <2>3, BudgetGrows, Counts, Setting
    <2> QED
      BY <2>1, <2>2, <2>3, <2>4
  <1>11. ASSUME NEW t \in Threads, ProgramOpens(t) PROVE CountInv'
    <2>1. Program # Free
      BY DEF Program, Free
    <2>2. Cardinality(Used') = Cardinality(Used) + 1
      BY <1>11, <2>1, OpenCounts DEF ProgramOpens
    <2>3. opens' = opens + 1 /\ opens' \in 0..MaxOpens /\ UNCHANGED <<begun, pc, piped, child, todo>>
      BY <1>11, Setting DEF ProgramOpens
    <2>4. Budget' = Budget + 1 /\ Budget \in Nat
      BY <2>3, BudgetGrows
    <2>5. Used \in SUBSET Fds /\ Used' \in SUBSET Fds
      BY DEF Used
    <2>6. Cardinality(Used) \in Nat /\ Cardinality(Used') \in Nat
      BY <2>5, Counts
    <2>7. Cardinality(Used') - Cardinality(Used) <= Budget' - Budget
      BY <2>2, <2>4, <2>6
    <2> HIDE DEF DumpInv, CountInv
    <2> QED
      BY <2>3, <2>4, <2>7, LikeBefore
  <1>12. ASSUME NEW t \in Threads, ProgramCloses(t) PROVE CountInv'
    <2>1. Program # Free
      BY DEF Program, Free
    <2>2. Cardinality(Used') = Cardinality(Used) - 1
      BY <1>12, <2>1, UsedShrinks DEF ProgramCloses, Close
    <2>3. UNCHANGED <<opens, begun, pc, piped, child, todo>>
      BY <1>12 DEF ProgramCloses
    <2>4. Budget' = Budget /\ Budget \in Nat /\ opens' \in 0..MaxOpens
      BY <2>3, BudgetGrows
    <2>5. Used \in SUBSET Fds /\ Used' \in SUBSET Fds
      BY DEF Used
    <2>6. Cardinality(Used) \in Nat /\ Cardinality(Used') \in Nat
      BY <2>5, Counts
    <2>7. Cardinality(Used') - Cardinality(Used) <= Budget' - Budget
      BY <2>2, <2>4, <2>6
    <2> HIDE DEF DumpInv, CountInv
    <2> QED
      BY <2>3, <2>4, <2>7, LikeBefore
  <1>13. ASSUME NEW c \in Child, WaitForContinueSignal(c) PROVE CountInv'
    <2>1. Dumping(c) /\ Dumping(c)' /\ opens' = opens /\ begun' = begun
          /\ \A u \in Threads \ {c} : pc'[u] = pc[u]
      BY <1>13, Setting DEF WaitForContinueSignal, Dumping
    <2>2. Cardinality(Used') = Cardinality(Used)
      BY <1>13 DEF WaitForContinueSignal, Used
    <2>3. Left(c)' = Left(c) /\ Ends(c)' = Ends(c)
      BY <1>13, Counts, Setting DEF WaitForContinueSignal, Left, Ends
    <2>4. Used \in SUBSET Fds /\ Used' \in SUBSET Fds
      BY DEF Used
    <2>5. /\ Cardinality(Used) \in Nat /\ Cardinality(Used') \in Nat
          /\ Cardinality(Threads) \in Nat
      BY <2>4, Counts
    <2>6. Left(c) \in Nat /\ Ends(c) \in Nat /\ Ends(c)' \in Nat
      BY LeftIsNat DEF Ends
    <2>7. /\ Left(c)' \in Nat
          /\ Cardinality(Used') + Left(c)' + Ends(c)
                <= Cardinality(Used) + Left(c) + Ends(c)'
      BY <2>2, <2>3, <2>5, <2>6
    <2> HIDE DEF DumpInv, CountInv
    <2> QED
      BY <2>1, <2>7, DumperCounts
  <1>14. ASSUME NEW c \in Child, OpenMinidump(c) PROVE CountInv'
    <2>1. Dumping(c) /\ Dumping(c)' /\ opens' = opens /\ begun' = begun
          /\ \A u \in Threads \ {c} : pc'[u] = pc[u]
      BY <1>14, Setting DEF OpenMinidump, Dumping
    <2>2. \/ Cardinality(Used') = Cardinality(Used) + 1 /\ child'[c] = "suspend"
          \/ Cardinality(Used') = Cardinality(Used) /\ child'[c] = "exit1"
      <3>1. Minidump(c) # Free
        BY DEF Minidump, Free
      <3>2. \/ Open(Minidump(c)) /\ child'[c] = "suspend"
            \/ table' = table /\ child'[c] = "exit1"
        BY <1>14 DEF OpenMinidump
      <3>3. Open(Minidump(c)) => Cardinality(Used') = Cardinality(Used) + 1
        BY <3>1, OpenCounts
      <3>4. table' = table => Used' = Used
        BY DEF Used
      <3> QED
        BY <3>2, <3>3, <3>4
    <2>3. /\ Left(c) = Cardinality(Threads) /\ Ends(c)' = Ends(c)
          /\ child'[c] = "suspend" => Left(c)' = Cardinality(Threads) - 1 /\ Left(c)' \in Nat
          /\ child'[c] = "exit1" => Left(c)' = 0
      <3>1. /\ child[c] = "open" /\ pc' = pc /\ pc[c] \in {"ptracer", "write", "wait"}
            /\ child'[c] \in {"suspend", "exit1"}
        BY <1>14 DEF OpenMinidump
      <3>2. /\ {} \in SUBSET Threads /\ c \in Threads
        BY Setting
      <3>3. Cardinality(Threads) > 0 /\ Cardinality(Threads) \in Nat
        BY <3>2, Counts
      <3> QED
        BY <1>14, <3>1, <3>3 DEF Left, Ends, OpenMinidump
    <2>4. Used \in SUBSET Fds /\ Used' \in SUBSET Fds
      BY DEF Used
    <2>5. /\ Cardinality(Used) \in Nat /\ Cardinality(Used') \in Nat
          /\ Cardinality(Threads) \in Nat
      BY <2>4, Counts
    <2>6. Left(c) \in Nat /\ Ends(c) \in Nat /\ Ends(c)' \in Nat
      BY LeftIsNat DEF Ends
    <2>7. /\ Left(c)' \in Nat
          /\ Cardinality(Used') + Left(c)' + Ends(c)
                <= Cardinality(Used) + Left(c) + Ends(c)'
      BY <2>2, <2>3, <2>5, <2>6
    <2> HIDE DEF DumpInv, CountInv
    <2> QED
      BY <2>1, <2>7, DumperCounts
  <1>15. ASSUME NEW c \in Child, SuspendThread(c) PROVE CountInv'
    <2>1. Dumping(c) /\ Dumping(c)' /\ opens' = opens /\ begun' = begun
          /\ \A u \in Threads \ {c} : pc'[u] = pc[u]
      BY <1>15, Setting DEF SuspendThread, Dumping
    <2>2. Cardinality(Used') = Cardinality(Used)
      BY <1>15 DEF SuspendThread, Used
    <2>3. Left(c)' = Left(c) /\ Ends(c)' = Ends(c)
      BY <1>15, Counts, Setting DEF SuspendThread, Left, Ends
    <2>4. Used \in SUBSET Fds /\ Used' \in SUBSET Fds
      BY DEF Used
    <2>5. /\ Cardinality(Used) \in Nat /\ Cardinality(Used') \in Nat
          /\ Cardinality(Threads) \in Nat
      BY <2>4, Counts
    <2>6. Left(c) \in Nat /\ Ends(c) \in Nat /\ Ends(c)' \in Nat
      BY LeftIsNat DEF Ends
    <2>7. /\ Left(c)' \in Nat
          /\ Cardinality(Used') + Left(c)' + Ends(c)
                <= Cardinality(Used) + Left(c) + Ends(c)'
      BY <2>2, <2>3, <2>5, <2>6
    <2> HIDE DEF DumpInv, CountInv
    <2> QED
      BY <2>1, <2>7, DumperCounts
  <1>16. ASSUME NEW c \in Child, AllSuspended(c) PROVE CountInv'
    <2>1. Dumping(c) /\ Dumping(c)' /\ opens' = opens /\ begun' = begun
          /\ \A u \in Threads \ {c} : pc'[u] = pc[u]
      BY <1>16, Setting DEF AllSuspended, Dumping
    <2>2. Cardinality(Used') = Cardinality(Used)
      BY <1>16 DEF AllSuspended, Used
    <2>3. /\ Left(c) = Cardinality(Threads) - 1 /\ Ends(c)' = Ends(c)
          /\ Left(c)' \in Nat /\ Left(c)' <= Cardinality(Threads) - 1
      <3>1. /\ child[c] = "suspend" /\ child'[c] \in {"failed", "dump"}
            /\ todo'[c] = Suspended(c) \ {c} /\ pc' = pc /\ pc[c] \in {"ptracer", "write", "wait"}
        BY <1>16 DEF AllSuspended
      <3>2. Left(c) = Cardinality(Threads) - 1 /\ Ends(c)' = Ends(c)
        BY <1>16, <3>1 DEF Left, Ends, AllSuspended
      <3>3. Suspended(c) \in SUBSET Threads /\ Suspended(c) \ {c} \in SUBSET Threads
        BY DEF Suspended
      <3>4. /\ Cardinality(Suspended(c) \ {c}) <= Cardinality(Threads) - 1
            /\ Cardinality(Suspended(c) \ {c}) \in Nat /\ Cardinality(Threads) \in Nat
            /\ Cardinality(Threads) > 0
        BY <3>3, Counts
      <3>5. Left(c)' = IF child'[c] = "dump" THEN Cardinality(todo'[c]) ELSE 0
        BY <3>1 DEF Left
      <3> QED
        BY <3>1, <3>2, <3>4, <3>5
    <2>4. Used \in SUBSET Fds /\ Used' \in SUBSET Fds
      BY DEF Used
    <2>5. /\ Cardinality(Used) \in Nat /\ Cardinality(Used') \in Nat
          /\ Cardinality(Threads) \in Nat
      BY <2>4, Counts
    <2>6. Left(c) \in Nat /\ Ends(c) \in Nat /\ Ends(c)' \in Nat
      BY LeftIsNat DEF Ends
    <2>7. /\ Left(c)' \in Nat
          /\ Cardinality(Used') + Left(c)' + Ends(c)
                <= Cardinality(Used) + Left(c) + Ends(c)'
      BY <2>2, <2>3, <2>5, <2>6
    <2> HIDE DEF DumpInv, CountInv
    <2> QED
      BY <2>1, <2>7, DumperCounts
  <1>17. ASSUME NEW c \in Child, ThreadInfoGet(c) PROVE CountInv'
    <2>1. Dumping(c) /\ Dumping(c)' /\ opens' = opens /\ begun' = begun
          /\ \A u \in Threads \ {c} : pc'[u] = pc[u]
      BY <1>17, Setting DEF ThreadInfoGet, Dumping
    <2>2. Cardinality(Used') \in {Cardinality(Used), Cardinality(Used) + 1}
      <3>1. Status # Free
        BY DEF Status, Free
      <3>2. Open(Status) \/ table' = table
        BY <1>17 DEF ThreadInfoGet
      <3>3. Open(Status) => Cardinality(Used') = Cardinality(Used) + 1
        BY <3>1, OpenCounts
      <3>4. table' = table => Used' = Used
        BY DEF Used
      <3> QED
        BY <3>2, <3>3, <3>4
    <2>3. Left(c)' \in Nat /\ Left(c)' + 1 <= Left(c) /\ Ends(c)' = Ends(c)
      <3>1. PICK t \in todo[c] : todo' = [todo EXCEPT ![c] = todo[c] \ {t}]
        BY <1>17 DEF ThreadInfoGet
      <3>2. /\ child[c] = "dump" /\ child'[c] \in {"dump", "failed"}
            /\ pc' = pc /\ pc[c] \in {"ptracer", "write", "wait"}
        BY <1>17 DEF ThreadInfoGet
      <3>3. /\ todo[c] \in SUBSET Threads /\ todo[c] \ {t} \in SUBSET Threads
            /\ todo'[c] = todo[c] \ {t}
        BY <3>1
      <3>4. /\ Cardinality(todo[c] \ {t}) = Cardinality(todo[c]) - 1
            /\ Cardinality(todo[c]) \in Nat /\ Cardinality(todo[c] \ {t}) \in Nat
        BY <3>1, <3>3, Counts
      <3>5. Left(c) = Cardinality(todo[c]) /\ Ends(c)' = Ends(c)
        BY <1>17, <3>2 DEF Left, Ends, ThreadInfoGet
      <3>6. Left(c)' \in {Cardinality(todo[c] \ {t}), 0}
        BY <3>2, <3>3 DEF Left
      <3> QED
        BY <3>4, <3>5, <3>6
    <2>4. Used \in SUBSET Fds /\ Used' \in SUBSET Fds
      BY DEF Used
    <2>5. /\ Cardinality(Used) \in Nat /\ Cardinality(Used') \in Nat
          /\ Cardinality(Threads) \in Nat
      BY <2>4, Counts
    <2>6. Left(c) \in Nat /\ Ends(c) \in Nat /\ Ends(c)' \in Nat
      BY LeftIsNat DEF Ends
    <2>7. /\ Left(c)' \in Nat
          /\ Cardinality(Used') + Left(c)' + Ends(c)
                <= Cardinality(Used) + Left(c) + Ends(c)'
      BY <2>2, <2>3, <2>5, <2>6
    <2> HIDE DEF DumpInv, CountInv
    <2> QED
      BY <2>1, <2>7, DumperCounts
  <1>18. ASSUME NEW c \in Child, WriteStreams(c) PROVE CountInv'
    <2>1. Dumping(c) /\ Dumping(c)' /\ opens' = opens /\ begun' = begun
          /\ \A u \in Threads \ {c} : pc'[u] = pc[u]
      BY <1>18, Setting DEF WriteStreams, Dumping
    <2>2. Cardinality(Used') = Cardinality(Used)
      BY <1>18 DEF WriteStreams, Used
    <2>3. Left(c)' = 0 /\ Ends(c)' = Ends(c)
      BY <1>18, Counts, Setting DEF WriteStreams, Left, Ends
    <2>4. Used \in SUBSET Fds /\ Used' \in SUBSET Fds
      BY DEF Used
    <2>5. /\ Cardinality(Used) \in Nat /\ Cardinality(Used') \in Nat
          /\ Cardinality(Threads) \in Nat
      BY <2>4, Counts
    <2>6. Left(c) \in Nat /\ Ends(c) \in Nat /\ Ends(c)' \in Nat
      BY LeftIsNat DEF Ends
    <2>7. /\ Left(c)' \in Nat
          /\ Cardinality(Used') + Left(c)' + Ends(c)
                <= Cardinality(Used) + Left(c) + Ends(c)'
      BY <2>2, <2>3, <2>5, <2>6
    <2> HIDE DEF DumpInv, CountInv
    <2> QED
      BY <2>1, <2>7, DumperCounts
  <1>19. ASSUME NEW c \in Child, DestroyWriter(c) PROVE CountInv'
    <2>1. Dumping(c) /\ Dumping(c)' /\ opens' = opens /\ begun' = begun
          /\ \A u \in Threads \ {c} : pc'[u] = pc[u]
      BY <1>19, Setting DEF DestroyWriter, Dumping
    <2>2. Cardinality(Used') = Cardinality(Used) - 1
      <3> DEFINE fd == CHOOSE fd \in Fds : table[fd] = Minidump(c)
      <3>1. fd \in Fds /\ table[fd] = Minidump(c)
        BY <1>19, Setting DEF DestroyWriter, FileInv, Working
      <3>2. table' = [table EXCEPT ![fd] = Free]
        BY <1>19 DEF DestroyWriter, Close
      <3>3. Minidump(c) # Free
        BY DEF Minidump, Free
      <3> HIDE DEF fd
      <3> QED
        BY <3>1, <3>2, <3>3, UsedShrinks
    <2>3. Left(c)' = 0 /\ Ends(c)' = Ends(c)
      BY <1>19, Counts, Setting DEF DestroyWriter, Left, Ends
    <2>4. Used \in SUBSET Fds /\ Used' \in SUBSET Fds
      BY DEF Used
    <2>5. /\ Cardinality(Used) \in Nat /\ Cardinality(Used') \in Nat
          /\ Cardinality(Threads) \in Nat
      BY <2>4, Counts
    <2>6. Left(c) \in Nat /\ Ends(c) \in Nat /\ Ends(c)' \in Nat
      BY LeftIsNat DEF Ends
    <2>7. /\ Left(c)' \in Nat
          /\ Cardinality(Used') + Left(c)' + Ends(c)
                <= Cardinality(Used) + Left(c) + Ends(c)'
      BY <2>2, <2>3, <2>5, <2>6
    <2> HIDE DEF DumpInv, CountInv
    <2> QED
      BY <2>1, <2>7, DumperCounts
  <1>20. ASSUME NEW c \in Child, ChildDies(c) PROVE CountInv'
    <2>1. Dumping(c) /\ Dumping(c)' /\ opens' = opens /\ begun' = begun
          /\ \A u \in Threads \ {c} : pc'[u] = pc[u]
      BY <1>20, Setting DEF ChildDies, Dumping
    <2>2. Cardinality(Used') = Cardinality(Used)
      BY <1>20 DEF ChildDies, Used
    <2>3. Left(c)' = 0 /\ Ends(c)' = Ends(c)
      BY <1>20, Counts, Setting DEF ChildDies, Left, Ends
    <2>4. Used \in SUBSET Fds /\ Used' \in SUBSET Fds
      BY DEF Used
    <2>5. /\ Cardinality(Used) \in Nat /\ Cardinality(Used') \in Nat
          /\ Cardinality(Threads) \in Nat
      BY <2>4, Counts
    <2>6. Left(c) \in Nat /\ Ends(c) \in Nat /\ Ends(c)' \in Nat
      BY LeftIsNat DEF Ends
    <2>7. /\ Left(c)' \in Nat
          /\ Cardinality(Used') + Left(c)' + Ends(c)
                <= Cardinality(Used) + Left(c) + Ends(c)'
      BY <2>2, <2>3, <2>5, <2>6
    <2> HIDE DEF DumpInv, CountInv
    <2> QED
      BY <2>1, <2>7, DumperCounts
  <1>21. ASSUME \/ OtherExits
                \/ UNCHANGED vars
        PROVE  CountInv'
    <2>1. UNCHANGED <<table, opens, begun, pc, piped, child, todo>>
      BY <1>21
      DEF OtherExits, vars
    <2> QED
      BY <2>1 DEF Used, Budget, Left, Ends, Dumping
  <1> HIDE DEF DumpInv, TypeInv, OneInv, PipeInv, CountInv, HasPipe, HasReadEnd, None,
               Goto, ChildGoto, Exited, ChildStates, fdVars, childVars, fileVars,
               traceVars, threadVars, restVars, bounds
  <1>a. ASSUME NEW t \in Threads, GenerateDump(t) PROVE CountInv'
    BY <1>0, <1>22, <1>2, <1>3, <1>4, <1>5, <1>6, <1>7, <1>8, <1>9, <1>10, <1>a DEF GenerateDump
  <1>b. ASSUME NEW c \in Child, ThreadEntry(c) PROVE CountInv'
    BY <1>13, <1>14, <1>15, <1>16, <1>17, <1>18, <1>19, <1>b DEF ThreadEntry
  <1> QED
    BY <1>a, <1>b, <1>1, <1>11, <1>12, <1>20, <1>21 DEF Next

-----------------------------------------------------------------------------
(* The theorems. *)

\* No dump has begun.
LEMMA Starts ==
    ASSUME Init
    PROVE  DumpInv /\ CountInv
  <1> USE Setting DEF Init
  <1>1. TypeInv
    <2>1. /\ table \in [Fds -> Objects] /\ bytes \in [Pipes -> Nat] /\ nextId \in Nat
          /\ fdes \in (Fds \cup {-1}) \X (Fds \cup {-1}) /\ begun \in 0..MaxDumps
      BY LinuxGenerateDumpAssumption DEF LinuxGenerateDumpAssumption, Objects
    <2>2. /\ pc \in [Threads -> ThreadStates] /\ child \in [Child -> ChildStates]
          /\ pid \in [Threads -> BOOLEAN] /\ success \in [Threads -> BOOLEAN]
          /\ piped \in BOOLEAN
      BY DEF ThreadStates, ChildStates
    <2>3. /\ DOMAIN memory = Child /\ reading \in [Child -> Pipes \cup {0}]
          /\ todo \in [Child -> SUBSET Threads] /\ tracer \in [Threads -> Child \cup {None}]
      OBVIOUS
    <2> QED
      BY <2>1, <2>2, <2>3 DEF TypeInv
  <1>2. OneInv /\ PipeInv
    BY DEF OneInv, PipeInv, Dumping, HasPipe, HasReadEnd, Free, None
  <1>3. GateInv /\ TraceInv /\ FileInv
    BY DEF GateInv, TraceInv, FileInv, Working, None
  <1>4. Used = {} /\ Budget = 0
    <2>1. Used = {}
      BY DEF Used
    <2>2. Cardinality(Threads) \in Nat
      BY Counts
    <2> QED
      BY <2>1, <2>2 DEF Budget
  <1>5. CountInv
    BY <1>4, FS_EmptySet DEF CountInv, Dumping
  <1> QED
    BY <1>1, <1>2, <1>3, <1>5 DEF DumpInv

\* The inductive step.
LEMMA DumpStays ==
    ASSUME ~Overlap, DumpInv /\ CountInv, [Next]_vars
    PROVE  (DumpInv /\ CountInv)'
  <1>1. TypeInv
    BY DEF DumpInv
  <1>2. TypeInv' /\ OneInv' /\ PipeInv'
    BY <1>1, TypeStays, OneStays, PipeStays
  <1>3. GateInv' /\ TraceInv' /\ FileInv'
    BY GateStays, TraceStays, FilesStay
  <1>4. TRUE \notin touched' /\ CountInv'
    BY StaysUntouched, CountStays
  <1> QED
    BY <1>2, <1>3, <1>4 DEF DumpInv

\* What a callback that is told of success may believe (ToldTruth), whatever failed
\* on the way: the clone reports success only after every stream is written, and if
\* the dump had its pipe, only after it has been let through, made the tracer, and
\* has suspended the thread that asked.  The one false report is of a clone that
\* was never made.
THEOREM TruthIsTold ==
    ASSUME ~Overlap
    PROVE  Spec => []ToldTruth
  <1>1. Init => DumpInv /\ CountInv
    BY Starts
  <1>2. DumpInv /\ CountInv /\ [Next]_vars => (DumpInv /\ CountInv)'
    BY DumpStays
  <1>3. DumpInv => ToldTruth
    BY DEF DumpInv, FileInv, Dumped, TookAnother, ToldTruth
  <1> QED
    BY <1>1, <1>2, <1>3, PTL DEF Spec

\* A dump that has its pipe reads, writes and closes the ends of that pipe and no
\* file of the program (ProgramFilesUntouched), in whatever order dumps with and
\* without a pipe come, and whatever the stale fdes of the ones without named.
THEOREM ProgramFilesAreLeft ==
    ASSUME ~Overlap
    PROVE  Spec => []ProgramFilesUntouched
  <1>1. Init => DumpInv /\ CountInv
    BY Starts
  <1>2. DumpInv /\ CountInv /\ [Next]_vars => (DumpInv /\ CountInv)'
    BY DumpStays
  <1>3. DumpInv => ProgramFilesUntouched
    BY DEF DumpInv, ProgramFilesUntouched
  <1> QED
    BY <1>1, <1>2, <1>3, PTL DEF Spec

DescriptorsBounded == Cardinality(Used) <= Budget + 2

\* What dumps leave open is bounded: a descriptor for each thread and dump
\* (LinuxDumper::ThreadInfoGet does not close the status files), next to the files of
\* the program and the pipe.
THEOREM DescriptorsAreBounded ==
    ASSUME ~Overlap
    PROVE  Spec => []DescriptorsBounded
  <1>1. Init => DumpInv /\ CountInv
    BY Starts
  <1>2. DumpInv /\ CountInv /\ [Next]_vars => (DumpInv /\ CountInv)'
    BY DumpStays
  <1>3. ASSUME DumpInv, CountInv PROVE DescriptorsBounded
    <2>1. Used \in SUBSET Fds /\ Cardinality(Used) \in Nat /\ Budget \in Nat
      BY <1>3, Counts, BudgetGrows DEF Used, DumpInv, CountInv
    <2>2. \A t \in Threads : Left(t) \in Nat /\ Ends(t) \in 0..2
      BY <1>3, LeftIsNat DEF Ends, DumpInv
    <2> HIDE DEF Used
    <2> QED
      BY <1>3, <2>1, <2>2 DEF CountInv, DescriptorsBounded
  <1> QED
    BY <1>1, <1>2, <1>3, PTL DEF Spec
=============================================================================
