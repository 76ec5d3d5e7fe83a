---------------------- MODULE WindowsDumpRequest_proofs ----------------------
(***************************************************************************)
(* Proofs about WindowsDumpRequest, for any clients and plans of theirs.     *)
(*                                                                           *)
(* That a ClientInfo outlives its users depends on how far AddClient, the    *)
(* two waits, the work item and the destructor have come, and on which of    *)
(* them unregisters what: LifeInv has one part for each, for the clients the *)
(* destructor waits for.  It takes clients that do not die before they are   *)
(* added; BaseInv, about the counts, and AnswerInv, about what a client is   *)
(* told, do not.                                                             *)
(***************************************************************************)
EXTENDS WindowsDumpRequest, FiniteSetTheorems, TLAPS

\* The work items are counted, and a client has one only after OnClientEnd.
Busy == {c \in Clients : Counted(c)}
CountInv ==
    /\ IsFiniteSet(Busy) /\ cleanup_item_count_ = Cardinality(Busy)
    /\ \A c \in Clients : item[c] # "none" => ending[c] = "done"

\* Until the destructor gets to the clients it has outrun none.
OutpacedInv == dtor \in {"none", "unregister"} => outpaced = {}

BaseInv == TypeOK /\ CountInv /\ OutpacedInv

\* No work on the request before goes on that could be taken for an answer to the
\* next: the event is signaled only until it is reset.
Quiet(c) == dumping[c] \in {"idle", "reset"} /\ (requested[c] => dumping[c] = "reset" \/ ~Up)

\* As long as it has given up none, a client and the server agree on which request
\* is under way.
RequestInv(c) ==
    /\ client[c] # "false"
    /\ client[c] \in {"out", "running"} =>
          ~requested[c] /\ ~generated[c] /\ dumping[c] = "idle"
    /\ client[c] = "reset" => ~generated[c]
    /\ \/ client[c] \in {"asking", "reset", "true"}
       \/ client[c] = "waiting" /\ generated[c]
       => Quiet(c)
    /\ \/ client[c] = "waiting" /\ (generated[c] \/ dumping[c] = "signal")
       \/ client[c] = "true"
       => asked[c] \in dumped[c]

\* Of a server that generates dumps, every answer follows some dump, and one that
\* cannot be late follows the dump it is about.
AnswerInv(c) ==
    /\ adding[c] = "no" => client[c] = "out"
    /\ generate_dumps_ =>
          /\ generated[c] \/ dumping[c] = "signal" \/ client[c] = "true" => dumped[c] # {}
          /\ ~late[c] => RequestInv(c)

\* AddClient: what it has not reached yet is not there, and a client it has
\* refused has lost its ClientInfo.
AddingInv(c) ==
    /\ adding[c] = "no" => client[c] = "out" /\ info[c] = "none"
    /\ adding[c] \in {"no", "request"} => ~requestHandle[c]
    /\ adding[c] \in {"no", "request", "exit", "refused"} => ~exitWait[c]
    /\ ~Added(c) /\ adding[c] # "no" => client[c] # "dead" /\ info[c] = "live"
    /\ adding[c] # "done" => c \notin clients_ /\ ending[c] = "idle"
    /\ adding[c] = "refused" => info[c] = "deleted"

\* The callback of a wait runs while the wait is registered, and its handle is
\* there to wait for it; of a ClientInfo that is deleted neither is left.
WaitInv(c) ==
    /\ dumping[c] # "idle" => requestWait[c]
    /\ requestWait[c] => requestHandle[c] /\ info[c] = "live"
    /\ ending[c] \in {"count", "queue", "uncount"} => info[c] = "live"

\* The work item of a client removes it from the list before it deletes its
\* ClientInfo; a client that is not on the list has one or had one.
ItemInv(c) ==
    /\ item[c] \in {"queued", "removed", "unregistered"} => info[c] = "live"
    /\ item[c] \in {"removed", "unregistered", "deleted"} => c \notin clients_
    /\ item[c] = "unregistered" => ~requestWait[c]
    /\ item[c] = "deleted" => info[c] = "deleted"
    /\ adding[c] = "done" /\ c \notin clients_ =>
          ending[c] = "done" /\ (item[c] # "none" \/ info[c] = "deleted")

\* The destructor finds AddClient at rest; once it has unregistered the waits it
\* meets only what OnClientEnd has counted, and then nobody.
DestructorInv(c) ==
    /\ dtor # "none" => adding[c] = "no" \/ Added(c)
    /\ dtor \in {"await", "delete", "release", "gone"} =>
          /\ ending[c] # "count"
          /\ c \in clients_ => ~requestWait[c] /\ ~exitWait[c]
    /\ dtor \in {"delete", "release", "gone"} => ~Counted(c)
    /\ c \in clients_ => info[c] = IF dtor \in {"release", "gone"} THEN "deleted" ELSE "live"

\* A ClientInfo was deleted once if it is deleted; of a process that is dead
\* nothing is left.
FreedInv(c) ==
    /\ freed[c] = IF info[c] = "deleted" THEN 1 ELSE 0
    /\ ~Up => info[c] = "none"

ClientInv(c) ==
    /\ Up => AddingInv(c) /\ WaitInv(c) /\ ItemInv(c) /\ DestructorInv(c)
    /\ FreedInv(c)

LifeInv == \A c \in Clients \ outpaced : ClientInv(c)

-----------------------------------------------------------------------------
(* Types and counts. *)

\* Nobody has registered yet.
LEMMA InitBaseInv == Init => BaseInv
  <1> SUFFICES ASSUME Init PROVE BaseInv
    OBVIOUS
  <1> USE WindowsDumpRequestAssumption DEF WindowsDumpRequestAssumption, Init
  <1>1. Busy = {}
    BY DEF Busy, Counted
  <1>2. CountInv
    BY <1>1, FS_EmptySet DEF CountInv
  <1>3. Cardinality(Clients) \in Nat
    BY FS_CardinalityType
  <1>4. TypeOK
    BY <1>3 DEF TypeOK
  <1> QED
    BY <1>2, <1>4 DEF BaseInv, OutpacedInv

\* There are at most as many work items as clients.
LEMMA CountIsOfType ==
    ASSUME NEW S \in SUBSET Clients
    PROVE  Cardinality(S) \in 0..Cardinality(Clients)
  <1>1. IsFiniteSet(Clients) /\ IsFiniteSet(S)
    BY WindowsDumpRequestAssumption, FS_Subset DEF WindowsDumpRequestAssumption
  <1>2. Cardinality(S) \in Nat /\ Cardinality(Clients) \in Nat
    BY <1>1, FS_CardinalityType
  <1>3. Cardinality(S) <= Cardinality(Clients)
    BY <1>1, FS_Subset
  <1> QED
    BY <1>2, <1>3

\* Every work item is counted before it is queued and counted off when done.
LEMMA StepCountInv == BaseInv /\ [Next]_vars => CountInv'
  <1> SUFFICES ASSUME BaseInv, [Next]_vars PROVE CountInv'
    OBVIOUS
  <1> USE DEF CountInv, Busy, Counted
  <1>0. CountInv /\ TypeOK
    BY DEF BaseInv
  <1> USE DEF Put
  <1>1. CASE UNCHANGED <<item, ending, cleanup_item_count_>>
    BY <1>0, <1>1
  <1>2. ASSUME NEW c \in Clients, OnClientEnd(c) PROVE CountInv'
    <2>1. Busy' = Busy /\ UNCHANGED cleanup_item_count_
      BY <1>0, <1>2 DEF OnClientEnd, TypeOK
    <2> QED
      BY <1>0, <1>2, <2>1 DEF OnClientEnd, TypeOK
  <1>3. ASSUME NEW c \in Clients, CountCleanup(c) PROVE CountInv'
    <2>1. c \notin Busy /\ item[c] = "none" /\ Busy' = Busy \cup {c}
      BY <1>0, <1>3 DEF CountCleanup, TypeOK
    <2>2. IsFiniteSet(Busy') /\ cleanup_item_count_' = Cardinality(Busy')
      BY <1>0, <1>3, <2>1, FS_AddElement DEF CountCleanup
    <2> QED
      BY <1>0, <1>3, <2>1, <2>2 DEF CountCleanup, TypeOK
  <1>4. ASSUME NEW c \in Clients, QueueCleanup(c) PROVE CountInv'
    <2>1. Busy' = Busy /\ UNCHANGED cleanup_item_count_
      BY <1>0, <1>4 DEF QueueCleanup, TypeOK
    <2>2. \A d \in Clients : item'[d] # "none" => ending'[d] = "done"
      BY <1>0, <1>4 DEF QueueCleanup, TypeOK
    <2> QED
      BY <1>0, <2>1, <2>2
  <1>5. ASSUME NEW c \in Clients, UncountCleanup(c) PROVE CountInv'
    <2>1. c \in Busy /\ item[c] = "none" /\ Busy' = Busy \ {c}
      BY <1>0, <1>5 DEF UncountCleanup, TypeOK
    <2>2. IsFiniteSet(Busy') /\ cleanup_item_count_' = Cardinality(Busy')
      BY <1>0, <1>5, <2>1, FS_RemoveElement DEF UncountCleanup
    <2> QED
      BY <1>0, <1>5, <2>1, <2>2 DEF UncountCleanup, TypeOK
  <1>6. ASSUME NEW c \in Clients, CleanupReturns(c) PROVE CountInv'
    <2>1. c \in Busy /\ Busy' = Busy \ {c} /\ UNCHANGED ending
      BY <1>0, <1>6 DEF CleanupReturns, TypeOK
    <2>2. IsFiniteSet(Busy') /\ cleanup_item_count_' = Cardinality(Busy')
      BY <1>0, <1>6, <2>1, FS_RemoveElement DEF CleanupReturns
    <2> QED
      BY <1>0, <1>6, <2>1, <2>2 DEF CleanupReturns, TypeOK
  <1>7. ASSUME NEW c \in Clients,
               CleanupClient(c) \/ UnregisterRequestWait(c) \/ DeleteClientInfo(c)
        PROVE  CountInv'
    <2>1. Busy' = Busy /\ UNCHANGED <<ending, cleanup_item_count_>>
      BY <1>0, <1>7 DEF CleanupClient, UnregisterRequestWait, DeleteClientInfo, TypeOK
    <2>2. \A d \in Clients : item'[d] # "none" => ending'[d] = "done"
      BY <1>0, <1>7 DEF CleanupClient, UnregisterRequestWait, DeleteClientInfo, TypeOK
    <2> QED
      BY <1>0, <2>1, <2>2
  <1>8. CASE ServerDies
    <2>1. Busy' = {}
      BY <1>8 DEF ServerDies
    <2> QED
      BY <1>8, <2>1, FS_EmptySet DEF ServerDies
  <1>9. ASSUME NEW c \in Clients,
               \/ Respond(c) \/ AddClient(c) \/ RequestDump(c) \/ Waits(c) \/ TimesOut(c)
               \/ Die(c) \/ DumpCallback(c)
        PROVE  CountInv'
    BY <1>1, <1>9 DEF Respond, AddClient, AddClientFails, WaitForRequest, WaitForExit,
       StoreExitHandle, PushBack, RequestDump, Waits, ResetDumpGenerated, SignalCrashEvent,
       Answered, ServerGone, TimesOut, Die, DumpCallback, OnDumpRequest, GenerateDump,
       SignalDumpGenerated, ResetDumpRequest, workVars
  <1>10. CASE BeginShutdown \/ Destructor \/ StartThreadEnds
    BY <1>1, <1>10 DEF BeginShutdown, Destructor, UnregisterWaits, AwaitItems, DeleteClients,
       ReleaseMutex, StartThreadEnds, workVars
  <1>11. CASE UNCHANGED vars
    BY <1>1, <1>11 DEF vars, workVars
  <1> QED
    BY <1>2, <1>3, <1>4, <1>5, <1>6, <1>7, <1>8, <1>9, <1>10, <1>11
    DEF Next, EndCallback, CleanupItem

\* Every step keeps the types.
LEMMA StepTypeOK == BaseInv /\ [Next]_vars => TypeOK'
  <1> SUFFICES ASSUME BaseInv, [Next]_vars PROVE TypeOK'
    OBVIOUS
  <1>0. TypeOK /\ cleanup_item_count_' \in 0..Cardinality(Clients)
    <2>1. CountInv' /\ Busy' \subseteq Clients
      BY StepCountInv DEF Busy
    <2> QED
      BY <2>1, CountIsOfType DEF BaseInv, CountInv
  <1> USE <1>0 DEF TypeOK, Put, clientVars, eventVars, infoVars, waitVars, workVars, dtorVars,
                   dumpVars
  <1>1. ASSUME NEW c \in Clients, Respond(c) PROVE TypeOK'
    BY <1>1 DEF Respond
  <1>2. ASSUME NEW c \in Clients, AddClientFails(c) PROVE TypeOK'
    BY <1>2 DEF AddClientFails
  <1>3. ASSUME NEW c \in Clients, WaitForRequest(c) PROVE TypeOK'
    BY <1>3 DEF WaitForRequest
  <1>4. ASSUME NEW c \in Clients, WaitForExit(c) PROVE TypeOK'
    BY <1>4 DEF WaitForExit
  <1>5. ASSUME NEW c \in Clients, StoreExitHandle(c) PROVE TypeOK'
    BY <1>5 DEF StoreExitHandle
  <1>6. ASSUME NEW c \in Clients, PushBack(c) PROVE TypeOK'
    BY <1>6 DEF PushBack
  <1>7. ASSUME NEW c \in Clients, RequestDump(c) PROVE TypeOK'
    BY <1>7 DEF RequestDump
  <1>8. ASSUME NEW c \in Clients, ResetDumpGenerated(c) PROVE TypeOK'
    BY <1>8 DEF ResetDumpGenerated
  <1>9. ASSUME NEW c \in Clients, SignalCrashEvent(c) PROVE TypeOK'
    BY <1>9 DEF SignalCrashEvent
  <1>10. ASSUME NEW c \in Clients, Answered(c) PROVE TypeOK'
    BY <1>10 DEF Answered
  <1>11. ASSUME NEW c \in Clients, ServerGone(c) PROVE TypeOK'
    BY <1>11 DEF ServerGone
  <1>12. ASSUME NEW c \in Clients, TimesOut(c) PROVE TypeOK'
    BY <1>12 DEF TimesOut
  <1>13. ASSUME NEW c \in Clients, Die(c) PROVE TypeOK'
    BY <1>13 DEF Die
  <1>14. ASSUME NEW c \in Clients, OnDumpRequest(c) PROVE TypeOK'
    BY <1>14 DEF OnDumpRequest
  <1>15. ASSUME NEW c \in Clients, GenerateDump(c) PROVE TypeOK'
    BY <1>15 DEF GenerateDump
  <1>16. ASSUME NEW c \in Clients, SignalDumpGenerated(c) PROVE TypeOK'
    BY <1>16 DEF SignalDumpGenerated
  <1>17. ASSUME NEW c \in Clients, ResetDumpRequest(c) PROVE TypeOK'
    BY <1>17 DEF ResetDumpRequest
  <1>18. ASSUME NEW c \in Clients, OnClientEnd(c) PROVE TypeOK'
    BY <1>18 DEF OnClientEnd
  <1>19. ASSUME NEW c \in Clients, CountCleanup(c) PROVE TypeOK'
    BY <1>19 DEF CountCleanup
  <1>20. ASSUME NEW c \in Clients, QueueCleanup(c) PROVE TypeOK'
    BY <1>20 DEF QueueCleanup
  <1>21. ASSUME NEW c \in Clients, UncountCleanup(c) PROVE TypeOK'
    BY <1>21 DEF UncountCleanup
  <1>22. ASSUME NEW c \in Clients, CleanupClient(c) PROVE TypeOK'
    BY <1>22 DEF CleanupClient
  <1>23. ASSUME NEW c \in Clients, UnregisterRequestWait(c) PROVE TypeOK'
    BY <1>23 DEF UnregisterRequestWait
  <1>24. ASSUME NEW c \in Clients, DeleteClientInfo(c) PROVE TypeOK'
    BY <1>24 DEF DeleteClientInfo
  <1>25. ASSUME NEW c \in Clients, CleanupReturns(c) PROVE TypeOK'
    BY <1>25 DEF CleanupReturns
  <1>26. CASE BeginShutdown
    BY <1>26 DEF BeginShutdown
  <1>27. CASE UnregisterWaits
    BY <1>27 DEF UnregisterWaits
  <1>28. CASE AwaitItems
    BY <1>28 DEF AwaitItems
  <1>29. CASE DeleteClients
    BY <1>29 DEF DeleteClients
  <1>30. CASE ReleaseMutex
    BY <1>30 DEF ReleaseMutex
  <1>31. CASE StartThreadEnds
    BY <1>31 DEF StartThreadEnds
  <1>32. CASE ServerDies
    BY <1>32 DEF ServerDies
  <1>33. CASE UNCHANGED vars
    BY <1>33 DEF vars
  <1> QED
    BY <1>1, <1>2, <1>3, <1>4, <1>5, <1>6, <1>7, <1>8, <1>9, <1>10, <1>11, <1>12,
       <1>13, <1>14, <1>15, <1>16, <1>17, <1>18, <1>19, <1>20, <1>21, <1>22, <1>23,
       <1>24, <1>25, <1>26, <1>27, <1>28, <1>29, <1>30, <1>31, <1>32, <1>33
    DEF Next, AddClient, Waits, DumpCallback, EndCallback, CleanupItem, Destructor

\* Only the destructor outruns clients.
LEMMA StepOutpacedInv == OutpacedInv /\ [Next]_vars => OutpacedInv'
  <1> SUFFICES ASSUME OutpacedInv, [Next]_vars PROVE OutpacedInv'
    OBVIOUS
  <1> USE DEF OutpacedInv, dtorVars
  <1>1. ASSUME NEW c \in Clients, Respond(c) PROVE OutpacedInv'
    BY <1>1 DEF Respond
  <1>2. ASSUME NEW c \in Clients, AddClientFails(c) PROVE OutpacedInv'
    BY <1>2 DEF AddClientFails
  <1>3. ASSUME NEW c \in Clients, WaitForRequest(c) PROVE OutpacedInv'
    BY <1>3 DEF WaitForRequest
  <1>4. ASSUME NEW c \in Clients, WaitForExit(c) PROVE OutpacedInv'
    BY <1>4 DEF WaitForExit
  <1>5. ASSUME NEW c \in Clients, StoreExitHandle(c) PROVE OutpacedInv'
    BY <1>5 DEF StoreExitHandle
  <1>6. ASSUME NEW c \in Clients, PushBack(c) PROVE OutpacedInv'
    BY <1>6 DEF PushBack
  <1>7. ASSUME NEW c \in Clients, RequestDump(c) PROVE OutpacedInv'
    BY <1>7 DEF RequestDump
  <1>8. ASSUME NEW c \in Clients, ResetDumpGenerated(c) PROVE OutpacedInv'
    BY <1>8 DEF ResetDumpGenerated
  <1>9. ASSUME NEW c \in Clients, SignalCrashEvent(c) PROVE OutpacedInv'
    BY <1>9 DEF SignalCrashEvent
  <1>10. ASSUME NEW c \in Clients, Answered(c) PROVE OutpacedInv'
    BY <1>10 DEF Answered
  <1>11. ASSUME NEW c \in Clients, ServerGone(c) PROVE OutpacedInv'
    BY <1>11 DEF ServerGone
  <1>12. ASSUME NEW c \in Clients, TimesOut(c) PROVE OutpacedInv'
    BY <1>12 DEF TimesOut
  <1>13. ASSUME NEW c \in Clients, Die(c) PROVE OutpacedInv'
    BY <1>13 DEF Die
  <1>14. ASSUME NEW c \in Clients, OnDumpRequest(c) PROVE OutpacedInv'
    BY <1>14 DEF OnDumpRequest
  <1>15. ASSUME NEW c \in Clients, GenerateDump(c) PROVE OutpacedInv'
    BY <1>15 DEF GenerateDump
  <1>16. ASSUME NEW c \in Clients, SignalDumpGenerated(c) PROVE OutpacedInv'
    BY <1>16 DEF SignalDumpGenerated
  <1>17. ASSUME NEW c \in Clients, ResetDumpRequest(c) PROVE OutpacedInv'
    BY <1>17 DEF ResetDumpRequest
  <1>18. ASSUME NEW c \in Clients, OnClientEnd(c) PROVE OutpacedInv'
    BY <1>18 DEF OnClientEnd
  <1>19. ASSUME NEW c \in Clients, CountCleanup(c) PROVE OutpacedInv'
    BY <1>19 DEF CountCleanup
  <1>20. ASSUME NEW c \in Clients, QueueCleanup(c) PROVE OutpacedInv'
    BY <1>20 DEF QueueCleanup
  <1>21. ASSUME NEW c \in Clients, UncountCleanup(c) PROVE OutpacedInv'
    BY <1>21 DEF UncountCleanup
  <1>22. ASSUME NEW c \in Clients, CleanupClient(c) PROVE OutpacedInv'
    BY <1>22 DEF CleanupClient
  <1>23. ASSUME NEW c \in Clients, UnregisterRequestWait(c) PROVE OutpacedInv'
    BY <1>23 DEF UnregisterRequestWait
  <1>24. ASSUME NEW c \in Clients, DeleteClientInfo(c) PROVE OutpacedInv'
    BY <1>24 DEF DeleteClientInfo
  <1>25. ASSUME NEW c \in Clients, CleanupReturns(c) PROVE OutpacedInv'
    BY <1>25 DEF CleanupReturns
  <1>26. CASE BeginShutdown
    BY <1>26 DEF BeginShutdown
  <1>27. CASE UnregisterWaits
    BY <1>27 DEF UnregisterWaits
  <1>28. CASE AwaitItems
    BY <1>28 DEF AwaitItems
  <1>29. CASE DeleteClients
    BY <1>29 DEF DeleteClients
  <1>30. CASE ReleaseMutex
    BY <1>30 DEF ReleaseMutex
  <1>31. CASE StartThreadEnds
    BY <1>31 DEF StartThreadEnds
  <1>32. CASE ServerDies
    BY <1>32 DEF ServerDies
  <1>33. CASE UNCHANGED vars
    BY <1>33 DEF vars
  <1> QED
    BY <1>1, <1>2, <1>3, <1>4, <1>5, <1>6, <1>7, <1>8, <1>9, <1>10, <1>11, <1>12,
       <1>13, <1>14, <1>15, <1>16, <1>17, <1>18, <1>19, <1>20, <1>21, <1>22, <1>23,
       <1>24, <1>25, <1>26, <1>27, <1>28, <1>29, <1>30, <1>31, <1>32, <1>33
    DEF Next, AddClient, Waits, DumpCallback, EndCallback, CleanupItem, Destructor

\* Types and count hold together.
LEMMA BaseInvariance == Spec => []BaseInv
  <1>1. BaseInv /\ [Next]_vars => BaseInv'
    BY StepTypeOK, StepCountInv, StepOutpacedInv DEF BaseInv
  <1> QED
    BY <1>1, InitBaseInv, PTL DEF Spec

\* The variables keep their types; in particular there are never more counted work
\* items than clients.
THEOREM TypeCorrect == Spec => []TypeOK
  BY BaseInvariance, PTL DEF BaseInv

-----------------------------------------------------------------------------
(* The answer. *)

\* Every step keeps the answers apart, one client at a time.
LEMMA StepAnswerInv ==
    ASSUME TypeOK, NEW d \in Clients, AnswerInv(d), [Next]_vars
    PROVE  AnswerInv(d)'
  <1> USE DEF TypeOK, Put, clientVars, eventVars, infoVars, waitVars, workVars, dtorVars,
              dumpVars, AnswerInv, RequestInv, Quiet, Up
  <1>1. ASSUME NEW c \in Clients, Respond(c) PROVE AnswerInv(d)'
    BY <1>1 DEF Respond
  <1>2. ASSUME NEW c \in Clients, AddClientFails(c) PROVE AnswerInv(d)'
    BY <1>2 DEF AddClientFails
  <1>3. ASSUME NEW c \in Clients, WaitForRequest(c) PROVE AnswerInv(d)'
    BY <1>3 DEF WaitForRequest
  <1>4. ASSUME NEW c \in Clients, WaitForExit(c) PROVE AnswerInv(d)'
    BY <1>4 DEF WaitForExit
  <1>5. ASSUME NEW c \in Clients, StoreExitHandle(c) PROVE AnswerInv(d)'
    BY <1>5 DEF StoreExitHandle
  <1>6. ASSUME NEW c \in Clients, PushBack(c) PROVE AnswerInv(d)'
    BY <1>6 DEF PushBack
  <1>7. ASSUME NEW c \in Clients, RequestDump(c) PROVE AnswerInv(d)'
    BY <1>7 DEF RequestDump
  <1>8. ASSUME NEW c \in Clients, ResetDumpGenerated(c) PROVE AnswerInv(d)'
    BY <1>8 DEF ResetDumpGenerated
  <1>9. ASSUME NEW c \in Clients, SignalCrashEvent(c) PROVE AnswerInv(d)'
    BY <1>9 DEF SignalCrashEvent
  <1>10. ASSUME NEW c \in Clients, Answered(c) PROVE AnswerInv(d)'
    BY <1>10 DEF Answered
  <1>11. ASSUME NEW c \in Clients, ServerGone(c) PROVE AnswerInv(d)'
    BY <1>11 DEF ServerGone
  <1>12. ASSUME NEW c \in Clients, TimesOut(c) PROVE AnswerInv(d)'
    BY <1>12 DEF TimesOut
  <1>13. ASSUME NEW c \in Clients, Die(c) PROVE AnswerInv(d)'
    BY <1>13 DEF Die
  <1>14. ASSUME NEW c \in Clients, OnDumpRequest(c) PROVE AnswerInv(d)'
    BY <1>14 DEF OnDumpRequest
  <1>15. ASSUME NEW c \in Clients, GenerateDump(c) PROVE AnswerInv(d)'
    <2>1. CASE c = d
      <3>1. CASE generate_dumps_
        <4>1. /\ dumping[d] = "generate"
              /\ UNCHANGED <<client, asked, requested, generated, adding, late, dtor>>
          BY <1>15, <2>1, <3>1 DEF GenerateDump
        <4>2. CASE /\ dumping'[d] = "signal"
                   /\ dumped'[d] = dumped[d] \cup {asked[d]}
          <5>1. asked[d] \in dumped'[d] /\ dumped'[d] # {}
            BY <4>2
          <5> QED
            BY <3>1, <4>1, <4>2, <5>1
        <4>3. CASE dumping'[d] = "reset" /\ UNCHANGED dumped
          BY <3>1, <4>1, <4>3
        <4> QED
          BY <1>15, <2>1, <3>1, <4>2, <4>3 DEF GenerateDump
      <3>2. CASE ~generate_dumps_
        BY <1>15, <3>2 DEF GenerateDump
      <3> QED
        BY <3>1, <3>2
    <2>2. CASE c # d
      BY <1>15, <2>2 DEF GenerateDump
    <2> QED
      BY <2>1, <2>2
  <1>16. ASSUME NEW c \in Clients, SignalDumpGenerated(c) PROVE AnswerInv(d)'
    BY <1>16 DEF SignalDumpGenerated
  <1>17. ASSUME NEW c \in Clients, ResetDumpRequest(c) PROVE AnswerInv(d)'
    BY <1>17 DEF ResetDumpRequest
  <1>18. ASSUME NEW c \in Clients, OnClientEnd(c) PROVE AnswerInv(d)'
    BY <1>18 DEF OnClientEnd
  <1>19. ASSUME NEW c \in Clients, CountCleanup(c) PROVE AnswerInv(d)'
    BY <1>19 DEF CountCleanup
  <1>20. ASSUME NEW c \in Clients, QueueCleanup(c) PROVE AnswerInv(d)'
    BY <1>20 DEF QueueCleanup
  <1>21. ASSUME NEW c \in Clients, UncountCleanup(c) PROVE AnswerInv(d)'
    BY <1>21 DEF UncountCleanup
  <1>22. ASSUME NEW c \in Clients, CleanupClient(c) PROVE AnswerInv(d)'
    BY <1>22 DEF CleanupClient
  <1>23. ASSUME NEW c \in Clients, UnregisterRequestWait(c) PROVE AnswerInv(d)'
    BY <1>23 DEF UnregisterRequestWait
  <1>24. ASSUME NEW c \in Clients, DeleteClientInfo(c) PROVE AnswerInv(d)'
    BY <1>24 DEF DeleteClientInfo
  <1>25. ASSUME NEW c \in Clients, CleanupReturns(c) PROVE AnswerInv(d)'
    BY <1>25 DEF CleanupReturns
  <1>26. CASE BeginShutdown
    BY <1>26 DEF BeginShutdown
  <1>27. CASE UnregisterWaits
    BY <1>27 DEF UnregisterWaits
  <1>28. CASE AwaitItems
    BY <1>28 DEF AwaitItems
  <1>29. CASE DeleteClients
    BY <1>29 DEF DeleteClients
  <1>30. CASE ReleaseMutex
    BY <1>30 DEF ReleaseMutex
  <1>31. CASE StartThreadEnds
    BY <1>31 DEF StartThreadEnds
  <1>32. CASE ServerDies
    BY <1>32 DEF ServerDies
  <1>33. CASE UNCHANGED vars
    BY <1>33 DEF vars
  <1> QED
    BY <1>1, <1>2, <1>3, <1>4, <1>5, <1>6, <1>7, <1>8, <1>9, <1>10, <1>11, <1>12,
       <1>13, <1>14, <1>15, <1>16, <1>17, <1>18, <1>19, <1>20, <1>21, <1>22, <1>23,
       <1>24, <1>25, <1>26, <1>27, <1>28, <1>29, <1>30, <1>31, <1>32, <1>33
    DEF Next, AddClient, Waits, DumpCallback, EndCallback, CleanupItem, Destructor

\* RequestDump returns true only if the server has written a dump of this client: of
\* this very request as long as the client has given up none, or of one before; for any
\* number of requests, of a server that generates dumps.
THEOREM AnswerFollowsItsDump == Spec => []TrueMeansDump
  <1> DEFINE Inv == \A c \in Clients : AnswerInv(c)
  <1>1. Init => Inv
    BY DEF Init, AnswerInv, RequestInv, Quiet
  <1>2. BaseInv /\ Inv /\ [Next]_vars => Inv'
    BY StepAnswerInv DEF BaseInv
  <1>3. Inv => TrueMeansDump
    BY DEF AnswerInv, RequestInv, TrueMeansDump
  <1> HIDE DEF Inv
  <1> QED
    BY <1>1, <1>2, <1>3, BaseInvariance, PTL DEF Spec

-----------------------------------------------------------------------------
(* The life of a ClientInfo. *)

\* At first there is no ClientInfo to be freed.
LEMMA InitLifeInv == Init => LifeInv
  BY DEF Init, LifeInv, ClientInv, AddingInv, WaitInv, ItemInv, DestructorInv, FreedInv, Up,
     Added

\* A client the destructor has outrun stays so.
LEMMA StepOutpacedMonotonic == OutpacedInv /\ [Next]_vars => outpaced \subseteq outpaced'
  <1> SUFFICES ASSUME OutpacedInv, [Next]_vars PROVE outpaced \subseteq outpaced'
    OBVIOUS
  <1> USE DEF OutpacedInv, dtorVars
  <1>1. ASSUME NEW c \in Clients, Respond(c) PROVE outpaced \subseteq outpaced'
    BY <1>1 DEF Respond
  <1>2. ASSUME NEW c \in Clients, AddClientFails(c) PROVE outpaced \subseteq outpaced'
    BY <1>2 DEF AddClientFails
  <1>3. ASSUME NEW c \in Clients, WaitForRequest(c) PROVE outpaced \subseteq outpaced'
    BY <1>3 DEF WaitForRequest
  <1>4. ASSUME NEW c \in Clients, WaitForExit(c) PROVE outpaced \subseteq outpaced'
    BY <1>4 DEF WaitForExit
  <1>5. ASSUME NEW c \in Clients, StoreExitHandle(c) PROVE outpaced \subseteq outpaced'
    BY <1>5 DEF StoreExitHandle
  <1>6. ASSUME NEW c \in Clients, PushBack(c) PROVE outpaced \subseteq outpaced'
    BY <1>6 DEF PushBack
  <1>7. ASSUME NEW c \in Clients, RequestDump(c) PROVE outpaced \subseteq outpaced'
    BY <1>7 DEF RequestDump
  <1>8. ASSUME NEW c \in Clients, ResetDumpGenerated(c) PROVE outpaced \subseteq outpaced'
    BY <1>8 DEF ResetDumpGenerated
  <1>9. ASSUME NEW c \in Clients, SignalCrashEvent(c) PROVE outpaced \subseteq outpaced'
    BY <1>9 DEF SignalCrashEvent
  <1>10. ASSUME NEW c \in Clients, Answered(c) PROVE outpaced \subseteq outpaced'
    BY <1>10 DEF Answered
  <1>11. ASSUME NEW c \in Clients, ServerGone(c) PROVE outpaced \subseteq outpaced'
    BY <1>11 DEF ServerGone
  <1>12. ASSUME NEW c \in Clients, TimesOut(c) PROVE outpaced \subseteq outpaced'
    BY <1>12 DEF TimesOut
  <1>13. ASSUME NEW c \in Clients, Die(c) PROVE outpaced \subseteq outpaced'
    BY <1>13 DEF Die
  <1>14. ASSUME NEW c \in Clients, OnDumpRequest(c) PROVE outpaced \subseteq outpaced'
    BY <1>14 DEF OnDumpRequest
  <1>15. ASSUME NEW c \in Clients, GenerateDump(c) PROVE outpaced \subseteq outpaced'
    BY <1>15 DEF GenerateDump
  <1>16. ASSUME NEW c \in Clients, SignalDumpGenerated(c) PROVE outpaced \subseteq outpaced'
    BY <1>16 DEF SignalDumpGenerated
  <1>17. ASSUME NEW c \in Clients, ResetDumpRequest(c) PROVE outpaced \subseteq outpaced'
    BY <1>17 DEF ResetDumpRequest
  <1>18. ASSUME NEW c \in Clients, OnClientEnd(c) PROVE outpaced \subseteq outpaced'
    BY <1>18 DEF OnClientEnd
  <1>19. ASSUME NEW c \in Clients, CountCleanup(c) PROVE outpaced \subseteq outpaced'
    BY <1>19 DEF CountCleanup
  <1>20. ASSUME NEW c \in Clients, QueueCleanup(c) PROVE outpaced \subseteq outpaced'
    BY <1>20 DEF QueueCleanup
  <1>21. ASSUME NEW c \in Clients, UncountCleanup(c) PROVE outpaced \subseteq outpaced'
    BY <1>21 DEF UncountCleanup
  <1>22. ASSUME NEW c \in Clients, CleanupClient(c) PROVE outpaced \subseteq outpaced'
    BY <1>22 DEF CleanupClient
  <1>23. ASSUME NEW c \in Clients, UnregisterRequestWait(c) PROVE outpaced \subseteq outpaced'
    BY <1>23 DEF UnregisterRequestWait
  <1>24. ASSUME NEW c \in Clients, DeleteClientInfo(c) PROVE outpaced \subseteq outpaced'
    BY <1>24 DEF DeleteClientInfo
  <1>25. ASSUME NEW c \in Clients, CleanupReturns(c) PROVE outpaced \subseteq outpaced'
    BY <1>25 DEF CleanupReturns
  <1>26. CASE BeginShutdown
    BY <1>26 DEF BeginShutdown
  <1>27. CASE UnregisterWaits
    BY <1>27 DEF UnregisterWaits
  <1>28. CASE AwaitItems
    BY <1>28 DEF AwaitItems
  <1>29. CASE DeleteClients
    BY <1>29 DEF DeleteClients
  <1>30. CASE ReleaseMutex
    BY <1>30 DEF ReleaseMutex
  <1>31. CASE StartThreadEnds
    BY <1>31 DEF StartThreadEnds
  <1>32. CASE ServerDies
    BY <1>32 DEF ServerDies
  <1>33. CASE UNCHANGED vars
    BY <1>33 DEF vars
  <1> QED
    BY <1>1, <1>2, <1>3, <1>4, <1>5, <1>6, <1>7, <1>8, <1>9, <1>10, <1>11, <1>12,
       <1>13, <1>14, <1>15, <1>16, <1>17, <1>18, <1>19, <1>20, <1>21, <1>22, <1>23,
       <1>24, <1>25, <1>26, <1>27, <1>28, <1>29, <1>30, <1>31, <1>32, <1>33
    DEF Next, AddClient, Waits, DumpCallback, EndCallback, CleanupItem, Destructor

\* A count of zero means that no client has a work item.
LEMMA NoneCounted ==
    ASSUME BaseInv, cleanup_item_count_ = 0, NEW c \in Clients
    PROVE  ~Counted(c)
  <1>1. Busy = {}
    BY FS_EmptySet DEF BaseInv, CountInv
  <1> QED
    BY <1>1 DEF Busy

\* Every step leaves a ClientInfo to who uses it, one client at a time.
LEMMA StepClientInv ==
    ASSUME ~EarlyDeath, BaseInv, LifeInv, [Next]_vars, NEW d \in Clients, d \notin outpaced'
    PROVE  ClientInv(d)'
  <1>0. /\ TypeOK /\ TypeOK' /\ ClientInv(d) /\ d \notin outpaced
        /\ item[d] # "none" => ending[d] = "done"
    <2>1. d \notin outpaced
      <3>1. outpaced \subseteq outpaced'
        BY StepOutpacedMonotonic DEF BaseInv
      <3> QED
        BY <3>1
    <2> QED
      BY <2>1, StepTypeOK DEF BaseInv, LifeInv, CountInv
  <1> USE <1>0 DEF TypeOK, Put, clientVars, eventVars, infoVars, waitVars, workVars, dtorVars,
                   dumpVars, ClientInv, AddingInv, WaitInv, ItemInv, DestructorInv, FreedInv,
                   Up, Added, Counted
  <1>1. ASSUME NEW c \in Clients, Respond(c) PROVE ClientInv(d)'
    BY <1>1 DEF Respond
  <1>2. ASSUME NEW c \in Clients, AddClientFails(c) PROVE ClientInv(d)'
    BY <1>2 DEF AddClientFails
  <1>3. ASSUME NEW c \in Clients, WaitForRequest(c) PROVE ClientInv(d)'
    BY <1>3 DEF WaitForRequest
  <1>4. ASSUME NEW c \in Clients, WaitForExit(c) PROVE ClientInv(d)'
    BY <1>4 DEF WaitForExit
  <1>5. ASSUME NEW c \in Clients, StoreExitHandle(c) PROVE ClientInv(d)'
    BY <1>5 DEF StoreExitHandle
  <1>6. ASSUME NEW c \in Clients, PushBack(c) PROVE ClientInv(d)'
    BY <1>6 DEF PushBack
  <1>7. ASSUME NEW c \in Clients, RequestDump(c) PROVE ClientInv(d)'
    BY <1>7 DEF RequestDump
  <1>8. ASSUME NEW c \in Clients, ResetDumpGenerated(c) PROVE ClientInv(d)'
    BY <1>8 DEF ResetDumpGenerated
  <1>9. ASSUME NEW c \in Clients, SignalCrashEvent(c) PROVE ClientInv(d)'
    BY <1>9 DEF SignalCrashEvent
  <1>10. ASSUME NEW c \in Clients, Answered(c) PROVE ClientInv(d)'
    BY <1>10 DEF Answered
  <1>11. ASSUME NEW c \in Clients, ServerGone(c) PROVE ClientInv(d)'
    BY <1>11 DEF ServerGone
  <1>12. ASSUME NEW c \in Clients, TimesOut(c) PROVE ClientInv(d)'
    BY <1>12 DEF TimesOut
  <1>13. ASSUME NEW c \in Clients, Die(c) PROVE ClientInv(d)'
    BY <1>13 DEF Die, Destroyed
  <1>14. ASSUME NEW c \in Clients, OnDumpRequest(c) PROVE ClientInv(d)'
    BY <1>14 DEF OnDumpRequest
  <1>15. ASSUME NEW c \in Clients, GenerateDump(c) PROVE ClientInv(d)'
    BY <1>15 DEF GenerateDump
  <1>16. ASSUME NEW c \in Clients, SignalDumpGenerated(c) PROVE ClientInv(d)'
    BY <1>16 DEF SignalDumpGenerated
  <1>17. ASSUME NEW c \in Clients, ResetDumpRequest(c) PROVE ClientInv(d)'
    BY <1>17 DEF ResetDumpRequest
  <1>18. ASSUME NEW c \in Clients, OnClientEnd(c) PROVE ClientInv(d)'
    BY <1>18 DEF OnClientEnd
  <1>19. ASSUME NEW c \in Clients, CountCleanup(c) PROVE ClientInv(d)'
    BY <1>19 DEF CountCleanup
  <1>20. ASSUME NEW c \in Clients, QueueCleanup(c) PROVE ClientInv(d)'
    BY <1>20 DEF QueueCleanup
  <1>21. ASSUME NEW c \in Clients, UncountCleanup(c) PROVE ClientInv(d)'
    BY <1>21 DEF UncountCleanup
  <1>22. ASSUME NEW c \in Clients, CleanupClient(c) PROVE ClientInv(d)'
    BY <1>22 DEF CleanupClient
  <1>23. ASSUME NEW c \in Clients, UnregisterRequestWait(c) PROVE ClientInv(d)'
    BY <1>23 DEF UnregisterRequestWait
  <1>24. ASSUME NEW c \in Clients, DeleteClientInfo(c) PROVE ClientInv(d)'
    BY <1>24 DEF DeleteClientInfo
  <1>25. ASSUME NEW c \in Clients, CleanupReturns(c) PROVE ClientInv(d)'
    BY <1>25 DEF CleanupReturns
  <1>26. CASE BeginShutdown
    BY <1>26 DEF BeginShutdown
  <1>27. CASE UnregisterWaits
    BY <1>27 DEF UnregisterWaits
  <1>28. CASE AwaitItems
    \* Either no work item is left, or the destructor loses its patience with those.
    <2>1. ~Counted(d)
      <3>1. CASE cleanup_item_count_ = 0
        BY <3>1, NoneCounted
      <3>2. CASE cleanup_item_count_ > 0
        BY <1>28, <3>2 DEF AwaitItems
      <3> QED
        BY <1>28, <3>1, <3>2 DEF AwaitItems
    <2> QED
      BY <1>28, <2>1 DEF AwaitItems
  <1>29. CASE DeleteClients
    BY <1>29 DEF DeleteClients
  <1>30. CASE ReleaseMutex
    BY <1>30 DEF ReleaseMutex
  <1>31. CASE StartThreadEnds
    BY <1>31 DEF StartThreadEnds
  <1>32. CASE ServerDies
    BY <1>32 DEF ServerDies
  <1>33. CASE UNCHANGED vars
    BY <1>33 DEF vars
  <1> QED
    BY <1>1, <1>2, <1>3, <1>4, <1>5, <1>6, <1>7, <1>8, <1>9, <1>10, <1>11, <1>12,
       <1>13, <1>14, <1>15, <1>16, <1>17, <1>18, <1>19, <1>20, <1>21, <1>22, <1>23,
       <1>24, <1>25, <1>26, <1>27, <1>28, <1>29, <1>30, <1>31, <1>32, <1>33
    DEF Next, AddClient, Waits, DumpCallback, EndCallback, CleanupItem, Destructor

\* If nobody dies while AddClient registers it, a ClientInfo is freed when its users
\* are done.
LEMMA LifeInvariance ==
    ASSUME ~EarlyDeath
    PROVE  Spec => []LifeInv
  <1>1. BaseInv /\ LifeInv /\ [Next]_vars => LifeInv'
    BY StepClientInv DEF LifeInv
  <1> QED
    BY <1>1, InitLifeInv, BaseInvariance, PTL DEF Spec

\* No ClientInfo is deleted twice, or while a callback, its work item or AddClient
\* uses it, or while the list has it, but those the destructor does not wait for, if
\* clients live until they are added.
THEOREM InfosOutliveTheirUsers ==
    ASSUME ~EarlyDeath
    PROVE  Spec => []InfoOutlivesItsUsers
  <1>1. BaseInv /\ LifeInv => InfoOutlivesItsUsers
    <2> SUFFICES ASSUME BaseInv, LifeInv, NEW c \in Clients \ outpaced
                 PROVE  /\ freed[c] <= 1
                        /\ info[c] = "deleted" =>
                              /\ dumping[c] = "idle" /\ ending[c] \in {"idle", "done"}
                              /\ item[c] \in {"none", "deleted"}
                              /\ Added(c)
                              /\ c \in clients_ => dtor \in {"release", "gone"}
      BY DEF InfoOutlivesItsUsers
    <2>1. ClientInv(c) /\ TypeOK
      BY DEF LifeInv, BaseInv
    <2> QED
      BY <2>1 DEF TypeOK, ClientInv, AddingInv, WaitInv, ItemInv, DestructorInv, FreedInv, Up,
         Added
  <1> QED
    BY <1>1, BaseInvariance, LifeInvariance, PTL

\* The destructor counts every work item that OnClientEnd has counted by then, and no
\* thread is in the server's code when it is gone, but those it does not wait for.
THEOREM ServerOutlivesAll ==
    ASSUME ~EarlyDeath
    PROVE  Spec => []ServerOutlivesItsWork
  <1>1. BaseInv /\ LifeInv => ServerOutlivesItsWork
    <2> SUFFICES ASSUME BaseInv, LifeInv, dtor = "gone", NEW c \in Clients \ outpaced
                 PROVE  dumping[c] = "idle" /\ ending[c] \in {"idle", "done"} /\ item[c] = "none"
      BY DEF ServerOutlivesItsWork
    <2>1. ClientInv(c) /\ TypeOK
      BY DEF LifeInv, BaseInv
    <2> QED
      BY <2>1 DEF TypeOK, ClientInv, AddingInv, WaitInv, ItemInv, DestructorInv, Up, Added,
         Counted
  <1> QED
    BY <1>1, BaseInvariance, LifeInvariance, PTL
=============================================================================
