-------------------------- MODULE OutOfProcessDump --------------------------
(***************************************************************************)
(* What out-of-process crash generation promises its clients, whatever the  *)
(* platform: a crashed client asks another process for a minidump and stays *)
(* blocked until it is released; it is told of success only when a dump of  *)
(* this very request has been written, and no dump is written of a client   *)
(* that has already been let go.                                            *)
(***************************************************************************)
CONSTANT Clients

VARIABLES
    phase,    \* [Clients -> {"running", "waiting", "released", "gone"}]
    dumped,   \* clients whose current request has been dumped
    success   \* released clients that were told their dump was written

vars == <<phase, dumped, success>>

Init ==
    /\ phase = [c \in Clients |-> "running"]
    /\ dumped = {}
    /\ success = {}

\* A client crashes, or wants a dump of itself, and asks for one.
Ask(c) ==
    /\ phase[c] \in {"running", "released"}
    /\ phase' = [phase EXCEPT ![c] = "waiting"]
    /\ dumped' = dumped \ {c}
    /\ success' = success \ {c}

\* The server writes a dump of a client that is held, or was killed while held.
Dump(c) ==
    /\ phase[c] \in {"waiting", "gone"}
    /\ dumped' = dumped \cup {c}
    /\ UNCHANGED <<phase, success>>

\* The client is let go; it may hear of success only after its dump.
Release(c) ==
    /\ phase[c] = "waiting"
    /\ phase' = [phase EXCEPT ![c] = "released"]
    /\ \/ c \in dumped /\ success' = success \cup {c}
       \/ UNCHANGED success
    /\ UNCHANGED dumped

\* The client process ends: it is killed, or it dies of its crash.
Vanish(c) ==
    /\ phase' = [phase EXCEPT ![c] = "gone"]
    /\ success' = success \ {c}
    /\ UNCHANGED dumped

Next == \E c \in Clients : Ask(c) \/ Dump(c) \/ Release(c) \/ Vanish(c)

Spec == Init /\ [][Next]_vars
=============================================================================
