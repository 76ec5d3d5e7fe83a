----------------------- MODULE MCLinuxCrashGeneration -----------------------
(* TLC instances of LinuxCrashGeneration: the clients are interchangeable.   *)
EXTENDS LinuxCrashGeneration, TLC

Symmetry == Permutations(Clients)
=============================================================================
