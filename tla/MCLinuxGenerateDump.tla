------------------------ MODULE MCLinuxGenerateDump ------------------------
(* TLC instances of LinuxGenerateDump.                                       *)
EXTENDS LinuxGenerateDump

\* What the uninitialized fdes may hold before the first dump.
NoDescriptor == {<<-1, -1>>}
Stdio == {<<0, 1>>}
=============================================================================
