---------------------- MODULE MCLinuxExceptionHandler ----------------------
(* TLC instances of LinuxExceptionHandler.                                   *)
EXTENDS LinuxExceptionHandler

\* Two of the signals of kExceptionSignals stand for all five.
MCSignals == <<"SEGV", "ABRT">>
OneSignal == <<"SEGV">>
=============================================================================
