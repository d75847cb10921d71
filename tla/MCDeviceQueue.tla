--------------------------- MODULE MCDeviceQueue ---------------------------
(* A program for three threads: a buffer is allocated, a host call and a   *)
(* command buffer use it, a non-blocking call follows, the buffer is given *)
(* back; a third thread only waits for the host call.  `use` waits on two  *)
(* producers and signals two consumers.                                    *)
EXTENDS DeviceQueue, TLC

CONSTANTS main, helper, watcher, new, call, use, tell, free, log, a, b, c

MCProgram == main :> <<new, use, free>> @@ helper :> <<call, tell>> @@ watcher :> <<log>>

MCKind ==
  new :> "alloca" @@ call :> "host_call" @@ use :> "execute" @@
  tell :> "nonblocking_call" @@ free :> "dealloca" @@ log :> "execute"

MCWaits ==
  new :> <<>> @@ call :> << <<a, 1>> >> @@ use :> << <<a, 1>>, <<b, 1>> >> @@
  tell :> << <<c, 1>> >> @@ free :> << <<b, 2>>, <<a, 2>> >> @@
  log :> << <<b, 1>> >>

MCSignals ==
  new :> << <<a, 1>> >> @@ call :> << <<b, 1>> >> @@ use :> << <<a, 2>>, <<c, 1>> >> @@
  tell :> << <<b, 2>> >> @@ free :> << <<a, 3>> >> @@ log :> <<>>

\* The program can finish, so that what NoSilentHang reports is not its fault.
ASSUME ProgramOrderly == Orderly
=============================================================================
