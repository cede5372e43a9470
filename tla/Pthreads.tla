---------------------- MODULE Pthreads ----------------------
(***************************************************************************)
(* The threads of the process, for every other module.                     *)
(***************************************************************************)
CONSTANTS
  Threads,        \* the threads of the process
  NoThread        \* the NULL thread pointer

ASSUME ThreadAssumption == NoThread \notin Threads
=============================================================================
