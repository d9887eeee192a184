--------------------------- MODULE MCDispatchDrive ---------------------------
(* Two socket threads, two dispatch threads and two more threads that ask. *)
EXTENDS DispatchDrive

CONSTANTS timer, app

FourThreads == {0, 1, timer, app}
=============================================================================
