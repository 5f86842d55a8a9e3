------------------------------ MODULE MCLogger ------------------------------
(***************************************************************************)
(* Model values for Logger: two threads, of which main has called log_init.*)
(***************************************************************************)
EXTENDS Logger

CONSTANTS main, worker

TwoThreads == {main, worker}
=============================================================================
