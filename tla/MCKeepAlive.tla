---------------------------- MODULE MCKeepAlive -----------------------------
(***************************************************************************)
(* Model values for KeepAlive: a program with its child, and one process   *)
(* more, so that a parent can be started beside an orphan if the lock lets *)
(* it; two children are killed.                                            *)
(***************************************************************************)
EXTENDS KeepAlive, TLC

CONSTANTS p1, p2, p3, p4

FourProcs == {p1, p2, p3, p4}
=============================================================================
