---------------------------- MODULE MCSampleHttp ----------------------------
(***************************************************************************)
(* Model values for SampleHttp: two loops, the sites of add and subtract,  *)
(* and three clients over two heap cells, so that a cell is used again     *)
(* while a job still points to it.                                         *)
(***************************************************************************)
EXTENDS SampleHttp, TLC

CONSTANTS l1, l2, add, subtract

TwoLoops == {l1, l2}
TwoSites == {add, subtract}
=============================================================================
