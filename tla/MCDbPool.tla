------------------------------ MODULE MCDbPool ------------------------------
(***************************************************************************)
(* Model values for DbPool: a login and a registration, which between them *)
(* take every path of the handlers, over two connections.                  *)
(***************************************************************************)
EXTENDS DbPool, TLC

CONSTANTS l1, r1

TwoCoros == {l1, r1}
OneLogin == {l1}
=============================================================================
