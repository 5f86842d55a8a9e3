---------------------------- MODULE MCAuthServer ----------------------------
(***************************************************************************)
(* Model values for AuthServer: a login and a registration from two        *)
(* connections, two heap cells, one database connection.                   *)
(***************************************************************************)
EXTENDS AuthServer, TLC

CONSTANTS l1, r1, m1, m2

AllCoros  == {l1, r1}
AllLogins == {l1}
TwoCells  == {m1, m2}
=============================================================================
