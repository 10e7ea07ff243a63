-------------------------- MODULE MCConnectionPool --------------------------
(***************************************************************************)
(* An instance of ConnectionPool for TLC: more requests than connections,  *)
(* and as many confirms as it takes for one to lose its session under the  *)
(* lock while another waits for it.                                        *)
(***************************************************************************)
EXTENDS ConnectionPool

CONSTANTS r1, r2, r3

SomeConfirm == {r1, r2}
=============================================================================
