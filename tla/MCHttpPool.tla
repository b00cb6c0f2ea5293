------------------------------ MODULE MCHttpPool ------------------------------
(* Instances of HttpPool: more requests than connections, so that they wait, *)
(* and one retry.                                                            *)
EXTENDS HttpPool, TLC
=============================================================================
