----------------------------- MODULE MCDbQuery -----------------------------
(* Instances of DbQuery for TLC.                                            *)
EXTENDS DbQuery

CONSTANTS c1, c2, c3
=============================================================================
