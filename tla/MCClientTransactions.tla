------------------------ MODULE MCClientTransactions ------------------------
(* Instances of ClientTransactions for TLC. *)
EXTENDS ClientTransactions

CONSTANTS roomA, ta, tb, d1, s1, m1, t1, t2
=============================================================================
