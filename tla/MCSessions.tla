----------------------------- MODULE MCSessions -----------------------------
(* Instances of Sessions for TLC. *)
EXTENDS Sessions, TLC

CONSTANTS alice, bob, d1, d2, t1, t2

(* One device each. *)
OneEach == [d \in {d1, d2} |-> IF d = d1 THEN alice ELSE bob]

Symmetry == Permutations(Threads)
=============================================================================
