---------------------------- MODULE MCDeviceKeys ----------------------------
(* Instances of DeviceKeys for TLC. *)
EXTENDS DeviceKeys, TLC

CONSTANTS k1, k2, f1, i1, i2, g1, g2, s1, s2, t1, t2

Symmetry == Permutations(Threads) \cup Permutations(Signers)
              \cup Permutations(KeyIds)
=============================================================================
