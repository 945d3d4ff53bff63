---------------------------- MODULE MCKeyBackup ----------------------------
(* Instances of KeyBackup for TLC. *)
EXTENDS KeyBackup

CONSTANTS k1, k2, t1, t2, t3
=============================================================================
