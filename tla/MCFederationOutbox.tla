------------------------- MODULE MCFederationOutbox -------------------------
(* Instances of FederationOutbox for TLC. *)
EXTENDS FederationOutbox, TLC

CONSTANTS e1, e2, d1, d2

(* e1 is about a user of d1 (say an invite), e2 is a message. *)
InviteAndMessage == [e \in Events |-> IF e = e1 THEN {d1} ELSE {}]
=============================================================================
