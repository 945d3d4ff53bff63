----------------------------- MODULE MCRoomDag -----------------------------
(* Instances of RoomDag for TLC. *)
EXTENDS RoomDag, TLC

CONSTANTS alice, bob, carol, t1, t2

Pair(k, c) == [key |-> k, content |-> c]

(* alice and bob are local, carol lives on another server. *)
TwoLocals == {alice, bob}
OneLocal  == {alice}
TwoServers == {alice, carol}

NoPairs == {}

(* State a client changes: a ban, who may invite, a member event without  *)
(* a membership.                                                           *)
BanPair   == {Pair(Member(bob), "ban")}
RulePairs == {Pair(PowerLevelsKey, "restricted"),
              Pair(Member(carol), "")}
TopicPairs == {Pair(TopicKey, "")}

RulePreview   == {Pair(JoinRulesKey, "invite"), Pair(TopicKey, "")}

(* What a remote server sends: a message, or a departure. *)
RemotePairs   == {Pair(NoKey, ""), Pair(Member(carol), "leave")}
CarolComesAndGoes == {Pair(Member(carol), "join"), Pair(Member(carol), "leave")}

Symmetry == Permutations(Threads)
=============================================================================
