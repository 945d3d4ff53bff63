----------------------------- MODULE MCStateRes -----------------------------
(***************************************************************************)
(* Instances of StateRes for TLC: the events of a small room with two      *)
(* users, and every pair of state maps made of them that has the creation  *)
(* of the room.                                                            *)
(***************************************************************************)
EXTENDS StateRes, TLC

Empty == [x \in {} |-> 0]

Base(type, key, sender, auths, ts) ==
  [type |-> type, key |-> key, sender |-> sender, auths |-> auths, ts |-> ts,
   membership |-> "", users |-> Empty, usersDefault |-> 0, events |-> Empty,
   stateDefault |-> 0]

(***************************************************************************)
(* alice creates the room and names bob a moderator, who demotes himself   *)
(* (and makes a negative level the default), invites by email and leaves.  *)
(***************************************************************************)
SmallRoom == <<
  Base("create", "", "alice", {}, 1),
  [Base("member", "alice", "alice", {1}, 2) EXCEPT !.membership = "join"],
  [Base("power_levels", "", "alice", {1, 2}, 3) EXCEPT
     !.users = "alice" :> 100 @@ "bob" :> 50],
  [Base("power_levels", "", "alice", {1, 2, 3}, 5) EXCEPT
     !.users = "alice" :> 100 @@ "bob" :> 100, !.stateDefault = 60],
  [Base("power_levels", "", "bob", {1, 4, 6}, 5) EXCEPT
     !.users = "alice" :> 100, !.events = "topic" :> 0, !.stateDefault = -10],
  [Base("member", "bob", "bob", {1, 3}, 4) EXCEPT !.membership = "join"],
  [Base("member", "bob", "alice", {1, 3, 2, 6}, 5) EXCEPT !.membership = "ban"],
  Base("topic", "", "alice", {1, 2, 3}, 6),
  Base("topic", "", "bob", {1, 6, 4}, 6),
  Base("third_party_invite", "token", "bob", {1, 6, 3}, 6),
  Base("join_rules", "", "alice", {1, 2, 3}, 6),
  [Base("member", "bob", "bob", {1, 3, 6}, 7) EXCEPT !.membership = "leave"] >>

(* For each tuple, what a map may hold: 0 stands for nothing. *)
Holdings == {0, 2} \X {0, 3, 4, 5} \X {0, 6, 7, 12} \X {8, 9} \X {0, 10, 11}

MapOf(E) == [x \in {Tuple(e) : e \in E} |-> CHOOSE e \in E : Tuple(e) = x]

Maps == {MapOf({1} \cup ({c[i] : i \in 1 .. 5} \ {0})) : c \in Holdings}

SmallInputs == {<<a, b>> : a \in Maps, b \in Maps} \cup {<<a>> : a \in Maps}
=============================================================================
