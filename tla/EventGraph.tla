----------------------------- MODULE EventGraph -----------------------------
(***************************************************************************)
(* What the room tables promise to everything that is built on them: a     *)
(* graph of events that only grows.  A stored event never changes.  An     *)
(* event enters the graph by taking the place of its own parents among the *)
(* tips, as many at once or as often as it likes; nothing else moves the   *)
(* tips.  A state row names a stored event of its own key.                 *)
(***************************************************************************)
EXTENDS Integers

VARIABLES
  event,   \* the stored events: id -> event
  graph,   \* the events of the graph
  tips,    \* the events that new ones are built on
  state    \* the current state: key -> id

vars == <<event, graph, tips, state>>

(* Events stay as they are, and the state points at events of its keys. *)
Keeps ==
  /\ DOMAIN event \subseteq DOMAIN event'
  /\ \A i \in DOMAIN event : event'[i] = event[i]
  /\ \A k \in DOMAIN state' :
       state'[k] \in DOMAIN event' /\ event'[state'[k]].key = k

Init ==
  /\ event = [i \in {} |-> 0]
  /\ graph = {}
  /\ tips = {}
  /\ state = [k \in {} |-> 0]

(* Events are stored beside the graph, or the state changes. *)
Store == Keeps /\ UNCHANGED <<graph, tips>>

Link(i) ==
  /\ Keeps
  /\ graph' = graph \cup {i}
  /\ tips' = (tips \ event'[i].prevs) \cup {i}

(* The first events of a room: a chain of n events. *)
Create(n) ==
  /\ Keeps
  /\ graph = {}
  /\ DOMAIN event' = 1 .. n
  /\ \A i \in 1 .. n : event'[i].prevs = IF i = 1 THEN {} ELSE {i - 1}
  /\ graph' = 1 .. n
  /\ tips' = {n}

Next ==
  \/ Store
  \/ \E i \in DOMAIN event' : Link(i) \/ Create(i)

Spec == Init /\ [][Next]_vars
=============================================================================
