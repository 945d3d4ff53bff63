------------------------------ MODULE StateRes ------------------------------
(***************************************************************************)
(* State resolution: from the state maps that two servers hold of a room,  *)
(* StateResolverService.Resolve computes one.                              *)
(*                                                                         *)
(* Events on which all maps agree are kept.  The others are tried in three *)
(* phases (create, power levels and join rules; members and third-party    *)
(* invites; the rest), in an order that puts an event after the events     *)
(* that authorize it, and an event that CheckAuth lets pass replaces the   *)
(* one before it.                                                          *)
(*                                                                         *)
(* Go walks over maps in any order, so a step takes any of the events that *)
(* the comparison leaves equal.  A behaviour resolves one input twice, the *)
(* second time with the maps in reverse order: two servers that have to    *)
(* come to the same state.                                                 *)
(***************************************************************************)
EXTENDS Integers, FiniteSets, Sequences, SequencesExt, Functions

CONSTANTS
  Event,    \* id -> the event; ids are numbers, for their order
  Inputs    \* the sequences of state maps to be resolved

Ids == DOMAIN Event

(* The phase in which Resolve tries an event. *)
PhaseOf(e) ==
  CASE Event[e].type \in {"create", "power_levels", "join_rules"} -> 1
    [] Event[e].type \in {"member", "third_party_invite"} -> 2
    [] OTHER -> 3

(* An event's state tuple. *)
Tuple(e) == <<Event[e].type, Event[e].key>>
PowerLevels == <<"power_levels", "">>
Create      == <<"create", "">>
Member(u)   == <<"member", u>>

Tuples == {Tuple(e) : e \in Ids}
NoEvent == 0

(***************************************************************************)
(* Ids are hashes of the events, their auth events included: in every set  *)
(* of events there is one that no other of the set authorizes.             *)
(***************************************************************************)
ASSUME EventAssumption ==
  /\ Ids \subseteq Nat \ {NoEvent}
  /\ \A e \in Ids : /\ Event[e].ts \in Int /\ Event[e].usersDefault \in Int
                    /\ \A u \in DOMAIN Event[e].users : Event[e].users[u] \in Int
  /\ \A E \in SUBSET Ids : E # {} => \E e \in E : Event[e].auths \cap E = {}

(* The input is a sequence of maps, each from tuples to events with the tuple. *)
ASSUME InputAssumption ==
  \A s \in Inputs :
    /\ s \in Seq(Range(s))
    /\ \A i \in DOMAIN s : \A x \in DOMAIN s[i] : s[i][x] \in Ids /\ Tuple(s[i][x]) = x

VARIABLES
  sets,      \* StateSets of the input
  phase,     \* the phase under way, 1 .. 3, or 4 at the end
  todo,      \* events of the phase that are not sorted yet
  sorted,    \* sorted events of the phase that were not tried yet
  resolved,  \* resolvedState
  plEvent,   \* the power levels that the comparison uses
  first,     \* the results of the runs that are over
  tried      \* history: the events tried in this run

vars == <<sets, phase, todo, sorted, resolved, plEvent, first, tried>>

-----------------------------------------------------------------------------
(* partitionState *)

Named(x) == {sets[i][x] : i \in {j \in DOMAIN sets : x \in DOMAIN sets[j]}}
AllTuples == UNION {DOMAIN sets[i] : i \in DOMAIN sets}

(* Mutant: the maps are counted from 0. *)
MutOffByOne(x) ==
  /\ Cardinality(Named(x)) = 1
  /\ Cardinality({i \in DOMAIN sets : x \in DOMAIN sets[i]}) = Len(sets) - 1

(* Every map names the same event for the tuple. *)
Agreed(x) ==
  Cardinality(Named(x)) = 1 /\ \A i \in DOMAIN sets : x \in DOMAIN sets[i]

Unconflicted == [x \in {y \in AllTuples : Agreed(y)} |-> CHOOSE e \in Named(x) : TRUE]
Conflicted == UNION {Named(x) : x \in {y \in AllTuples : ~Agreed(y)}}

-----------------------------------------------------------------------------
(* CheckAuth *)

GetStateEvent(state, x) == IF x \in DOMAIN state THEN state[x] ELSE NoEvent

(* users[u], else users_default *)
LevelIn(pl, u) ==
  IF u \in DOMAIN Event[pl].users THEN Event[pl].users[u]
  ELSE Event[pl].usersDefault

GetUserPowerLevel(state, u) ==
  LET pl     == GetStateEvent(state, PowerLevels)
      create == GetStateEvent(state, Create)
  IN  CASE pl # NoEvent -> LevelIn(pl, u)
        [] pl = NoEvent /\ create # NoEvent /\ Event[create].sender = u -> 100
        [] OTHER -> 0

(***************************************************************************)
(* events[type], else state_default, else the default of the rule.  To     *)
(* change power levels a state_default has to be positive to count, for    *)
(* the other types it counts unless it is 0.                               *)
(***************************************************************************)
RequiredLevel(state, type) ==
  LET pl      == GetStateEvent(state, PowerLevels)
      default == IF type = "power_levels" THEN 100 ELSE 50
      Counts(n) == IF type = "power_levels" THEN n > 0 ELSE n # 0
  IN  CASE pl = NoEvent -> default
        [] pl # NoEvent /\ type \in DOMAIN Event[pl].events -> Event[pl].events[type]
        [] OTHER -> IF Counts(Event[pl].stateDefault) THEN Event[pl].stateDefault
                    ELSE default

HasLevel(e, state) ==
  GetUserPowerLevel(state, Event[e].sender) >= RequiredLevel(state, Event[e].type)

Joined(state, u) ==
  LET m == GetStateEvent(state, Member(u))
  IN  m # NoEvent /\ Event[m].membership = "join"

CheckMember(e, state) ==
  LET ev == Event[e]
  IN  \/ ev.key = ev.sender
      \/ GetUserPowerLevel(state, ev.sender) > GetUserPowerLevel(state, ev.key)

CheckAuth(e, state) ==
  LET ev == Event[e]
  IN  CASE ev.type = "create" -> TRUE
        [] ev.type = "member" -> CheckMember(e, state)
        [] ev.type = "power_levels" -> HasLevel(e, state)
        [] OTHER -> Joined(state, ev.sender) /\ HasLevel(e, state)

-----------------------------------------------------------------------------
(* sortEventsTopologically *)

GetEffectivePowerLevel(u) == IF plEvent = NoEvent THEN 0 ELSE LevelIn(plEvent, u)

(* Mutant: two events of one moment are not told apart. *)
MutNoTieBreak(a, b) ==
  LET pa == GetEffectivePowerLevel(Event[a].sender)
      pb == GetEffectivePowerLevel(Event[b].sender)
  IN  pa > pb \/ (pa = pb /\ Event[a].ts < Event[b].ts)

(* The higher level first, then the earlier time, then the smaller id. *)
Before(a, b) ==
  LET pa == GetEffectivePowerLevel(Event[a].sender)
      pb == GetEffectivePowerLevel(Event[b].sender)
  IN  \/ pa > pb
      \/ pa = pb /\ Event[a].ts < Event[b].ts
      \/ pa = pb /\ Event[a].ts = Event[b].ts /\ a < b

(* Mutant: the graph of auth events is not looked at. *)
MutAllReady == todo

(* In-degree 0: no event of the phase that authorizes it is left. *)
ZeroDegree == {e \in todo : Event[e].auths \cap todo = {}}

(* Pop the first of the sorted candidates. *)
SortNext ==
  /\ phase <= 3
  /\ \E e \in ZeroDegree :
       /\ \A x \in ZeroDegree \ {e} : ~Before(x, e)
       /\ todo' = todo \ {e}
       /\ sorted' = Append(sorted, e)
  /\ UNCHANGED <<sets, phase, resolved, plEvent, first, tried>>

-----------------------------------------------------------------------------
(* Resolve *)

(* Mutant: all events that are known, in conflict or not. *)
MutAllIds(C, p) == {e \in Ids : PhaseOf(e) = p}

(* The conflicted events of phase p. *)
PhaseIds(C, p) == {e \in C : PhaseOf(e) = p}

(* The comparison starts from the power levels all maps agree on. *)
Begin ==
  /\ phase' = 1
  /\ todo' = PhaseIds(Conflicted', 1)
  /\ sorted' = <<>>
  /\ resolved' = Unconflicted'
  /\ plEvent' = GetStateEvent(Unconflicted', PowerLevels)
  /\ tried' = {}

(* Mutant: an event is checked against the agreed state alone. *)
MutBaseline ==
  /\ phase <= 3
  /\ ZeroDegree = {}
  /\ sorted # <<>>
  /\ LET e == Head(sorted)
     IN  /\ IF CheckAuth(e, Unconflicted)
              THEN /\ resolved' = [x \in DOMAIN resolved \cup {Tuple(e)} |->
                                     IF x = Tuple(e) THEN e ELSE resolved[x]]
                   /\ plEvent' = IF Tuple(e) = PowerLevels THEN e ELSE plEvent
              ELSE UNCHANGED <<resolved, plEvent>>
         /\ tried' = tried \cup {e}
  /\ sorted' = Tail(sorted)
  /\ UNCHANGED <<sets, phase, todo, first>>

(* applyPhase: an event that passes replaces what was there. *)
Apply ==
  /\ phase <= 3
  /\ ZeroDegree = {}
  /\ sorted # <<>>
  /\ LET e == Head(sorted)
     IN  /\ IF CheckAuth(e, resolved)
              THEN /\ resolved' = [x \in DOMAIN resolved \cup {Tuple(e)} |->
                                     IF x = Tuple(e) THEN e ELSE resolved[x]]
                   /\ plEvent' = IF Tuple(e) = PowerLevels THEN e ELSE plEvent
              ELSE UNCHANGED <<resolved, plEvent>>
         /\ tried' = tried \cup {e}
  /\ sorted' = Tail(sorted)
  /\ UNCHANGED <<sets, phase, todo, first>>

NextPhase ==
  /\ phase < 3
  /\ ZeroDegree = {}
  /\ sorted = <<>>
  /\ phase' = phase + 1
  /\ todo' = PhaseIds(Conflicted, phase + 1)
  /\ UNCHANGED <<sets, sorted, resolved, plEvent, first, tried>>

(* The first run is over: the other server begins. *)
Return ==
  /\ phase = 3
  /\ ZeroDegree = {}
  /\ sorted = <<>>
  /\ first' = Append(first, resolved)
  /\ IF first = <<>>
       THEN /\ sets' = Reverse(sets)
            /\ Begin
       ELSE /\ phase' = 4
            /\ UNCHANGED <<sets, todo, sorted, resolved, plEvent, tried>>

Init ==
  /\ sets \in Inputs
  /\ phase = 1
  /\ todo = PhaseIds(Conflicted, 1)
  /\ sorted = <<>>
  /\ resolved = Unconflicted
  /\ plEvent = GetStateEvent(Unconflicted, PowerLevels)
  /\ first = <<>>
  /\ tried = {}

Next == SortNext \/ Apply \/ NextPhase \/ Return

Spec == Init /\ [][Next]_vars

-----------------------------------------------------------------------------
(* Properties. *)

TypeOK ==
  /\ phase \in 1 .. 4
  /\ todo \subseteq Conflicted
  /\ sorted \in Seq(Conflicted)
  /\ \A x \in DOMAIN resolved : resolved[x] \in Named(x)
  /\ plEvent \in Ids \cup {NoEvent}
  /\ Len(first) <= 2
  /\ tried \subseteq Conflicted

(***************************************************************************)
(* Servers agree: the resolved state depends neither on the order of the   *)
(* state maps nor on the order in which Go walks over its maps.            *)
(***************************************************************************)
ServersAgree == Len(first) = 2 => first[1] = first[2]

(* What a winner can count on in a state reached after some conflicts. *)
Backed(e, state, conflicts) ==
  /\ PhaseOf(e) = 3 \/ Event[e].type = "member" => CheckAuth(e, state)
  /\ Event[e].type = "third_party_invite" =>
       /\ HasLevel(e, state)
       /\ \/ Joined(state, Event[e].sender)
          \/ GetStateEvent(state, Member(Event[e].sender)) \in conflicts

(***************************************************************************)
(* The result authorizes itself: a member, or an event of the last phase,  *)
(* that won a conflict is allowed by the power levels and members of the   *)
(* final state, although applyPhase checked it against a partial one.  A   *)
(* third-party invite is tried among the members and reads one of them: in *)
(* the final state its sender has the level it takes, and is joined unless *)
(* the sender's own membership was in conflict too.                        *)
(***************************************************************************)
WinnersAuthorized ==
  phase = 4 =>
    \A x \in DOMAIN resolved :
      resolved[x] \in tried => Backed(resolved[x], resolved, tried)

(***************************************************************************)
(* What all servers agree on is not touched by what they do not agree on,  *)
(* and no conflicted event is forgotten.                                   *)
(***************************************************************************)
AgreedStateKept ==
  /\ \A x \in AllTuples :
       (\A i \in DOMAIN sets : x \in DOMAIN sets[i] /\ sets[i][x] = sets[1][x])
         => x \in DOMAIN resolved /\ resolved[x] = sets[1][x]
  /\ phase = 4 =>
       \A i \in DOMAIN sets : \A x \in DOMAIN sets[i] :
         sets[i][x] \in tried \/ GetStateEvent(resolved, x) = sets[i][x]

(***************************************************************************)
(* An event is tried after the events of its phase that authorize it.      *)
(***************************************************************************)
AuthFirst ==
  [][\A e \in tried' \ tried :
       \A a \in Event[e].auths \cap Conflicted :
         PhaseOf(a) = phase => a \in tried]_vars
=============================================================================
