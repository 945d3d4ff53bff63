--------------------------- MODULE RoomDagProofs ---------------------------
(***************************************************************************)
(* Proofs about RoomDag, for any number of users, threads and events.      *)
(*                                                                         *)
(* IInv strengthens TypeOK until it is inductive: what the rows of the     *)
(* tables say about each other and what a request in flight may rely on.   *)
(* The safety invariants then follow from one observation (DagStep): as    *)
(* far as the DAG is concerned a step does nothing, links one event, or    *)
(* writes the genesis chain.                                               *)
(***************************************************************************)
EXTENDS RoomDag, TLAPS, WellFoundedInduction, NaturalsInduction

(* g has every row of f. *)
Grows(f, g) == DOMAIN f \subseteq DOMAIN g /\ \A x \in DOMAIN f : g[x] = f[x]

(* Every event lies above its parents: in its id and at most so in depth. *)
Ranked(ev) ==
  \A i \in DOMAIN ev : ev[i].depth <= i /\ \A p \in ev[i].prevs : p < i

(* What the handlers rely on in a remote event. *)
RemoteEventOK(e) ==
  /\ e.via \notin {"local", "genesis"}
  /\ e.via = "invite" =>
       e.content = "invite" /\ \E v \in Users : e.key = Member(v)

RemoteOK(rm) == \A i \in DOMAIN rm : RemoteEventOK(rm[i])

(* An id names one event, wherever it is stored. *)
Agree(ev, rm) == \A i \in DOMAIN ev \cap DOMAIN rm : ev[i] = rm[i]

(* A state row points at an event of its own key. *)
StateKeyed(st, ev) == \A k \in DOMAIN st : ev[st[k]].key = k

(* What a request carries stays true while other requests commit. *)
ReqGood(r, ev, rm, lk, n) ==
  /\ r.pc = "commit" =>
       /\ r.depth <= n
       /\ \A p \in r.prevs : p \in DOMAIN ev /\ ev[p].depth < r.depth
  /\ r.pc = "queue" => r.id \in DOMAIN ev
  /\ r.pc = "ingest" => r.id \in DOMAIN rm /\ r.todo \subseteq DOMAIN rm \cup lk
  /\ r.pc \in {"merge", "persist"} =>
       /\ r.id \in DOMAIN rm
       /\ rm[r.id].key = Member(r.user)
       /\ rm[r.id].content = "join"
       /\ \A i \in r.todo : i \in DOMAIN rm /\ rm[i].key # NoKey
  /\ r.pc = "persist" => \A i \in r.local : i \in DOMAIN ev /\ ev[i].key # NoKey

IInv ==
  /\ TypeOK
  /\ Ranked(evento)
  /\ Ranked(remote)
  /\ RemoteOK(remote)
  /\ Agree(evento, remote)
  /\ StateKeyed(estadoAtual, evento)
  /\ \A t \in Threads : ReqGood(req[t], evento, remote, linked, nextId)

(* Threads that are about to commit have read every tip they own. *)
OwnTipsRead ==
  \A t \in Threads : req[t].pc = "commit" =>
    \A x \in extremidades \ inbound : evento[x].by = t => x \in req[t].prevs

-----------------------------------------------------------------------------
(* Rows. *)

(* Upsert writes the rows of g and keeps the other rows of f. *)
LEMMA UpsertFacts ==
  ASSUME NEW f, NEW g
  PROVE  /\ DOMAIN Upsert(f, g) = DOMAIN f \cup DOMAIN g
         /\ \A x \in DOMAIN g : Upsert(f, g)[x] = g[x]
         /\ \A x \in DOMAIN f \ DOMAIN g : Upsert(f, g)[x] = f[x]
BY DEF Upsert

(* InsertNew keeps every row of f and adds the rows of g whose key is new. *)
LEMMA InsertNewFacts ==
  ASSUME NEW f, NEW g
  PROVE  /\ DOMAIN InsertNew(f, g) = DOMAIN f \cup DOMAIN g
         /\ Grows(f, InsertNew(f, g))
         /\ \A x \in DOMAIN g \ DOMAIN f : InsertNew(f, g)[x] = g[x]
BY DEF InsertNew, Upsert, Grows

LEMMA RowFacts ==
  ASSUME NEW x, NEW v
  PROVE  DOMAIN Row(x, v) = {x} /\ Row(x, v)[x] = v
BY DEF Row

(* A bounded set of naturals has a maximum (by well-ordering of its bounds). *)
LEMMA MaxExists ==
  ASSUME NEW D, D \subseteq Nat, D # {}, NEW b \in Nat, \A x \in D : x <= b
  PROVE  Max(D) \in D /\ \A x \in D : x <= Max(D)
<1> DEFINE B == {n \in Nat : \A x \in D : x <= n}
<1>1. B \subseteq Nat /\ b \in B
  OBVIOUS
<1>2. PICK m \in B : \A y \in B : <<y, m>> \notin OpToRel(<, Nat)
  BY <1>1, NatLessThanWellFounded, WFMin
<1>3. m \in D
  <2> SUFFICES ASSUME m \notin D PROVE FALSE
    OBVIOUS
  <2>1. m # 0
    <3> PICK x \in D : TRUE
      OBVIOUS
    <3> QED OBVIOUS
  <2>2. m - 1 \in B
    BY <2>1
  <2>3. <<m - 1, m>> \in OpToRel(<, Nat)
    BY <2>2, <2>1 DEF OpToRel
  <2> QED BY <2>2, <2>3, <1>2
<1>4. \E d \in D : \A y \in D : d >= y
  BY <1>3
<1> QED BY <1>4 DEF Max

(* A state key of type m.room.member belongs to a user. *)
LEMMA MemberKeys ==
  ASSUME NEW k \in StateKeys, IsMember(k)
  PROVE  k[2] \in Users /\ k = Member(k[2])
<1>1. /\ CreateKey[1] = "m.room.create" /\ TopicKey[1] = "m.room.topic"
      /\ PowerLevelsKey[1] = "m.room.power_levels"
      /\ JoinRulesKey[1] = "m.room.join_rules"
  BY DEF CreateKey, PowerLevelsKey, JoinRulesKey, TopicKey
<1>2. PICK u \in Users : k = <<"m.room.member", u>>
  BY <1>1 DEF StateKeys, Member, IsMember
<1> QED BY <1>2 DEF Member

(* The key of a message is no state key. *)
LEMMA KeyFacts ==
  /\ NoKey \notin StateKeys
  /\ {CreateKey, PowerLevelsKey, JoinRulesKey} \subseteq StateKeys
  /\ \A u \in Users : Member(u) \in StateKeys /\ IsMember(Member(u))
  /\ \A u, v : Member(u) = Member(v) => u = v
BY DEF StateKeys, IsMember, Member, CreateKey, PowerLevelsKey, JoinRulesKey,
       TopicKey, NoKey

(* What a request may rely on survives every growth of the tables. *)
LEMMA ReqGoodMonotone ==
  ASSUME NEW r, NEW ev, NEW rm, NEW lk, NEW n \in Nat,
         NEW ev2, NEW rm2, NEW lk2, NEW n2 \in Nat,
         r \in Request, Grows(ev, ev2), Grows(rm, rm2), lk \subseteq lk2, n <= n2,
         ReqGood(r, ev, rm, lk, n)
  PROVE  ReqGood(r, ev2, rm2, lk2, n2)
<1> USE DEF Grows
<1>1. r.depth \in Nat
  BY DEF Request
<1> QED BY <1>1 DEF ReqGood

-----------------------------------------------------------------------------
(* Initial states. *)

(* What the first "last" events of a room are, the create event first. *)
GenesisChain(g, last, v, b) ==
  /\ last \in {4, 5}
  /\ DOMAIN g = 1 .. last
  /\ \A i \in 1 .. last :
       /\ g[i] \in Event
       /\ g[i].key \in StateKeys
       /\ g[i].prevs = IF i = 1 THEN {} ELSE {i - 1}
       /\ g[i].depth = i - 1
       /\ g[i].via = v
       /\ g[i].by = b
  /\ g[2].key = Member(Creator)
  /\ g[2].content = "join"

(* The genesis events are well-typed and form a chain. *)
LEMMA GenesisFacts ==
  ASSUME NEW rule \in Contents, NEW rest, rest = {} \/ \E s \in Pairs : rest = {s},
         NEW v \in Vias, NEW b \in Threads \cup {"remote"}
  PROVE  GenesisChain(LinkAndHashGenesis(rule, rest, v, b),
                      IF rest = {} THEN 4 ELSE 5, v, b)
<1> DEFINE g    == LinkAndHashGenesis(rule, rest, v, b)
           last == IF rest = {} THEN 4 ELSE 5
           pair(i) == IF i = 5 THEN CHOOSE x \in rest : TRUE
                      ELSE GenesisPairs(rule)[i]
<1>1. last \in {4, 5} /\ DOMAIN g = 1 .. last
  BY DEF LinkAndHashGenesis
<1>2. \A i \in 1 .. last : pair(i) \in Pairs
  <2> SUFFICES ASSUME NEW i \in 1 .. last PROVE pair(i) \in Pairs
    OBVIOUS
  <2>1. CASE i = 5
    <3>1. rest # {}
      BY <2>1
    <3> QED BY <3>1, <2>1
  <2>2. CASE i \in 1 .. 4
    <3>1. /\ pair(i) = GenesisPairs(rule)[i]
          /\ i = 1 \/ i = 2 \/ i = 3 \/ i = 4
      BY <2>2
    <3>2. /\ GenesisPairs(rule)[1] = [key |-> CreateKey, content |-> ""]
          /\ GenesisPairs(rule)[2] = [key |-> Member(Creator), content |-> "join"]
          /\ GenesisPairs(rule)[3] = [key |-> PowerLevelsKey, content |-> "open"]
          /\ GenesisPairs(rule)[4] = [key |-> JoinRulesKey, content |-> rule]
      BY DEF GenesisPairs
    <3>3. /\ {"", "join", "open", rule} \subseteq Contents
          /\ {CreateKey, Member(Creator), PowerLevelsKey, JoinRulesKey}
                \subseteq StateKeys
      BY RoomAssumption, KeyFacts DEF Contents, Memberships
    <3>4. \A k \in StateKeys, c \in Contents : [key |-> k, content |-> c] \in Pairs
      BY DEF Pairs
    <3>5. \A j \in {1, 2, 3, 4} : GenesisPairs(rule)[j] \in Pairs
      BY <3>2, <3>3, <3>4
    <3> QED BY <3>1, <3>5
  <2> QED BY <1>1, <2>1, <2>2
<1>3. \A i \in 1 .. last : \A k : ResolveGenesisAuth(rule, i, k) \in SUBSET Ids
  BY <1>1 DEF ResolveGenesisAuth, Ids
<1>4. ASSUME NEW i \in 1 .. last
      PROVE  g[i] = [key |-> pair(i).key, content |-> pair(i).content,
                     sender |-> Creator,
                     prevs |-> IF i = 1 THEN {} ELSE {i - 1},
                     auths |-> ResolveGenesisAuth(rule, i, pair(i).key),
                     depth |-> i - 1, via |-> v, by |-> b]
  BY <1>1 DEF LinkAndHashGenesis
<1>5. ASSUME NEW i \in 1 .. last
      PROVE  /\ g[i] \in Event
             /\ g[i].key \in StateKeys
             /\ g[i].prevs = IF i = 1 THEN {} ELSE {i - 1}
             /\ g[i].depth = i - 1
             /\ g[i].via = v
             /\ g[i].by = b
             /\ g[i].key = pair(i).key
             /\ g[i].content = pair(i).content
  <2>1. pair(i) \in Pairs
    BY <1>2
  <2>2. pair(i).key \in StateKeys /\ pair(i).content \in Contents
    BY <2>1 DEF Pairs
  <2>3. ResolveGenesisAuth(rule, i, pair(i).key) \in SUBSET Ids
    BY <1>3
  <2>4. /\ (IF i = 1 THEN {} ELSE {i - 1}) \in SUBSET Ids
        /\ i - 1 \in Nat
    BY <1>1 DEF Ids
  <2> DEFINE pr == IF i = 1 THEN {} ELSE {i - 1}
             au == ResolveGenesisAuth(rule, i, pair(i).key)
  <2>5. g[i] = [key |-> pair(i).key, content |-> pair(i).content,
                sender |-> Creator, prevs |-> pr, auths |-> au,
                depth |-> i - 1, via |-> v, by |-> b]
    BY <1>4
  <2>6. Creator \in Users
    BY RoomAssumption
  <2> HIDE DEF g, pair, pr, au
  <2>7. g[i] \in Event
    BY <2>2, <2>3, <2>4, <2>5, <2>6 DEF Event, pr, au
  <2> QED BY <2>2, <2>5, <2>7 DEF pr
<1>6. pair(2).key = Member(Creator) /\ pair(2).content = "join"
  BY DEF GenesisPairs
<1>7. g[2].key = Member(Creator) /\ g[2].content = "join"
  <2>1. 2 \in 1 .. last
    BY <1>1
  <2> HIDE DEF g, pair, last
  <2> QED BY <2>1, <1>5, <1>6
<1> QED BY <1>1, <1>5, <1>7 DEF GenesisChain

LEMMA IdleFacts == Idle \in Request /\ Idle.pc = "idle"
BY RoomAssumption DEF Idle, Request, Steps, Contents

(* The empty tables satisfy the invariant. *)
LEMMA InitIInv == Init => IInv
<1> SUFFICES ASSUME Init PROVE IInv
  OBVIOUS
<1>1. req \in [Threads -> Request] /\ \A t \in Threads : req[t].pc = "idle"
  BY IdleFacts DEF Init
<1>2. /\ DOMAIN remote \subseteq Ids
      /\ \A i \in DOMAIN remote : remote[i] \in Event
      /\ nextId \in Ids
      /\ \A i \in DOMAIN remote : i < nextId
      /\ Ranked(remote)
      /\ RemoteOK(remote)
  <2>1. CASE LocalRoom
    BY <2>1 DEF Init, Ids, Ranked, RemoteOK
  <2>2. CASE ~LocalRoom
    <3>1. PICK rule \in {"public", "invite"} :
            remote = LinkAndHashGenesis(rule, {}, "pdu", "remote")
      BY <2>2 DEF Init
    <3>2. rule \in Contents /\ "pdu" \in Vias
      BY DEF Contents, Memberships, JoinRules, Vias
    <3> DEFINE g == LinkAndHashGenesis(rule, {}, "pdu", "remote")
    <3>3. /\ DOMAIN g = 1 .. 4
          /\ \A i \in 1 .. 4 :
               /\ g[i] \in Event
               /\ g[i].prevs = IF i = 1 THEN {} ELSE {i - 1}
               /\ g[i].depth = i - 1
               /\ g[i].via = "pdu"
      <4>1. ({} = {} \/ \E s \in Pairs : {} = {s})
        OBVIOUS
      <4>2. "remote" \in Threads \cup {"remote"}
        OBVIOUS
      <4>3. GenesisChain(g, IF {} = {} THEN 4 ELSE 5, "pdu", "remote")
        BY <3>2, <4>1, <4>2, GenesisFacts
      <4> HIDE DEF g
      <4> QED BY <4>3 DEF GenesisChain
    <3>4. nextId = 5
      BY <2>2 DEF Init
    <3> HIDE DEF g
    <3> QED BY <3>1, <3>3, <3>4 DEF Ids, Ranked, RemoteOK, RemoteEventOK, g
  <2> QED BY <2>1, <2>2
<1>3. TypeOK
  BY <1>1, <1>2 DEF TypeOK, Init
<1>4. Ranked(evento) /\ Agree(evento, remote) /\ StateKeyed(estadoAtual, evento)
  BY DEF Init, Ranked, Agree, StateKeyed
<1>5. \A t \in Threads : ReqGood(req[t], evento, remote, linked, nextId)
  BY <1>1 DEF ReqGood
<1> QED BY <1>2, <1>3, <1>4, <1>5 DEF IInv

-----------------------------------------------------------------------------
(* Steps that only move a request. *)

(* The next id is new. *)
LEMMA IdFacts ==
  ASSUME IInv
  PROVE  /\ nextId \in Ids /\ nextId \in Nat /\ nextId - 1 \in Nat
         /\ nextId \notin DOMAIN evento /\ nextId \notin DOMAIN remote
         /\ \A i \in DOMAIN evento \cup DOMAIN remote :
              i \in Nat /\ i \in Ids /\ i < nextId
<1>1. /\ nextId \in Ids /\ DOMAIN evento \subseteq Ids /\ DOMAIN remote \subseteq Ids
      /\ \A i \in DOMAIN evento \cup DOMAIN remote : i < nextId
  BY DEF IInv, TypeOK
<1> QED BY <1>1 DEF Ids

LEMMA ReqStep ==
  ASSUME IInv, NEW t \in Threads, NEW r \in Request,
         req' = [req EXCEPT ![t] = r],
         ReqGood(r, evento, remote, linked, nextId),
         UNCHANGED <<tables, remote, nextId, history>>,
         queued' \subseteq DOMAIN evento
  PROVE  IInv'
<1> USE DEF tables, history
<1>1. req \in [Threads -> Request]
  BY DEF IInv, TypeOK
<1>2. /\ req' \in [Threads -> Request]
      /\ \A s \in Threads : req'[s] = IF s = t THEN r ELSE req[s]
  BY <1>1
<1>3. TypeOK'
  BY <1>2 DEF IInv, TypeOK
<1>4. \A s \in Threads : ReqGood(req'[s], evento, remote, linked, nextId)
  BY <1>2 DEF IInv
<1>5. \A s \in Threads : ReqGood(req[s], evento, remote, linked, nextId)'
  BY <1>4
<1> QED BY <1>3, <1>5 DEF IInv

LEMMA BeginStep ==
  ASSUME IInv, NEW t \in Threads, NEW u \in Users,
         NEW k \in StateKeys \cup {NoKey}, NEW c \in Contents, Begin(t, u, k, c)
  PROVE  IInv'
<1> DEFINE r == [Idle EXCEPT !.pc = "resolve", !.user = u, !.key = k,
                             !.content = c]
<1>1. r \in Request /\ r.pc = "resolve"
  BY IdleFacts DEF Request, Steps
<1>2. ReqGood(r, evento, remote, linked, nextId)
  BY <1>1 DEF ReqGood
<1>3. /\ req' = [req EXCEPT ![t] = r]
      /\ UNCHANGED <<tables, remote, nextId, history>>
      /\ queued' \subseteq DOMAIN evento
  BY DEF Begin, IInv, TypeOK
<1> HIDE DEF r
<1> QED BY <1>1, <1>2, <1>3, ReqStep

LEMMA ResolveStep ==
  ASSUME IInv, NEW t \in Threads, ResolveEventDependencies(t)
  PROVE  IInv'
<1> DEFINE D  == {0} \cup {evento[p].depth : p \in extremidades \cap DOMAIN evento}
           m  == GetMaxDepthFromEventos(extremidades)
           au == {estadoAtual[k] : k \in AuthKeys(req[t].user, req[t].key)
                                           \cap DOMAIN estadoAtual}
           r  == [req[t] EXCEPT !.pc = "commit", !.prevs = extremidades,
                                !.auths = au, !.depth = m + 1]
<1>0. /\ req \in [Threads -> Request]
      /\ extremidades \subseteq DOMAIN evento
      /\ DOMAIN evento \subseteq Ids
      /\ \A i \in DOMAIN evento : evento[i] \in Event /\ i < nextId
      /\ nextId \in Ids
      /\ \A k \in DOMAIN estadoAtual : estadoAtual[k] \in DOMAIN evento
  BY DEF IInv, TypeOK
<1>1. /\ D \subseteq Nat /\ D # {}
      /\ \A x \in D : x <= nextId - 1
      /\ nextId - 1 \in Nat
  BY <1>0 DEF IInv, Ranked, Event, Ids
<1>2. m \in D /\ \A x \in D : x <= m
  <2>1. m = Max(D)
    BY DEF GetMaxDepthFromEventos
  <2> HIDE DEF D, m
  <2> QED BY <1>1, <2>1, MaxExists
<1>3. m \in Nat /\ m + 1 <= nextId /\ m + 1 \in Nat
  <2> HIDE DEF D, m
  <2> QED BY <1>0, <1>1, <1>2 DEF Ids
<1>4. \A p \in extremidades : p \in DOMAIN evento /\ evento[p].depth < m + 1
  <2>1. \A p \in extremidades : /\ evento[p].depth \in D
                                /\ p \in DOMAIN evento
                                /\ evento[p].depth \in Nat
    BY <1>0 DEF Event
  <2> HIDE DEF D, m
  <2> QED BY <1>2, <1>3, <2>1
<1>5. au \in SUBSET Ids /\ extremidades \in SUBSET Ids
  BY <1>0
<1>6. req' = [req EXCEPT ![t] = r]
  BY <1>0 DEF ResolveEventDependencies
<1>7. /\ r \in Request
      /\ r.pc = "commit" /\ r.prevs = extremidades /\ r.depth = m + 1
  <2> HIDE DEF m, au
  <2> QED BY <1>0, <1>3, <1>5 DEF Request, Steps
<1>8. /\ UNCHANGED <<tables, remote, nextId, history>>
      /\ queued' \subseteq DOMAIN evento
  BY DEF ResolveEventDependencies, IInv, TypeOK
<1> HIDE DEF r, m
<1>9. ReqGood(r, evento, remote, linked, nextId)
  BY <1>3, <1>4, <1>7 DEF ReqGood
<1> QED BY <1>6, <1>7, <1>8, <1>9, ReqStep

LEMMA GuardSteps ==
  ASSUME IInv, NEW t \in Threads, NEW u \in LocalUsers,
         \/ SendEvent(t, u)
         \/ JoinLocalRoom(t, u)
         \/ LeaveRoom(t, u)
         \/ \E s \in ClientState : SendStateEvent(t, u, s)
         \/ \E v \in Users : InviteUser(t, u, v)
  PROVE  IInv'
<1>1. /\ u \in Users /\ NoKey \in StateKeys \cup {NoKey}
      /\ {"", "join", "leave", "invite"} \subseteq Contents
      /\ \A v \in Users : Member(v) \in StateKeys \cup {NoKey}
      /\ \A s \in ClientState : /\ s.key \in StateKeys \cup {NoKey}
                                /\ s.content \in Contents
  BY RoomAssumption, KeyFacts DEF Contents, Memberships, Pairs
<1>2. CASE SendEvent(t, u)
  BY <1>1, <1>2, BeginStep DEF SendEvent
<1>3. CASE JoinLocalRoom(t, u)
  BY <1>1, <1>3, BeginStep DEF JoinLocalRoom
<1>4. CASE LeaveRoom(t, u)
  BY <1>1, <1>4, BeginStep DEF LeaveRoom
<1>5. CASE \E s \in ClientState : SendStateEvent(t, u, s)
  BY <1>1, <1>5, BeginStep DEF SendStateEvent
<1>6. CASE \E v \in Users : InviteUser(t, u, v)
  BY <1>1, <1>6, BeginStep DEF InviteUser
<1> QED BY <1>2, <1>3, <1>4, <1>5, <1>6

(* A thread goes idle, or on to the next invitation of createRoom. *)
LEMMA InviteRequest ==
  ASSUME NEW u \in Users, NEW V \in SUBSET Users
  PROVE  /\ [Idle EXCEPT !.pc = "invite", !.user = u, !.invitees = V] \in Request
         /\ [Idle EXCEPT !.pc = "invite", !.user = u, !.invitees = V].pc = "invite"
BY IdleFacts DEF Request, Steps

LEMMA QueueStep ==
  ASSUME IInv, NEW t \in Threads, QueueOutgoing(t)
  PROVE  IInv'
<1> DEFINE r == Finish(t)
<1>0. req[t] \in Request
  BY DEF IInv, TypeOK
<1>1. r \in Request /\ r.pc \in {"idle", "invite"}
  <2>1. req[t].user \in Users /\ req[t].invitees \in SUBSET Users
    BY <1>0 DEF Request
  <2> QED BY <2>1, IdleFacts, InviteRequest DEF Finish
<1>2. /\ req' = [req EXCEPT ![t] = r]
      /\ UNCHANGED <<tables, remote, nextId, history>>
  BY DEF QueueOutgoing
<1>3. queued' \subseteq DOMAIN evento
  <2>1. req[t].id \in DOMAIN evento
    BY DEF QueueOutgoing, IInv, ReqGood
  <2> QED BY <2>1 DEF QueueOutgoing, IInv, TypeOK
<1> HIDE DEF r
<1>4. ReqGood(r, evento, remote, linked, nextId)
  BY <1>1 DEF ReqGood
<1> QED BY <1>1, <1>2, <1>3, <1>4, ReqStep

LEMMA AbortStep ==
  ASSUME IInv, NEW t \in Threads, Abort(t)
  PROVE  IInv'
<1>1. /\ req' = [req EXCEPT ![t] = Idle]
      /\ UNCHANGED <<tables, remote, nextId, history>>
      /\ queued' \subseteq DOMAIN evento
  BY DEF Abort, IInv, TypeOK
<1>2. ReqGood(Idle, evento, remote, linked, nextId)
  BY IdleFacts DEF ReqGood
<1> QED BY <1>1, <1>2, IdleFacts, ReqStep

LEMMA CreateRoomInvitesStep ==
  ASSUME IInv, NEW t \in Threads, NEW v \in Users, CreateRoomInvites(t, v)
  PROVE  IInv'
<1> DEFINE rest == req[t].invitees \ {v}
           r    == [Idle EXCEPT !.pc = "resolve", !.user = req[t].user,
                      !.key = Member(v), !.content = "invite", !.invitees = rest]
<1>0. req[t] \in Request
  BY DEF IInv, TypeOK
<1>1. r \in Request /\ r.pc = "resolve"
  <2>1. /\ req[t].user \in Users /\ rest \in SUBSET Users
        /\ Member(v) \in StateKeys /\ "invite" \in Contents
    BY <1>0, KeyFacts DEF Request, Contents, Memberships
  <2> HIDE DEF rest
  <2> QED BY <2>1, IdleFacts DEF Request, Steps
<1>2. /\ \/ req' = [req EXCEPT ![t] = r]
         \/ req' = [req EXCEPT ![t] = Idle]
      /\ UNCHANGED <<tables, remote, nextId, history>>
      /\ queued' \subseteq DOMAIN evento
  BY DEF CreateRoomInvites, IInv, TypeOK
<1> HIDE DEF r
<1>3. /\ ReqGood(r, evento, remote, linked, nextId)
      /\ ReqGood(Idle, evento, remote, linked, nextId)
  BY <1>1, IdleFacts DEF ReqGood
<1> QED BY <1>1, <1>2, <1>3, IdleFacts, ReqStep

LEMMA ReceiveStep ==
  ASSUME IInv, NEW t \in Threads, NEW id \in DOMAIN remote, ReceivePDU(t, id)
  PROVE  IInv'
<1>1. PICK hist \in IF CheckMissingEvents(id) = {} THEN {{}}
                    ELSE FetchMissingEvents(id) :
        req' = [req EXCEPT ![t] = [Idle EXCEPT !.pc = "ingest", !.id = id,
                                               !.todo = hist]]
  BY DEF ReceivePDU
<1> DEFINE r == [Idle EXCEPT !.pc = "ingest", !.id = id, !.todo = hist]
<1>2. hist \subseteq DOMAIN remote \cup linked
  BY DEF FetchMissingEvents, Known
<1>3. /\ DOMAIN remote \subseteq Ids /\ linked \subseteq Ids
      /\ UNCHANGED <<tables, remote, nextId, history>>
      /\ queued' \subseteq DOMAIN evento
  BY DEF IInv, TypeOK, ReceivePDU
<1>4. /\ r \in Request
      /\ r.pc = "ingest" /\ r.id = id /\ r.todo = hist
  <2>1. hist \in SUBSET Ids /\ id \in Nat
    BY <1>2, <1>3 DEF Ids
  <2> QED BY <2>1, IdleFacts DEF Request, Steps
<1> HIDE DEF r
<1>5. ReqGood(r, evento, remote, linked, nextId)
  BY <1>2, <1>4 DEF ReqGood
<1>6. req' = [req EXCEPT ![t] = r]
  BY <1>1 DEF r
<1> QED BY <1>3, <1>4, <1>5, <1>6, ReqStep

LEMMA ReadLocalStateStep ==
  ASSUME IInv, NEW t \in Threads, ReadLocalState(t)
  PROVE  IInv'
<1> DEFINE L == {estadoAtual[k] : k \in DOMAIN estadoAtual}
           r == [req[t] EXCEPT !.pc = "persist", !.local = L]
<1>0. /\ req \in [Threads -> Request]
      /\ DOMAIN evento \subseteq Ids
      /\ \A k \in DOMAIN estadoAtual : estadoAtual[k] \in DOMAIN evento
      /\ DOMAIN estadoAtual \subseteq StateKeys
  BY DEF IInv, TypeOK
<1>1. \A i \in L : i \in DOMAIN evento /\ evento[i].key # NoKey
  BY <1>0, KeyFacts DEF IInv, StateKeyed
<1>2. L \in SUBSET Ids
  BY <1>0
<1>3. /\ req' = [req EXCEPT ![t] = r]
      /\ UNCHANGED <<tables, remote, nextId, history>>
      /\ queued' \subseteq DOMAIN evento
  BY <1>0 DEF ReadLocalState, IInv, TypeOK
<1> HIDE DEF L
<1>4. /\ r \in Request
      /\ r.pc = "persist" /\ r.local = L
      /\ r.id = req[t].id /\ r.user = req[t].user /\ r.todo = req[t].todo
  BY <1>0, <1>2 DEF Request, Steps
<1>5. ReqGood(req[t], evento, remote, linked, nextId) /\ req[t].pc = "merge"
  BY DEF IInv, ReadLocalState
<1> HIDE DEF r
<1>6. ReqGood(r, evento, remote, linked, nextId)
  BY <1>1, <1>4, <1>5 DEF ReqGood
<1> QED BY <1>3, <1>4, <1>6, ReqStep

-----------------------------------------------------------------------------
(* Steps that add rows. *)

LEMMA GrowStep ==
  ASSUME IInv, TypeOK', Grows(evento, evento'), Grows(remote, remote'),
         linked \subseteq linked', nextId <= nextId',
         Ranked(evento'), Ranked(remote'), RemoteOK(remote'),
         Agree(evento', remote'), StateKeyed(estadoAtual', evento'),
         \A s \in Threads : req'[s] = req[s] \/
           ReqGood(req'[s], evento', remote', linked', nextId')
  PROVE  IInv'
<1>1. nextId \in Nat /\ nextId' \in Nat
  BY DEF IInv, TypeOK, Ids
<1>2. \A s \in Threads : /\ req[s] \in Request
                         /\ ReqGood(req[s], evento, remote, linked, nextId)
  BY DEF IInv, TypeOK
<1>3. \A s \in Threads : ReqGood(req[s], evento', remote', linked', nextId')
  BY <1>1, <1>2, ReqGoodMonotone
<1>4. \A s \in Threads : ReqGood(req'[s], evento', remote', linked', nextId')
  BY <1>3
<1>5. (\A s \in Threads : ReqGood(req[s], evento, remote, linked, nextId))'
  BY <1>4
<1> QED BY <1>5 DEF IInv

(* A remote server builds an event under the next id. *)
LEMMA RemoteGrows ==
  ASSUME IInv, NEW e \in Event, remote' = Upsert(remote, Row(nextId, e)),
         nextId' = nextId + 1, UNCHANGED <<tables, queued, history>>,
         e.depth <= nextId, \A p \in e.prevs : p < nextId,
         RemoteEventOK(e), req' \in [Threads -> Request]
  PROVE  /\ DOMAIN remote' = DOMAIN remote \cup {nextId}
         /\ remote'[nextId] = e
         /\ (\A s \in Threads : req'[s] = req[s] \/
              ReqGood(req'[s], evento', remote', linked', nextId')) => IInv'
<1> USE DEF tables, history
<1>0. /\ nextId \in Ids /\ nextId \in Nat /\ nextId' \in Ids
      /\ nextId \notin DOMAIN evento /\ nextId \notin DOMAIN remote
      /\ nextId < nextId' /\ nextId <= nextId'
      /\ \A i \in DOMAIN evento \cup DOMAIN remote : i \in Nat /\ i < nextId'
  BY IdFacts DEF Ids
<1>1. /\ DOMAIN remote' = DOMAIN remote \cup {nextId}
      /\ remote'[nextId] = e
      /\ \A i \in DOMAIN remote : remote'[i] = remote[i]
  BY <1>0 DEF Upsert, Row
<1>2. Grows(remote, remote') /\ Grows(evento, evento')
  BY <1>1 DEF Grows
<1>3. TypeOK'
  <2>1. \A i \in DOMAIN evento \cup DOMAIN remote' : i < nextId'
    BY <1>0, <1>1
  <2> QED BY <1>0, <1>1, <2>1 DEF IInv, TypeOK
<1>4. Ranked(evento') /\ Ranked(remote') /\ StateKeyed(estadoAtual', evento')
  BY <1>1 DEF IInv, Ranked, StateKeyed
<1>5. Agree(evento', remote')
  BY <1>0, <1>1 DEF IInv, Agree
<1>6. RemoteOK(remote')
  BY <1>1 DEF IInv, RemoteOK
<1>7. linked \subseteq linked'
  OBVIOUS
<1> QED BY <1>0, <1>1, <1>2, <1>3, <1>4, <1>5, <1>6, <1>7, GrowStep

LEMMA EventOfFacts ==
  ASSUME IInv, NEW i \in Known
  PROVE  /\ EventOf(i) \in Event
         /\ i \in Ids /\ i < nextId
         /\ EventOf(i).depth <= i
         /\ \A p \in EventOf(i).prevs : p < i
         /\ i \in DOMAIN evento => EventOf(i) = evento[i]
BY DEF IInv, TypeOK, Ranked, Known, EventOf, Agree

(* The depth of a remote event above its parents. *)
LEMMA RemoteDepthFacts ==
  ASSUME IInv, NEW P \in SUBSET Known
  PROVE  RemoteDepth(P) \in Nat /\ RemoteDepth(P) <= nextId
<1>0. nextId \in Nat /\ nextId - 1 \in Nat
  BY IdFacts
<1>1. CASE P = {}
  BY <1>0, <1>1 DEF RemoteDepth
<1>2. CASE P # {}
  <2> DEFINE D == {EventOf(p).depth : p \in P}
  <2>1. \A p \in P : /\ EventOf(p).depth \in Nat
                     /\ EventOf(p).depth <= nextId - 1
    <3> TAKE p \in P
    <3>1. /\ p \in Nat /\ p < nextId
          /\ EventOf(p).depth \in Nat /\ EventOf(p).depth <= p
      BY EventOfFacts DEF Event, Ids
    <3> QED BY <1>0, <3>1
  <2>2. D \subseteq Nat /\ D # {} /\ \A x \in D : x <= nextId - 1
    BY <1>2, <2>1
  <2>3. RemoteDepth(P) = 1 + Max(D)
    BY <1>2 DEF RemoteDepth
  <2> HIDE DEF D
  <2>4. Max(D) \in D
    BY <1>0, <2>2, MaxExists
  <2>5. Max(D) \in Nat /\ Max(D) <= nextId - 1
    BY <2>2, <2>4
  <2> QED BY <1>0, <2>3, <2>5
<1> QED BY <1>1, <1>2

LEMMA RemoteBuildsStep ==
  ASSUME IInv, NEW u \in Users, NEW k \in StateKeys \cup {NoKey},
         NEW c \in Contents, NEW P \in SUBSET Known,
         NEW v \in Vias \ {"local", "genesis"},
         v = "invite" => c = "invite" /\ \E w \in Users : k = Member(w),
         RemoteBuilds(u, k, c, P, v)
  PROVE  IInv'
<1> DEFINE d == RemoteDepth(P)
           e == [key |-> k, content |-> c, sender |-> u, prevs |-> P,
                 auths |-> {}, depth |-> d, via |-> v, by |-> "remote"]
<1>1. d \in Nat /\ d <= nextId
  BY RemoteDepthFacts
<1>2. P \in SUBSET Ids /\ \A p \in P : p < nextId
  BY EventOfFacts
<1> HIDE DEF d
<1>3. /\ e \in Event
      /\ e.depth = d /\ e.prevs = P /\ e.key = k /\ e.content = c /\ e.via = v
  BY <1>1, <1>2 DEF Event
<1>4. /\ remote' = Upsert(remote, Row(nextId, e))
      /\ nextId' = nextId + 1
      /\ UNCHANGED <<tables, queued, history>>
      /\ req' = req
  BY DEF RemoteBuilds, d
<1> HIDE DEF e
<1>5. RemoteEventOK(e)
  BY <1>3 DEF RemoteEventOK
<1>6. req' \in [Threads -> Request]
  BY <1>4 DEF IInv, TypeOK
<1> QED BY <1>1, <1>2, <1>3, <1>4, <1>5, <1>6, RemoteGrows

LEMMA RemoteStepIInv ==
  ASSUME IInv, RemoteStep
  PROVE  IInv'
<1> USE DEF Vias, Tips
<1>1. /\ RemoteUsers \subseteq Users /\ LocalUsers \subseteq Users
      /\ {"join", "leave", "invite"} \subseteq Contents
      /\ \A v \in Users : Member(v) \in StateKeys \cup {NoKey}
      /\ \A s \in RemoteState : /\ s.key \in StateKeys \cup {NoKey}
                                /\ s.content \in Contents
  <2>1. ASSUME NEW s \in RemoteState
        PROVE  s.key \in StateKeys \cup {NoKey} /\ s.content \in Contents
    <3>1. s \in Pairs \/ s = [key |-> NoKey, content |-> ""]
      BY RoomAssumption
    <3>2. CASE s \in Pairs
      BY <3>2 DEF Pairs
    <3>3. CASE s = [key |-> NoKey, content |-> ""]
      BY <3>3 DEF Contents
    <3> QED BY <3>1, <3>2, <3>3
  <2> QED BY <2>1, RoomAssumption, KeyFacts DEF RemoteUsers, Contents, Memberships
<1>2. ASSUME NEW u \in RemoteUsers, makeJoin(u) PROVE IInv'
  BY <1>1, <1>2, RemoteBuildsStep DEF makeJoin
<1>3. ASSUME NEW u \in RemoteUsers, makeLeave(u) PROVE IInv'
  BY <1>1, <1>3, RemoteBuildsStep DEF makeLeave
<1>4. ASSUME NEW u \in RemoteUsers, NEW s \in RemoteState, RemoteSend(u, s)
      PROVE  IInv'
  BY <1>1, <1>4, RemoteBuildsStep DEF RemoteSend
<1>5. ASSUME NEW u \in RemoteUsers, NEW v \in LocalUsers, RemoteInvite(u, v)
      PROVE  IInv'
  BY <1>1, <1>5, RemoteBuildsStep DEF RemoteInvite
<1> QED BY <1>2, <1>3, <1>4, <1>5 DEF RemoteStep

LEMMA JoinRemoteRoomStep ==
  ASSUME IInv, NEW t \in Threads, NEW u \in LocalUsers, JoinRemoteRoom(t, u)
  PROVE  IInv'
<1> USE DEF Tips
<1>1. PICK P \in Tips \cup {{}}, S \in RemoteRoomStates :
       /\ remote' = Upsert(remote, Row(nextId,
            [key |-> Member(u), content |-> "join", sender |-> u, prevs |-> P,
             auths |-> {}, depth |-> RemoteDepth(P), via |-> "remote_join",
             by |-> "remote"]))
       /\ req' = [req EXCEPT ![t] = [Idle EXCEPT !.pc = "merge", !.user = u,
                                                 !.id = nextId, !.todo = S]]
  BY DEF JoinRemoteRoom
<1> DEFINE d == RemoteDepth(P)
           e == [key |-> Member(u), content |-> "join", sender |-> u,
                 prevs |-> P, auths |-> {}, depth |-> d, via |-> "remote_join",
                 by |-> "remote"]
           r == [Idle EXCEPT !.pc = "merge", !.user = u, !.id = nextId,
                             !.todo = S]
<1>2. P \in SUBSET Known /\ u \in Users
  BY RoomAssumption
<1>3. d \in Nat /\ d <= nextId
  BY <1>2, RemoteDepthFacts
<1>4. P \in SUBSET Ids /\ \A p \in P : p < nextId
  BY <1>2, EventOfFacts
<1>5. S \in SUBSET Ids /\ \A i \in S : i \in DOMAIN remote /\ remote[i].key # NoKey
  BY IdFacts DEF RemoteRoomStates, StateEvents, EventOf
<1> HIDE DEF d
<1>6. /\ e \in Event
      /\ e.depth = d /\ e.prevs = P /\ e.key = Member(u) /\ e.content = "join"
      /\ e.via = "remote_join"
  BY <1>2, <1>3, <1>4, KeyFacts DEF Event, Contents, Memberships, Vias
<1>7. /\ r \in Request
      /\ r.pc = "merge" /\ r.user = u /\ r.id = nextId /\ r.todo = S
  BY <1>2, <1>5, IdFacts, IdleFacts DEF Request, Steps
<1>8. /\ remote' = Upsert(remote, Row(nextId, e))
      /\ nextId' = nextId + 1
      /\ UNCHANGED <<tables, queued, history>>
  BY <1>1 DEF JoinRemoteRoom, d
<1>9. req' = [req EXCEPT ![t] = r] /\ req \in [Threads -> Request]
  BY <1>1 DEF IInv, TypeOK
<1> HIDE DEF e, r
<1>10. RemoteEventOK(e)
  BY <1>6 DEF RemoteEventOK
<1>11. /\ req' \in [Threads -> Request]
       /\ req'[t] = r /\ \A s \in Threads \ {t} : req'[s] = req[s]
  BY <1>7, <1>9
<1>12. /\ DOMAIN remote' = DOMAIN remote \cup {nextId}
       /\ remote'[nextId] = e
       /\ \A i \in DOMAIN remote : remote'[i] = remote[i]
  BY <1>8, IdFacts DEF Upsert, Row
<1>13. ReqGood(r, evento', remote', linked', nextId')
  BY <1>5, <1>6, <1>7, <1>12 DEF ReqGood
<1>14. \A s \in Threads : req'[s] = req[s] \/
         ReqGood(req'[s], evento', remote', linked', nextId')
  BY <1>11, <1>13
<1> QED BY <1>3, <1>4, <1>6, <1>8, <1>10, <1>11, <1>14, RemoteGrows

-----------------------------------------------------------------------------
(* Transactions. *)

(* The rows of Canal_Estado_Atual and Canal_Membership fit the events. *)
RowsOK(st, mb, ev) ==
  /\ DOMAIN st \subseteq StateKeys
  /\ \A k \in DOMAIN st : st[k] \in DOMAIN ev /\ ev[st[k]].key = k
  /\ DOMAIN mb \subseteq Users
  /\ \A u \in DOMAIN mb :
       mb[u] \in [tipo : Contents \ {""}, evento : DOMAIN ev]

LEMMA RowsGrow ==
  ASSUME IInv, Grows(evento, evento')
  PROVE  RowsOK(estadoAtual, membership, evento')
<1>1. /\ \A u \in DOMAIN membership : /\ membership[u].tipo \in Contents \ {""}
                                      /\ membership[u].evento \in DOMAIN evento
                                      /\ membership[u] = [tipo |-> membership[u].tipo,
                                           evento |-> membership[u].evento]
      /\ DOMAIN membership \subseteq Users
  BY DEF IInv, TypeOK
<1> QED BY <1>1 DEF IInv, TypeOK, RowsOK, StateKeyed, Grows

(* A transaction that inserts the events g. *)
LEMMA SaveFacts ==
  ASSUME IInv, NEW g, NEW n \in Nat, SaveEvento(g), nextId <= n,
         \A i \in DOMAIN g : i \in Ids /\ i < n /\ g[i] \in Event,
         Ranked(g), Agree(g, remote), Agree(evento, g)
  PROVE  /\ Grows(evento, evento')
         /\ DOMAIN evento' = DOMAIN evento \cup DOMAIN g
         /\ \A i \in DOMAIN g : evento'[i] = g[i]
         /\ \A i \in DOMAIN evento' : i \in Ids /\ i < n /\ evento'[i] \in Event
         /\ Ranked(evento')
         /\ Agree(evento', remote)
<1>1. /\ DOMAIN evento' = DOMAIN evento \cup DOMAIN g
      /\ \A i \in DOMAIN evento : evento'[i] = evento[i]
      /\ \A i \in DOMAIN g : evento'[i] = g[i]
  BY DEF SaveEvento, InsertNew, Upsert, Agree
<1>2. \A i \in DOMAIN evento : i \in Ids /\ i < n /\ evento[i] \in Event
  <2>1. \A i \in DOMAIN evento : i \in Nat /\ i < n /\ i \in Ids
    BY IdFacts
  <2> QED BY <2>1 DEF IInv, TypeOK
<1>3. Grows(evento, evento')
  BY <1>1 DEF Grows
<1>4. Ranked(evento')
  BY <1>1 DEF IInv, Ranked
<1>5. Agree(evento', remote)
  BY <1>1 DEF IInv, Agree
<1> QED BY <1>1, <1>2, <1>3, <1>4, <1>5

LEMMA TableStep ==
  ASSUME IInv, Grows(evento, evento'), remote' = remote, queued' = queued,
         \A i \in DOMAIN evento' : i \in Ids /\ i < nextId' /\ evento'[i] \in Event,
         Ranked(evento'), Agree(evento', remote),
         nextId' \in Nat, nextId <= nextId',
         canal' \in BOOLEAN, extremidades' \subseteq DOMAIN evento',
         RowsOK(estadoAtual', membership', evento'),
         linked \subseteq linked', linked' \subseteq DOMAIN evento',
         inbound' \subseteq linked', req' \in [Threads -> Request],
         \A s \in Threads : req'[s] = req[s] \/
           ReqGood(req'[s], evento', remote', linked', nextId')
  PROVE  IInv'
<1>1. nextId' \in Ids
  BY IdFacts DEF Ids
<1>2. \A i \in DOMAIN evento' \cup DOMAIN remote' : i < nextId'
  BY IdFacts
<1>3. TypeOK'
  <2>1. \A u \in DOMAIN membership' :
          membership'[u] \in [tipo : Contents \ {""}, evento : DOMAIN evento']
    BY DEF RowsOK
  <2> QED BY <1>1, <1>2, <2>1 DEF IInv, TypeOK, RowsOK, Grows
<1>4. Ranked(remote') /\ RemoteOK(remote') /\ Agree(evento', remote')
      /\ Grows(remote, remote')
  BY DEF IInv, Grows
<1>5. StateKeyed(estadoAtual', evento')
  BY DEF RowsOK, StateKeyed
<1> QED BY <1>3, <1>4, <1>5, GrowStep

(* UpdateRoomStateAndMembership of an event that is stored by then. *)
LEMMA StateRows ==
  ASSUME IInv, Grows(evento, evento'), NEW id \in DOMAIN evento', NEW e \in Event,
         evento'[id] = e, UpdateRoomStateAndMembership(id, e)
  PROVE  RowsOK(estadoAtual', membership', evento')
<1>1. RowsOK(estadoAtual, membership, evento')
  BY RowsGrow
<1>2. CASE e.key = NoKey
  BY <1>1, <1>2 DEF UpdateRoomStateAndMembership
<1>3. CASE e.key # NoKey
  <2>1. e.key \in StateKeys /\ e.content \in Contents
    BY <1>3 DEF Event
  <2>2. /\ DOMAIN estadoAtual' = DOMAIN estadoAtual \cup {e.key}
        /\ estadoAtual'[e.key] = id
        /\ \A k \in DOMAIN estadoAtual \ {e.key} : estadoAtual'[k] = estadoAtual[k]
    BY <1>3 DEF UpdateRoomStateAndMembership, UpsertCurrentState, Upsert, Row
  <2>3. /\ DOMAIN estadoAtual' \subseteq StateKeys
        /\ \A k \in DOMAIN estadoAtual' :
             estadoAtual'[k] \in DOMAIN evento' /\ evento'[estadoAtual'[k]].key = k
    BY <1>1, <2>1, <2>2 DEF RowsOK
  <2>4. CASE ~(IsMember(e.key) /\ e.content # "")
    <3>1. membership' = membership
      BY <1>3, <2>4 DEF UpdateRoomStateAndMembership
    <3> QED BY <1>1, <2>3, <3>1 DEF RowsOK
  <2>5. CASE IsMember(e.key) /\ e.content # ""
    <3> DEFINE u == e.key[2]
               m == [tipo |-> e.content, evento |-> id]
    <3>1. u \in Users
      BY <2>1, <2>5, MemberKeys
    <3>2. m \in [tipo : Contents \ {""}, evento : DOMAIN evento']
      BY <2>1, <2>5
    <3>3. membership' = Upsert(membership, Row(u, m))
      BY <1>3, <2>5 DEF UpdateRoomStateAndMembership, UpsertMembership
    <3> HIDE DEF u, m
    <3>4. /\ DOMAIN membership' = DOMAIN membership \cup {u}
          /\ membership'[u] = m
          /\ \A v \in DOMAIN membership \ {u} : membership'[v] = membership[v]
      BY <3>3 DEF Upsert, Row
    <3> QED BY <1>1, <2>3, <3>1, <3>2, <3>4 DEF RowsOK
  <2> QED BY <2>4, <2>5
<1> QED BY <1>2, <1>3

(* The event a request commits. *)
NewEvent(t) ==
  [key |-> req[t].key, content |-> req[t].content, sender |-> req[t].user,
   prevs |-> req[t].prevs, auths |-> req[t].auths, depth |-> req[t].depth,
   via |-> "local", by |-> t]

(* What a commit does to the events and the DAG. *)
LEMMA CommitFacts ==
  ASSUME IInv, NEW t \in Threads, Commit(t)
  PROVE  /\ Grows(evento, evento')
         /\ DOMAIN evento' = DOMAIN evento \cup {nextId}
         /\ evento'[nextId] = NewEvent(t)
         /\ NewEvent(t) \in Event
         /\ \A i \in DOMAIN evento' : i \in Ids /\ i < nextId + 1 /\ evento'[i] \in Event
         /\ Ranked(evento') /\ Agree(evento', remote)
         /\ extremidades' = (extremidades \ req[t].prevs) \cup {nextId}
         /\ linked' = linked \cup {nextId}
<1> DEFINE e == NewEvent(t)
           g == Row(nextId, e)
<1>1. req[t] \in Request /\ req[t].pc = "commit"
  BY DEF IInv, TypeOK, Commit
<1>2. /\ req[t].depth <= nextId
      /\ \A p \in req[t].prevs : p \in DOMAIN evento /\ p < nextId
  BY <1>1, IdFacts DEF IInv, ReqGood
<1>3. e \in Event /\ e.prevs = req[t].prevs /\ e.depth = req[t].depth
  BY <1>1 DEF Request, Event, NewEvent, Vias
<1>4. /\ SaveEvento(Row(nextId, e))
      /\ extremidades' = (extremidades \ req[t].prevs) \cup {nextId}
      /\ linked' = linked \cup {nextId}
  BY DEF Commit, UpdateForwardExtremities, NewEvent
<1> HIDE DEF e
<1>5. DOMAIN g = {nextId} /\ g[nextId] = e
  BY RowFacts
<1>6. /\ nextId \in Ids /\ nextId \in Nat /\ nextId + 1 \in Nat
      /\ nextId < nextId + 1 /\ nextId <= nextId + 1
      /\ nextId \notin DOMAIN evento /\ nextId \notin DOMAIN remote
  BY IdFacts
<1> HIDE DEF g
<1>7. Ranked(g) /\ Agree(g, remote) /\ Agree(evento, g)
  BY <1>2, <1>3, <1>5, <1>6 DEF Ranked, Agree
<1>8. SaveEvento(g)
  BY <1>4 DEF g
<1>9. /\ Grows(evento, evento')
      /\ DOMAIN evento' = DOMAIN evento \cup DOMAIN g
      /\ \A i \in DOMAIN g : evento'[i] = g[i]
      /\ \A i \in DOMAIN evento' : i \in Ids /\ i < nextId + 1 /\ evento'[i] \in Event
      /\ Ranked(evento') /\ Agree(evento', remote)
  BY <1>3, <1>5, <1>6, <1>7, <1>8, SaveFacts
<1> QED BY <1>3, <1>4, <1>5, <1>9 DEF e

LEMMA CommitStep ==
  ASSUME IInv, NEW t \in Threads, Commit(t)
  PROVE  IInv'
<1> DEFINE r == [req[t] EXCEPT !.pc = "queue", !.id = nextId]
<1>1. /\ Grows(evento, evento')
      /\ DOMAIN evento' = DOMAIN evento \cup {nextId}
      /\ evento'[nextId] = NewEvent(t)
      /\ NewEvent(t) \in Event
      /\ \A i \in DOMAIN evento' : i \in Ids /\ i < nextId + 1 /\ evento'[i] \in Event
      /\ Ranked(evento') /\ Agree(evento', remote)
      /\ extremidades' = (extremidades \ req[t].prevs) \cup {nextId}
      /\ linked' = linked \cup {nextId}
  BY CommitFacts
<1>2. /\ UpdateRoomStateAndMembership(nextId, NewEvent(t))
      /\ nextId' = nextId + 1
      /\ UNCHANGED <<canal, queued, remote, inbound>>
  BY DEF Commit, NewEvent
<1>3. RowsOK(estadoAtual', membership', evento')
  BY <1>1, <1>2, StateRows
<1>4. /\ req \in [Threads -> Request]
      /\ req' = [req EXCEPT ![t] = r]
  BY DEF IInv, TypeOK, Commit
<1>5. /\ nextId \in Nat /\ nextId' \in Nat /\ nextId <= nextId'
      /\ nextId' = nextId + 1
  BY <1>2, IdFacts
<1>6. r \in Request /\ r.pc = "queue" /\ r.id = nextId
  BY <1>4, <1>5 DEF Request, Steps
<1> HIDE DEF r
<1>7. ReqGood(r, evento', remote', linked', nextId')
  BY <1>1, <1>6 DEF ReqGood
<1>8. /\ req' \in [Threads -> Request]
      /\ \A s \in Threads : req'[s] = req[s] \/
           ReqGood(req'[s], evento', remote', linked', nextId')
  BY <1>4, <1>6, <1>7
<1>9. /\ canal' \in BOOLEAN /\ extremidades' \subseteq DOMAIN evento'
      /\ linked \subseteq linked' /\ linked' \subseteq DOMAIN evento'
      /\ inbound' \subseteq linked'
  BY <1>1, <1>2 DEF IInv, TypeOK
<1>10. \A i \in DOMAIN evento' : i \in Ids /\ i < nextId' /\ evento'[i] \in Event
  BY <1>1, <1>5
<1> QED BY <1>1, <1>2, <1>3, <1>5, <1>8, <1>9, <1>10, TableStep

(* A transaction that stores one event that remote servers know. *)
LEMMA SaveKnown ==
  ASSUME IInv, NEW id \in Known, SaveEvento(Row(id, EventOf(id)))
  PROVE  /\ Grows(evento, evento')
         /\ DOMAIN evento' = DOMAIN evento \cup {id}
         /\ evento'[id] = EventOf(id)
         /\ EventOf(id) \in Event
         /\ \A i \in DOMAIN evento' : i \in Ids /\ i < nextId /\ evento'[i] \in Event
         /\ Ranked(evento') /\ Agree(evento', remote)
<1> DEFINE g == Row(id, EventOf(id))
<1>1. /\ EventOf(id) \in Event
      /\ id \in Ids /\ id < nextId
      /\ EventOf(id).depth <= id
      /\ \A p \in EventOf(id).prevs : p < id
      /\ id \in DOMAIN evento => EventOf(id) = evento[id]
  BY EventOfFacts
<1>2. DOMAIN g = {id} /\ g[id] = EventOf(id)
  BY RowFacts
<1>3. nextId \in Nat /\ nextId <= nextId
  BY IdFacts
<1>4. id \in DOMAIN remote => EventOf(id) = remote[id]
  BY DEF EventOf
<1> HIDE DEF g
<1>5. Ranked(g) /\ Agree(g, remote) /\ Agree(evento, g)
  BY <1>1, <1>2, <1>4 DEF Ranked, Agree
<1>6. SaveEvento(g)
  BY DEF g
<1>7. /\ Grows(evento, evento')
      /\ DOMAIN evento' = DOMAIN evento \cup DOMAIN g
      /\ \A i \in DOMAIN g : evento'[i] = g[i]
      /\ \A i \in DOMAIN evento' : i \in Ids /\ i < nextId /\ evento'[i] \in Event
      /\ Ranked(evento') /\ Agree(evento', remote)
  BY <1>1, <1>2, <1>3, <1>5, <1>6, SaveFacts
<1> QED BY <1>1, <1>2, <1>7

LEMMA HandshakeStep ==
  ASSUME IInv, NEW id \in DOMAIN remote, NEW v, StoreHandshake(id, v)
  PROVE  IInv'
<1>1. id \in Known /\ EventOf(id) = remote[id]
  BY DEF Known, EventOf
<1>2. /\ SaveEvento(Row(id, EventOf(id)))
      /\ UpdateRoomStateAndMembership(id, EventOf(id))
      /\ UNCHANGED <<canal, extremidades, queued, remote, nextId, req, linked,
                     inbound>>
  BY <1>1 DEF StoreHandshake, history
<1>3. /\ Grows(evento, evento')
      /\ DOMAIN evento' = DOMAIN evento \cup {id}
      /\ evento'[id] = EventOf(id)
      /\ EventOf(id) \in Event
      /\ \A i \in DOMAIN evento' : i \in Ids /\ i < nextId /\ evento'[i] \in Event
      /\ Ranked(evento') /\ Agree(evento', remote)
  BY <1>1, <1>2, SaveKnown
<1>4. RowsOK(estadoAtual', membership', evento')
  BY <1>2, <1>3, StateRows
<1>5. nextId' \in Nat /\ nextId <= nextId' /\ nextId' = nextId
  BY <1>2, IdFacts
<1>6. /\ canal' \in BOOLEAN /\ extremidades' \subseteq DOMAIN evento'
      /\ linked \subseteq linked' /\ linked' \subseteq DOMAIN evento'
      /\ inbound' \subseteq linked' /\ req' \in [Threads -> Request]
      /\ \A s \in Threads : req'[s] = req[s]
  BY <1>2, <1>3 DEF IInv, TypeOK
<1> QED BY <1>2, <1>3, <1>4, <1>5, <1>6, TableStep

(* What the transaction of one inbound event does to the events and the DAG. *)
LEMMA IngestFacts ==
  ASSUME IInv, NEW id \in Known, Ingest(id)
  PROVE  /\ Grows(evento, evento')
         /\ DOMAIN evento' = DOMAIN evento \cup {id}
         /\ evento'[id] = EventOf(id)
         /\ \A i \in DOMAIN evento' : i \in Ids /\ i < nextId /\ evento'[i] \in Event
         /\ Ranked(evento') /\ Agree(evento', remote)
         /\ RowsOK(estadoAtual', membership', evento')
         /\ extremidades' = (extremidades \ evento'[id].prevs) \cup {id}
         /\ linked' = linked \cup {id}
         /\ inbound' = inbound \cup {id}
<1>1. /\ SaveEvento(Row(id, EventOf(id)))
      /\ UpdateRoomStateAndMembership(id, EventOf(id))
      /\ extremidades' = (extremidades \ EventOf(id).prevs) \cup {id}
      /\ linked' = linked \cup {id}
      /\ inbound' = inbound \cup {id}
  BY DEF Ingest, UpdateForwardExtremities
<1>2. /\ Grows(evento, evento')
      /\ DOMAIN evento' = DOMAIN evento \cup {id}
      /\ evento'[id] = EventOf(id)
      /\ EventOf(id) \in Event
      /\ \A i \in DOMAIN evento' : i \in Ids /\ i < nextId /\ evento'[i] \in Event
      /\ Ranked(evento') /\ Agree(evento', remote)
  BY <1>1, SaveKnown
<1>3. RowsOK(estadoAtual', membership', evento')
  BY <1>1, <1>2, StateRows
<1> QED BY <1>1, <1>2, <1>3

LEMMA IngestStep ==
  ASSUME IInv, NEW t \in Threads, NEW id \in Known, Ingest(id),
         UNCHANGED <<canal, queued, remote, nextId>>,
         NEW r \in Request, req' = [req EXCEPT ![t] = r],
         ReqGood(r, evento, remote, linked, nextId)
  PROVE  IInv'
<1>1. /\ Grows(evento, evento')
      /\ DOMAIN evento' = DOMAIN evento \cup {id}
      /\ \A i \in DOMAIN evento' : i \in Ids /\ i < nextId /\ evento'[i] \in Event
      /\ Ranked(evento') /\ Agree(evento', remote)
      /\ RowsOK(estadoAtual', membership', evento')
      /\ extremidades' \subseteq extremidades \cup {id}
      /\ linked' = linked \cup {id}
      /\ inbound' = inbound \cup {id}
  BY IngestFacts
<1>2. nextId' \in Nat /\ nextId \in Nat /\ nextId <= nextId' /\ nextId' = nextId
  BY IdFacts
<1>3. req \in [Threads -> Request]
  BY DEF IInv, TypeOK
<1>4. ReqGood(r, evento', remote', linked', nextId')
  <2>1. Grows(remote, remote') /\ linked \subseteq linked'
    BY <1>1 DEF Grows
  <2> QED BY <1>1, <1>2, <2>1, ReqGoodMonotone
<1>5. /\ req' \in [Threads -> Request]
      /\ \A s \in Threads : req'[s] = req[s] \/
           ReqGood(req'[s], evento', remote', linked', nextId')
  BY <1>3, <1>4
<1>6. /\ canal' \in BOOLEAN /\ extremidades' \subseteq DOMAIN evento'
      /\ linked \subseteq linked' /\ linked' \subseteq DOMAIN evento'
      /\ inbound' \subseteq linked'
  BY <1>1 DEF IInv, TypeOK
<1> QED BY <1>1, <1>2, <1>5, <1>6, TableStep

LEMMA InboundKnown ==
  ASSUME IInv, NEW t \in Threads, req[t].pc = "ingest"
  PROVE  req[t].id \in Known /\ req[t].todo \subseteq Known
BY DEF IInv, ReqGood, Known

LEMMA IngestHistoricalStep ==
  ASSUME IInv, NEW t \in Threads, NEW h \in req[t].todo, IngestHistorical(t, h)
  PROVE  IInv'
<1> DEFINE r == [req[t] EXCEPT !.todo = @ \ {h}]
<1>1. req \in [Threads -> Request] /\ req[t].pc = "ingest"
  BY DEF IInv, TypeOK, IngestHistorical
<1>2. /\ r \in Request
      /\ r.pc = "ingest" /\ r.id = req[t].id /\ r.todo \subseteq req[t].todo
  BY <1>1 DEF Request
<1>3. req' = [req EXCEPT ![t] = r]
  BY <1>1 DEF IngestHistorical
<1> HIDE DEF r
<1>4. ReqGood(r, evento, remote, linked, nextId)
  <2>1. ReqGood(req[t], evento, remote, linked, nextId)
    BY DEF IInv
  <2> QED BY <1>1, <1>2, <2>1 DEF ReqGood
<1>5. h \in Known
  BY <1>1, InboundKnown
<1>6. UNCHANGED <<canal, queued, remote, nextId>>
  BY DEF IngestHistorical
<1>7. CASE Ingest(h)
  BY <1>2, <1>3, <1>4, <1>5, <1>6, <1>7, IngestStep
<1>8. CASE UNCHANGED <<evento, extremidades, estadoAtual, membership, history>>
  <2>1. /\ UNCHANGED <<tables, remote, nextId, history>>
        /\ queued' \subseteq DOMAIN evento
    BY <1>6, <1>8 DEF IInv, TypeOK, tables
  <2> QED BY <1>2, <1>3, <1>4, <2>1, ReqStep
<1> QED BY <1>7, <1>8 DEF IngestHistorical

LEMMA ProcessInboundPDUStep ==
  ASSUME IInv, NEW t \in Threads, ProcessInboundPDU(t)
  PROVE  IInv'
<1>1. /\ req' = [req EXCEPT ![t] = Idle]
      /\ Ingest(req[t].id)
      /\ UNCHANGED <<canal, queued, remote, nextId>>
      /\ req[t].pc = "ingest"
  BY DEF ProcessInboundPDU
<1>2. req[t].id \in Known
  BY <1>1, InboundKnown
<1>3. ReqGood(Idle, evento, remote, linked, nextId)
  BY IdleFacts DEF ReqGood
<1> QED BY <1>1, <1>2, <1>3, IdleFacts, IngestStep

(* The rows that events upserted in order leave point at those events. *)
LEMMA LastOfEachKeyFacts ==
  ASSUME NEW g, NEW b \in Nat, \A i \in DOMAIN g : i \in Nat /\ i <= b
  PROVE  /\ DOMAIN LastOfEachKey(g) = {g[i].key : i \in DOMAIN g}
         /\ \A k \in DOMAIN LastOfEachKey(g) :
              /\ LastOfEachKey(g)[k] \in DOMAIN g
              /\ g[LastOfEachKey(g)[k]].key = k
<1>1. DOMAIN LastOfEachKey(g) = {g[i].key : i \in DOMAIN g}
  BY DEF LastOfEachKey
<1>2. ASSUME NEW k \in {g[i].key : i \in DOMAIN g}
      PROVE  LastOfEachKey(g)[k] \in DOMAIN g /\ g[LastOfEachKey(g)[k]].key = k
  <2> DEFINE D == {i \in DOMAIN g : g[i].key = k}
  <2>1. LastOfEachKey(g)[k] = Max(D)
    BY DEF LastOfEachKey
  <2>2. D \subseteq Nat /\ D # {} /\ \A x \in D : x <= b
    OBVIOUS
  <2>3. Max(D) \in D
    <3> HIDE DEF D
    <3> QED BY <2>2, MaxExists
  <2> QED BY <2>1, <2>3
<1> QED BY <1>1, <1>2

(* State rows that point at stored events of their own keys may be upserted. *)
LEMMA UpsertRows ==
  ASSUME NEW st, NEW mb, NEW ev, NEW st2, RowsOK(st, mb, ev),
         DOMAIN st2 \subseteq StateKeys,
         \A k \in DOMAIN st2 : st2[k] \in DOMAIN ev /\ ev[st2[k]].key = k
  PROVE  RowsOK(Upsert(st, st2), mb, ev)
<1>1. /\ DOMAIN Upsert(st, st2) = DOMAIN st \cup DOMAIN st2
      /\ \A k \in DOMAIN st2 : Upsert(st, st2)[k] = st2[k]
      /\ \A k \in DOMAIN st \ DOMAIN st2 : Upsert(st, st2)[k] = st[k]
  BY UpsertFacts
<1> QED BY <1>1 DEF RowsOK

(* So may membership rows. *)
LEMMA UpsertMembers ==
  ASSUME NEW st, NEW mb, NEW ev, NEW mb2, RowsOK(st, mb, ev),
         DOMAIN mb2 \subseteq Users,
         \A u \in DOMAIN mb2 : mb2[u] \in [tipo : Contents \ {""}, evento : DOMAIN ev]
  PROVE  RowsOK(st, Upsert(mb, mb2), ev)
<1>1. /\ DOMAIN Upsert(mb, mb2) = DOMAIN mb \cup DOMAIN mb2
      /\ \A k \in DOMAIN mb2 : Upsert(mb, mb2)[k] = mb2[k]
      /\ \A k \in DOMAIN mb \ DOMAIN mb2 : Upsert(mb, mb2)[k] = mb[k]
  BY UpsertFacts
<1> QED BY <1>1 DEF RowsOK

LEMMA PreviewFacts ==
  ASSUME IInv, NEW id \in DOMAIN remote, NEW n \in Nat,
         NEW pv \in [nextId .. (nextId + n - 1) -> PreviewState]
  PROVE  LET g == Previews(id, n, pv)
         IN  /\ DOMAIN g = nextId .. (nextId + n - 1)
             /\ \A i \in DOMAIN g :
                  /\ g[i] \in Event /\ g[i].key \in StateKeys
                  /\ g[i].prevs = {} /\ g[i].depth = 0 /\ g[i].via = "preview"
<1> DEFINE g == Previews(id, n, pv)
<1>1. DOMAIN g = nextId .. (nextId + n - 1)
  BY DEF Previews
<1>2. ASSUME NEW i \in DOMAIN g
      PROVE  /\ g[i] \in Event /\ g[i].key \in StateKeys
             /\ g[i].prevs = {} /\ g[i].depth = 0 /\ g[i].via = "preview"
  <2>1. pv[i] \in Pairs
    BY <1>1, RoomAssumption
  <2>2. pv[i].key \in StateKeys /\ pv[i].content \in Contents
    BY <2>1 DEF Pairs
  <2>3. remote[id].sender \in Users
    BY DEF IInv, TypeOK, Event
  <2>4. g[i] = [key |-> pv[i].key, content |-> pv[i].content,
                sender |-> remote[id].sender, prevs |-> {}, auths |-> {},
                depth |-> 0, via |-> "preview", by |-> "remote"]
    BY <1>1 DEF Previews
  <2> HIDE DEF g
  <2> QED BY <2>2, <2>3, <2>4 DEF Event, Vias
<1> QED BY <1>1, <1>2

LEMMA ProcessInviteStep ==
  ASSUME IInv, NEW id \in DOMAIN remote, NEW n \in Nat,
         NEW pv \in [nextId .. (nextId + n - 1) -> PreviewState],
         ProcessInvite(id, n, pv)
  PROVE  IInv'
<1> DEFINE w == Previews(id, n, pv)
           g == Upsert(Row(id, remote[id]), w)
           u == remote[id].key[2]
           m == [tipo |-> "invite", evento |-> id]
           st == Upsert(estadoAtual, Row(remote[id].key, id))
<1>1. /\ DOMAIN w = nextId .. (nextId + n - 1)
      /\ \A i \in DOMAIN w : /\ w[i] \in Event /\ w[i].key \in StateKeys
                             /\ w[i].prevs = {} /\ w[i].depth = 0
  BY PreviewFacts
<1>2. /\ remote[id].via = "invite"
      /\ canal' = TRUE
      /\ SaveEvento(g)
      /\ estadoAtual' = Upsert(st, LastOfEachKey(w))
      /\ membership' = Upsert(membership, Row(u, m))
      /\ nextId' = nextId + n
      /\ UNCHANGED <<extremidades, queued, remote, req, linked, inbound>>
  BY DEF ProcessInvite, UpsertMembership, history
<1>3. /\ nextId \in Nat /\ nextId \in Ids /\ nextId' \in Nat /\ nextId <= nextId'
      /\ \A i \in DOMAIN evento \cup DOMAIN remote : i \in Ids /\ i \in Nat /\ i < nextId'
      /\ \A i \in nextId .. (nextId + n - 1) :
           /\ i \in Ids /\ i \in Nat /\ i < nextId' /\ i <= nextId'
           /\ i \notin DOMAIN evento /\ i \notin DOMAIN remote
  BY <1>2, IdFacts DEF Ids
<1> HIDE DEF w
<1>4. /\ DOMAIN g = {id} \cup DOMAIN w
      /\ g[id] = remote[id]
      /\ \A i \in DOMAIN w : g[i] = w[i]
  BY <1>1, <1>3 DEF Upsert, Row
<1> HIDE DEF g
<1>5. \A i \in DOMAIN g : i \in Ids /\ i < nextId' /\ g[i] \in Event
  BY <1>1, <1>3, <1>4 DEF IInv, TypeOK
<1>6. Ranked(g)
  BY <1>1, <1>3, <1>4 DEF Ranked, IInv
<1>7. Agree(g, remote) /\ Agree(evento, g)
  BY <1>1, <1>3, <1>4 DEF Agree, IInv
<1>8. /\ Grows(evento, evento')
      /\ DOMAIN evento' = DOMAIN evento \cup DOMAIN g
      /\ \A i \in DOMAIN g : evento'[i] = g[i]
      /\ \A i \in DOMAIN evento' : i \in Ids /\ i < nextId' /\ evento'[i] \in Event
      /\ Ranked(evento') /\ Agree(evento', remote)
  BY <1>2, <1>3, <1>5, <1>6, <1>7, SaveFacts
<1>9. /\ remote[id].key \in StateKeys /\ u \in Users
      /\ "invite" \in Contents \ {""}
  <2>1. PICK v \in Users : remote[id].key = Member(v)
    BY <1>2 DEF IInv, RemoteOK, RemoteEventOK
  <2>2. Member(v)[2] = v
    BY DEF Member
  <2> QED BY <2>1, <2>2, KeyFacts DEF Contents, Memberships
<1>10. RowsOK(st, membership, evento')
  <2> DEFINE st2 == Row(remote[id].key, id)
  <2>1. /\ DOMAIN st2 = {remote[id].key} /\ st2[remote[id].key] = id
    BY RowFacts
  <2> HIDE DEF st2
  <2>2. /\ DOMAIN st2 \subseteq StateKeys
        /\ \A k \in DOMAIN st2 : st2[k] \in DOMAIN evento' /\ evento'[st2[k]].key = k
    BY <1>4, <1>8, <1>9, <2>1
  <2>3. RowsOK(Upsert(estadoAtual, st2), membership, evento')
    BY <1>8, <2>2, RowsGrow, UpsertRows
  <2> QED BY <2>3 DEF st2
<1>11. RowsOK(estadoAtual', membership, evento')
  <2> DEFINE st2 == LastOfEachKey(w)
  <2>1. /\ DOMAIN st2 = {w[i].key : i \in DOMAIN w}
        /\ \A k \in DOMAIN st2 : st2[k] \in DOMAIN w /\ w[st2[k]].key = k
    BY <1>1, <1>3, LastOfEachKeyFacts
  <2> HIDE DEF st2, st
  <2>2. /\ DOMAIN st2 \subseteq StateKeys
        /\ \A k \in DOMAIN st2 : st2[k] \in DOMAIN evento' /\ evento'[st2[k]].key = k
    BY <1>1, <1>4, <1>8, <2>1
  <2>3. RowsOK(Upsert(st, st2), membership, evento')
    BY <1>10, <2>2, UpsertRows
  <2> QED BY <1>2, <2>3 DEF st2
<1>12. RowsOK(estadoAtual', membership', evento')
  <2> DEFINE mb2 == Row(u, m)
  <2>1. DOMAIN mb2 = {u} /\ mb2[u] = m
    BY RowFacts
  <2>2. m \in [tipo : Contents \ {""}, evento : DOMAIN evento']
    BY <1>4, <1>8, <1>9
  <2> HIDE DEF mb2, m
  <2>3. /\ DOMAIN mb2 \subseteq Users
        /\ \A x \in DOMAIN mb2 :
             mb2[x] \in [tipo : Contents \ {""}, evento : DOMAIN evento']
    BY <1>9, <2>1, <2>2
  <2>4. RowsOK(estadoAtual', Upsert(membership, mb2), evento')
    BY <1>11, <2>3, UpsertMembers
  <2> QED BY <1>2, <2>4 DEF mb2
<1>13. /\ extremidades' \subseteq DOMAIN evento'
       /\ linked \subseteq linked' /\ linked' \subseteq DOMAIN evento'
       /\ inbound' \subseteq linked' /\ req' \in [Threads -> Request]
       /\ \A s \in Threads : req'[s] = req[s]
  BY <1>2, <1>8 DEF IInv, TypeOK
<1> QED BY <1>2, <1>3, <1>8, <1>12, <1>13, TableStep

(* What createRoom does to the events and the DAG, from a room without any. *)
CreateEffect(g, last, t) ==
  /\ GenesisChain(g, last, "genesis", t)
  /\ DOMAIN evento = {} /\ DOMAIN remote = {}
  /\ DOMAIN estadoAtual = {} /\ DOMAIN membership = {}
  /\ extremidades = {} /\ linked = {} /\ inbound = {} /\ queued = {}
  /\ nextId = 1
  /\ SaveEvento(g)
  /\ DOMAIN evento' = 1 .. last
  /\ \A i \in 1 .. last : evento'[i] = g[i]
  /\ extremidades' = {last}
  /\ linked' = 1 .. last
  /\ nextId' = last + 1
  /\ estadoAtual' = Upsert(estadoAtual, LastOfEachKey(g))
  /\ membership' = Upsert(membership,
                          Row(Creator, [tipo |-> "join", evento |-> 2]))

LEMMA CreateFacts ==
  ASSUME IInv, NEW t \in Threads, NEW rule \in {"public", "invite"}, NEW rest,
         rest = {} \/ \E s \in InitialState : rest = {s}, NEW invitees,
         CreateRoom(t, rule, rest, invitees)
  PROVE  \E last \in {4, 5} :
           CreateEffect(LinkAndHashGenesis(rule, rest, "genesis", t), last, t)
<1> DEFINE g    == LinkAndHashGenesis(rule, rest, "genesis", t)
           last == IF rest = {} THEN 4 ELSE 5
<1>1. GenesisChain(g, last, "genesis", t)
  <2>1. /\ rule \in Contents /\ "genesis" \in Vias /\ t \in Threads \cup {"remote"}
        /\ rest = {} \/ \E s \in Pairs : rest = {s}
    BY RoomAssumption DEF Contents, JoinRules, Memberships, Vias
  <2> QED BY <2>1, GenesisFacts
<1>2. /\ nextId = 1
      /\ SaveEvento(g)
      /\ estadoAtual' = Upsert(estadoAtual, LastOfEachKey(g))
      /\ membership' = Upsert(membership,
           Row(Creator, [tipo |-> "join", evento |-> 2]))
      /\ extremidades' = (extremidades \ {last - 1}) \cup {last}
      /\ linked' = linked \cup 1 .. last
      /\ nextId' = last + 1
  BY DEF CreateRoom, UpsertMembership
<1> HIDE DEF g
<1>3. last \in {4, 5}
  OBVIOUS
<1> HIDE DEF last
<1>4. DOMAIN evento = {} /\ DOMAIN remote = {}
  <2>1. \A i \in DOMAIN evento \cup DOMAIN remote : i \in Nat \ {0} /\ i < 1
    BY <1>2, IdFacts DEF Ids
  <2>2. \A i \in DOMAIN evento \cup DOMAIN remote : FALSE
    BY <2>1
  <2> QED BY <2>2
<1>5. /\ DOMAIN estadoAtual = {}
      /\ extremidades = {} /\ linked = {} /\ inbound = {} /\ queued = {}
  BY <1>4 DEF IInv, TypeOK
<1>6. DOMAIN membership = {}
  BY <1>4 DEF IInv, TypeOK
<1>7. DOMAIN g = 1 .. last
  BY <1>1 DEF GenesisChain
<1>8. DOMAIN evento' = 1 .. last /\ \A i \in 1 .. last : evento'[i] = g[i]
  BY <1>2, <1>4, <1>7 DEF SaveEvento, InsertNew, Upsert
<1>9. extremidades' = {last} /\ linked' = 1 .. last
  BY <1>2, <1>5
<1>10. CreateEffect(g, last, t)
  BY <1>1, <1>2, <1>3, <1>4, <1>5, <1>6, <1>8, <1>9 DEF CreateEffect
<1> QED BY <1>3, <1>10 DEF g

LEMMA CreateRoomStep ==
  ASSUME IInv, NEW t \in Threads, NEW rule \in {"public", "invite"}, NEW rest,
         rest = {} \/ \E s \in InitialState : rest = {s},
         NEW invitees \in SUBSET Users, CreateRoom(t, rule, rest, invitees)
  PROVE  IInv'
<1> DEFINE g == LinkAndHashGenesis(rule, rest, "genesis", t)
           r == IF invitees = {} THEN Idle
                ELSE [Idle EXCEPT !.pc = "invite", !.invitees = invitees]
           m == [tipo |-> "join", evento |-> 2]
<1>0. PICK last \in {4, 5} : CreateEffect(g, last, t)
  BY CreateFacts
<1>2. /\ canal' = TRUE
      /\ req' = [req EXCEPT ![t] = r]
      /\ UNCHANGED <<queued, remote, inbound>>
  BY DEF CreateRoom
<1> HIDE DEF g
<1>1. /\ GenesisChain(g, last, "genesis", t)
      /\ DOMAIN evento = {} /\ DOMAIN remote = {}
      /\ linked = {} /\ inbound = {}
      /\ nextId = 1
      /\ DOMAIN evento' = 1 .. last
      /\ \A i \in 1 .. last : evento'[i] = g[i]
      /\ extremidades' = {last}
      /\ linked' = 1 .. last
      /\ nextId' = last + 1
      /\ estadoAtual' = Upsert(estadoAtual, LastOfEachKey(g))
      /\ membership' = Upsert(membership, Row(Creator, m))
  BY <1>0 DEF CreateEffect
<1>3. /\ DOMAIN g = 1 .. last
      /\ \A i \in 1 .. last : /\ g[i] \in Event /\ g[i].key \in StateKeys
                              /\ g[i].prevs = IF i = 1 THEN {} ELSE {i - 1}
                              /\ g[i].depth = i - 1
  BY <1>1 DEF GenesisChain
<1>4. /\ nextId' \in Nat /\ nextId <= nextId' /\ last \in Nat
      /\ \A i \in 1 .. last : i \in Ids /\ i \in Nat /\ i < nextId' /\ i <= last
      /\ 2 \in 1 .. last /\ last \in 1 .. last
  BY <1>1 DEF Ids
<1>5. /\ Grows(evento, evento')
      /\ \A i \in DOMAIN evento' : i \in Ids /\ i < nextId' /\ evento'[i] \in Event
      /\ Agree(evento', remote)
  BY <1>1, <1>3, <1>4 DEF Grows, Agree
<1>6. Ranked(evento')
  <2>1. DOMAIN evento' = 1 .. last /\ \A i \in 1 .. last : evento'[i] = g[i]
    BY <1>1
  <2>2. \A i \in 1 .. last :
          /\ evento'[i].prevs = IF i = 1 THEN {} ELSE {i - 1}
          /\ evento'[i].depth = i - 1
    BY <1>3, <2>1
  <2>3. \A i \in 1 .. last :
          evento'[i].depth <= i /\ \A p \in evento'[i].prevs : p < i
    <3> TAKE i \in 1 .. last
    <3>1. i \in Nat /\ i - 1 <= i /\ i - 1 < i
      BY <1>4
    <3>2. \A p \in evento'[i].prevs : p = i - 1
      BY <2>2
    <3> QED BY <2>2, <3>1, <3>2
  <2> QED BY <2>1, <2>3 DEF Ranked
<1>7. RowsOK(estadoAtual', membership, evento')
  <2> DEFINE st2 == LastOfEachKey(g)
  <2>1. /\ DOMAIN st2 = {g[i].key : i \in DOMAIN g}
        /\ \A k \in DOMAIN st2 : st2[k] \in DOMAIN g /\ g[st2[k]].key = k
    BY <1>3, <1>4, LastOfEachKeyFacts
  <2>2. estadoAtual' = Upsert(estadoAtual, st2)
    BY <1>1
  <2> HIDE DEF st2
  <2>3. /\ DOMAIN st2 \subseteq StateKeys
        /\ \A k \in DOMAIN st2 : st2[k] \in DOMAIN evento' /\ evento'[st2[k]].key = k
    <3>1. DOMAIN evento' = DOMAIN g /\ \A i \in DOMAIN g : evento'[i] = g[i]
      BY <1>1, <1>3
    <3>2. \A i \in DOMAIN g : g[i].key \in StateKeys
      BY <1>3
    <3> QED BY <2>1, <3>1, <3>2
  <2>4. RowsOK(Upsert(estadoAtual, st2), membership, evento')
    BY <1>5, <2>3, RowsGrow, UpsertRows
  <2> QED BY <2>2, <2>4
<1>8. RowsOK(estadoAtual', membership', evento')
  <2> DEFINE mb2 == Row(Creator, m)
  <2>1. DOMAIN mb2 = {Creator} /\ mb2[Creator] = m
    BY RowFacts
  <2>2. m \in [tipo : Contents \ {""}, evento : DOMAIN evento']
    BY <1>1, <1>4 DEF Contents, Memberships
  <2>3. membership' = Upsert(membership, mb2)
    BY <1>1
  <2> HIDE DEF mb2, m
  <2>4. /\ DOMAIN mb2 \subseteq Users
        /\ \A x \in DOMAIN mb2 :
             mb2[x] \in [tipo : Contents \ {""}, evento : DOMAIN evento']
    BY <2>1, <2>2, RoomAssumption
  <2>5. RowsOK(estadoAtual', Upsert(membership, mb2), evento')
    BY <1>7, <2>4, UpsertMembers
  <2> QED BY <2>3, <2>5
<1>9. r \in Request /\ r.pc \in {"idle", "invite"}
  BY IdleFacts DEF Request, Steps
<1> HIDE DEF r
<1>10. ReqGood(r, evento', remote', linked', nextId')
  BY <1>9 DEF ReqGood
<1>11. /\ req' \in [Threads -> Request]
       /\ \A s \in Threads : req'[s] = req[s] \/
            ReqGood(req'[s], evento', remote', linked', nextId')
  BY <1>2, <1>9, <1>10 DEF IInv, TypeOK
<1>12. /\ extremidades' \subseteq DOMAIN evento'
       /\ linked \subseteq linked' /\ linked' \subseteq DOMAIN evento'
       /\ inbound' \subseteq linked'
  BY <1>1, <1>2, <1>4
<1> QED BY <1>2, <1>4, <1>5, <1>6, <1>8, <1>11, <1>12, TableStep

(* What JoinRemoteRoom persists: stored state events, one for each key. *)
LEMMA PersistFacts ==
  ASSUME IInv, NEW t \in Threads, NEW W, NEW A, PersistRemoteJoin(t, W, A)
  PROVE  /\ req[t].id \in DOMAIN remote
         /\ Grows(evento, evento')
         /\ A \subseteq DOMAIN remote
         /\ DOMAIN evento' = DOMAIN evento \cup A \cup req[t].todo \cup {req[t].id}
         /\ req[t].id \in DOMAIN evento' /\ evento'[req[t].id] = remote[req[t].id]
         /\ \A i \in DOMAIN evento' : i \in Ids /\ i < nextId /\ evento'[i] \in Event
         /\ Ranked(evento') /\ Agree(evento', remote)
         /\ \A w \in Winners(t, W) : /\ w \in DOMAIN evento'
                                     /\ evento'[w] = EventOf(w)
                                     /\ EventOf(w) \in Event
                                     /\ EventOf(w).key \in StateKeys
<1> DEFINE r == req[t]
           g == [i \in A \cup r.todo \cup {r.id} |-> remote[i]]
<1>1. /\ r.pc = "persist" /\ W \in Resolutions(r.todo, r.local)
      /\ SaveEvento(g)
  BY DEF PersistRemoteJoin
<1>2. /\ r.id \in DOMAIN remote
      /\ remote[r.id].key = Member(r.user)
      /\ \A i \in r.todo : i \in DOMAIN remote /\ remote[i].key # NoKey
      /\ \A i \in r.local : i \in DOMAIN evento /\ evento[i].key # NoKey
  BY <1>1 DEF IInv, ReqGood
<1>11. A \subseteq DOMAIN remote
  BY DEF PersistRemoteJoin, AuthChains, StateEvents
<1>3. W \subseteq r.todo \cup r.local
  BY <1>1 DEF Resolutions
<1>4. /\ DOMAIN g = A \cup r.todo \cup {r.id} /\ \A i \in DOMAIN g : g[i] = remote[i]
      /\ DOMAIN g \subseteq DOMAIN remote
  BY <1>2, <1>11
<1>5. r.user \in Users
  BY DEF IInv, TypeOK, Request
<1> HIDE DEF g
<1>6. \A i \in DOMAIN g : i \in Ids /\ i < nextId /\ g[i] \in Event
  BY <1>4, IdFacts DEF IInv, TypeOK
<1>7. Ranked(g) /\ Agree(g, remote) /\ Agree(evento, g)
  BY <1>4 DEF IInv, Ranked, Agree
<1>8. nextId \in Nat /\ nextId <= nextId
  BY IdFacts
<1>9. /\ Grows(evento, evento')
      /\ DOMAIN evento' = DOMAIN evento \cup DOMAIN g
      /\ \A i \in DOMAIN g : evento'[i] = g[i]
      /\ \A i \in DOMAIN evento' : i \in Ids /\ i < nextId /\ evento'[i] \in Event
      /\ Ranked(evento') /\ Agree(evento', remote)
  BY <1>1, <1>6, <1>7, <1>8, SaveFacts
<1>10. ASSUME NEW w \in Winners(t, W)
       PROVE  /\ w \in DOMAIN evento'
              /\ evento'[w] = EventOf(w)
              /\ EventOf(w) \in Event
              /\ EventOf(w).key \in StateKeys
  <2>1. w \in r.todo \cup r.local \cup {r.id}
    BY <1>3 DEF Winners
  <2>2. w \in DOMAIN evento'
    BY <1>2, <1>4, <1>9, <2>1
  <2>3. evento'[w] = EventOf(w)
    <3>1. CASE w \in DOMAIN remote
      BY <1>9, <2>2, <3>1 DEF Agree, EventOf
    <3>2. CASE w \notin DOMAIN remote
      BY <1>2, <1>9, <2>1, <3>2 DEF Grows, EventOf
    <3> QED BY <3>1, <3>2
  <2>4. EventOf(w) \in Event
    BY <1>9, <2>2, <2>3
  <2>5. EventOf(w).key # NoKey
    <3>1. CASE w = r.id
      BY <1>2, <1>5, <3>1, KeyFacts DEF EventOf
    <3>2. CASE w \in r.todo
      BY <1>2, <3>2 DEF EventOf
    <3>3. CASE w \in r.local /\ w \notin DOMAIN remote
      BY <1>2, <3>3 DEF EventOf
    <3>4. CASE w \in r.local /\ w \in DOMAIN remote
      BY <1>2, <3>4 DEF EventOf, IInv, Agree
    <3> QED BY <2>1, <3>1, <3>2, <3>3, <3>4
  <2> QED BY <2>2, <2>3, <2>4, <2>5 DEF Event
<1> QED BY <1>2, <1>4, <1>9, <1>10, <1>11

(* State rows st and membership rows mb mirror each other and the events. *)
Mirrored(st, mb, ev) ==
  /\ DOMAIN st \subseteq StateKeys
  /\ \A k \in DOMAIN st : st[k] \in DOMAIN ev /\ ev[st[k]].key = k
  /\ DOMAIN mb = {u \in Users : /\ Member(u) \in DOMAIN st
                                /\ ev[st[Member(u)]].content # ""}
  /\ \A u \in DOMAIN mb : /\ mb[u].tipo = ev[st[Member(u)]].content
                          /\ mb[u].evento = st[Member(u)]
                          /\ mb[u] \in [tipo : Contents \ {""}, evento : DOMAIN ev]

LEMMA PersistRows ==
  ASSUME IInv, NEW t \in Threads, NEW W, NEW A, PersistRemoteJoin(t, W, A)
  PROVE  Mirrored(StateRowsOf(Winners(t, W)),
                  MembershipRowsOf(StateRowsOf(Winners(t, W))), evento')
<1> DEFINE win == Winners(t, W)
           st  == StateRowsOf(win)
           mb  == MembershipRowsOf(st)
<1>1. \A w \in win : /\ w \in DOMAIN evento'
                     /\ evento'[w] = EventOf(w)
                     /\ EventOf(w) \in Event
                     /\ EventOf(w).key \in StateKeys
  BY PersistFacts
<1> HIDE DEF win
<1>2. DOMAIN st = {EventOf(w).key : w \in win}
  BY DEF StateRowsOf
<1>3. \A k \in DOMAIN st : st[k] \in win /\ EventOf(st[k]).key = k
  BY <1>2 DEF StateRowsOf
<1> HIDE DEF st
<1>4. /\ DOMAIN st \subseteq StateKeys
      /\ \A k \in DOMAIN st : /\ st[k] \in DOMAIN evento'
                              /\ evento'[st[k]] = EventOf(st[k])
                              /\ evento'[st[k]].key = k
                              /\ EventOf(st[k]).content \in Contents
  BY <1>1, <1>2, <1>3 DEF Event
<1>5. DOMAIN mb = {u \in Users : Member(u) \in DOMAIN st /\
                     evento'[st[Member(u)]].content # ""}
  BY <1>4 DEF MembershipRowsOf
<1>6. ASSUME NEW u \in DOMAIN mb
      PROVE  /\ mb[u].tipo = evento'[st[Member(u)]].content
             /\ mb[u].evento = st[Member(u)]
             /\ mb[u] \in [tipo : Contents \ {""}, evento : DOMAIN evento']
  <2> DEFINE i == st[Member(u)]
             c == EventOf(st[Member(u)]).content
  <2>1. mb[u] = [tipo |-> c, evento |-> i]
    BY <1>5 DEF MembershipRowsOf
  <2>2. /\ Member(u) \in DOMAIN st /\ evento'[i].content # ""
        /\ i \in DOMAIN evento'
        /\ evento'[i].content = c
        /\ c \in Contents
    BY <1>4, <1>5
  <2> HIDE DEF mb, i, c
  <2>3. mb[u].tipo = c /\ mb[u].evento = i
    BY <2>1
  <2>4. mb[u] \in [tipo : Contents \ {""}, evento : DOMAIN evento']
    <3>1. c \in Contents \ {""} /\ i \in DOMAIN evento'
      BY <2>2
    <3>2. [tipo |-> c, evento |-> i]
            \in [tipo : Contents \ {""}, evento : DOMAIN evento']
      BY <3>1
    <3> QED BY <2>1, <3>2, Zenon
  <2> QED BY <2>2, <2>3, <2>4 DEF i
<1>7. Mirrored(st, mb, evento')
  <2> HIDE DEF mb
  <2> QED BY <1>4, <1>5, <1>6 DEF Mirrored
<1> QED BY <1>7 DEF win, st

LEMMA PersistRemoteJoinStep ==
  ASSUME IInv, NEW t \in Threads, NEW W, NEW A, PersistRemoteJoin(t, W, A)
  PROVE  IInv'
<1> DEFINE st == StateRowsOf(Winners(t, W))
           mb == MembershipRowsOf(st)
<1>1. /\ req[t].id \in DOMAIN evento'
      /\ Grows(evento, evento')
      /\ \A i \in DOMAIN evento' : i \in Ids /\ i < nextId /\ evento'[i] \in Event
      /\ Ranked(evento') /\ Agree(evento', remote)
  BY PersistFacts
<1>2. /\ DOMAIN st \subseteq StateKeys
      /\ \A k \in DOMAIN st : st[k] \in DOMAIN evento' /\ evento'[st[k]].key = k
      /\ DOMAIN mb \subseteq Users
      /\ \A u \in DOMAIN mb :
           mb[u] \in [tipo : Contents \ {""}, evento : DOMAIN evento']
  <2>1. Mirrored(st, mb, evento')
    BY PersistRows
  <2> HIDE DEF st, mb
  <2> QED BY <2>1 DEF Mirrored
<1>3. /\ canal' = TRUE
      /\ estadoAtual' = Upsert(estadoAtual, st)
      /\ membership' = Upsert(membership, mb)
      /\ extremidades' \subseteq extremidades \cup {req[t].id}
      /\ linked' = linked \cup {req[t].id}
      /\ inbound' = inbound \cup {req[t].id}
      /\ req' = [req EXCEPT ![t] = Idle]
      /\ UNCHANGED <<queued, remote, nextId>>
  BY DEF PersistRemoteJoin, UpdateForwardExtremities
<1> HIDE DEF st, mb
<1>4. RowsOK(estadoAtual', membership', evento')
  <2>1. RowsOK(estadoAtual', membership, evento')
    BY <1>1, <1>2, <1>3, RowsGrow, UpsertRows
  <2> QED BY <1>2, <1>3, <2>1, UpsertMembers
<1>5. nextId' \in Nat /\ nextId <= nextId' /\ nextId' = nextId
  BY <1>3, IdFacts
<1>6. ReqGood(Idle, evento', remote', linked', nextId')
  BY IdleFacts DEF ReqGood
<1>7. /\ req' \in [Threads -> Request]
      /\ \A s \in Threads : req'[s] = req[s] \/
           ReqGood(req'[s], evento', remote', linked', nextId')
  BY <1>3, <1>6, IdleFacts DEF IInv, TypeOK
<1>8. /\ extremidades' \subseteq DOMAIN evento'
      /\ linked \subseteq linked' /\ linked' \subseteq DOMAIN evento'
      /\ inbound' \subseteq linked'
  BY <1>1, <1>3 DEF IInv, TypeOK, Grows
<1> QED BY <1>1, <1>3, <1>4, <1>5, <1>7, <1>8, TableStep

-----------------------------------------------------------------------------
(* The invariant. *)

LEMMA EndpointStepIInv ==
  ASSUME IInv, EndpointStep
  PROVE  IInv'
<1>1. PICK id \in DOMAIN remote :
        \/ ProcessSendJoin(id)
        \/ ProcessSendLeave(id)
        \/ \E n \in 0 .. MaxPreviews :
             \E pv \in [nextId .. (nextId + n - 1) -> PreviewState] :
               ProcessInvite(id, n, pv)
  BY DEF EndpointStep, sendJoin, sendLeave, putInvite
<1>2. CASE ProcessSendJoin(id) \/ ProcessSendLeave(id)
  BY <1>2, HandshakeStep DEF ProcessSendJoin, ProcessSendLeave
<1>3. ASSUME NEW n \in 0 .. MaxPreviews,
             NEW pv \in [nextId .. (nextId + n - 1) -> PreviewState],
             ProcessInvite(id, n, pv)
      PROVE  IInv'
  <2>1. MaxPreviews \in Nat
    BY RoomAssumption
  <2>2. n \in Nat
    BY <2>1
  <2> QED BY <1>3, <2>2, ProcessInviteStep
<1> QED BY <1>1, <1>2, <1>3

LEMMA ClientStepIInv ==
  ASSUME IInv, NEW t \in Threads, ClientStep(t)
  PROVE  IInv'
<1>1. ASSUME NEW u \in LocalUsers,
             \/ SendEvent(t, u) \/ JoinLocalRoom(t, u) \/ LeaveRoom(t, u)
             \/ \E s \in ClientState : SendStateEvent(t, u, s)
             \/ \E v \in Users : InviteUser(t, u, v)
      PROVE  IInv'
  BY <1>1, GuardSteps
<1>2. ASSUME NEW rule \in {"public", "invite"},
             NEW invitees \in SUBSET (Users \ {Creator}),
             NEW rest \in {{}} \cup {{s} : s \in InitialState},
             CreateRoom(t, rule, rest, invitees)
      PROVE  IInv'
  <2>1. invitees \in SUBSET Users /\ (rest = {} \/ \E s \in InitialState : rest = {s})
    OBVIOUS
  <2> QED BY <1>2, <2>1, CreateRoomStep
<1>3. ASSUME NEW v \in Users, CreateRoomInvites(t, v) PROVE IInv'
  BY <1>3, CreateRoomInvitesStep
<1>4. CASE ResolveEventDependencies(t)
  BY <1>4, ResolveStep
<1>5. CASE Commit(t)
  BY <1>5, CommitStep
<1>6. CASE QueueOutgoing(t)
  BY <1>6, QueueStep
<1>7. CASE Abort(t)
  BY <1>7, AbortStep
<1>8. ASSUME NEW u \in LocalUsers, JoinRemoteRoom(t, u) PROVE IInv'
  BY <1>8, JoinRemoteRoomStep
<1> QED BY <1>1, <1>2, <1>3, <1>4, <1>5, <1>6, <1>7, <1>8
    DEF ClientStep, postCreateRoom, postJoinRoom,
    postLeaveRoom, postInviteRoom, putSendEvent, putStateEvent

LEMMA InboundStepIInv ==
  ASSUME IInv, NEW t \in Threads, InboundStep(t)
  PROVE  IInv'
<1>1. ASSUME NEW id \in DOMAIN remote, ReceivePDU(t, id) PROVE IInv'
  BY <1>1, ReceiveStep
<1>2. ASSUME NEW h \in req[t].todo, IngestHistorical(t, h) PROVE IInv'
  BY <1>2, IngestHistoricalStep
<1>3. CASE ProcessInboundPDU(t)
  BY <1>3, ProcessInboundPDUStep
<1> QED BY <1>1, <1>2, <1>3 DEF InboundStep, putSendTxn

LEMMA RemoteJoinStepIInv ==
  ASSUME IInv, NEW t \in Threads, RemoteJoinStep(t)
  PROVE  IInv'
<1>1. CASE ReadLocalState(t)
  BY <1>1, ReadLocalStateStep
<1>2. ASSUME NEW W, NEW A, PersistRemoteJoin(t, W, A) PROVE IInv'
  BY <1>2, PersistRemoteJoinStep
<1> QED BY <1>1, <1>2 DEF RemoteJoinStep

LEMMA StutterIInv ==
  ASSUME IInv, UNCHANGED vars
  PROVE  IInv'
BY DEF vars, tables, history, IInv, TypeOK, Ranked, RemoteOK, Agree, StateKeyed,
       ReqGood

LEMMA NextIInv == IInv /\ [Next]_vars => IInv'
<1> SUFFICES ASSUME IInv, [Next]_vars PROVE IInv'
  OBVIOUS
<1>1. CASE RemoteStep
  BY <1>1, RemoteStepIInv
<1>2. CASE EndpointStep
  BY <1>2, EndpointStepIInv
<1>3. ASSUME NEW t \in Threads,
             ClientStep(t) \/ InboundStep(t) \/ RemoteJoinStep(t)
      PROVE  IInv'
  BY <1>3, ClientStepIInv, InboundStepIInv, RemoteJoinStepIInv
<1>4. CASE UNCHANGED vars
  BY <1>4, StutterIInv
<1> QED BY <1>1, <1>2, <1>3, <1>4 DEF Next

(* IInv holds in every reachable state, for every value of the constants. *)
THEOREM Invariance == Spec => []IInv
BY InitIInv, NextIInv, PTL DEF Spec

(***************************************************************************)
(* Type correctness and referential integrity of the tables: whatever the  *)
(* handlers interleave, extremities, state rows and membership rows point  *)
(* at stored events (the foreign keys of the schema).                      *)
(***************************************************************************)
THEOREM TypeCorrect == Spec => []TypeOK
<1>1. IInv => TypeOK
  BY DEF IInv
<1> QED BY <1>1, Invariance, PTL

-----------------------------------------------------------------------------
(***************************************************************************)
(* The DAG.  A step leaves it alone, links an inbound event, links the     *)
(* event a request commits, or writes the genesis chain.                   *)
(***************************************************************************)

LinkStep(id) ==
  /\ Grows(evento, evento')
  /\ id \in DOMAIN evento'
  /\ extremidades' = (extremidades \ evento'[id].prevs) \cup {id}
  /\ linked' = linked \cup {id}

(* A request reaches its transaction only from a read of every extremity. *)
KeepsCommits ==
  \A s \in Threads : req'[s].pc = "commit" =>
    req'[s] = req[s] \/ req'[s].prevs = extremidades'

(* Every new event was built by another server or is a preview. *)
ForeignEvents ==
  \A i \in DOMAIN evento' \ DOMAIN evento :
    evento'[i].via \notin {"local", "genesis"}

QuietStep ==
  /\ Grows(evento, evento')
  /\ ForeignEvents
  /\ UNCHANGED <<extremidades, linked, inbound>>

InboundLink ==
  /\ ForeignEvents
  /\ \E id \in Known : LinkStep(id) /\ inbound' = inbound \cup {id}

LocalLink(t) ==
  /\ LinkStep(nextId)
  /\ inbound' = inbound
  /\ DOMAIN evento' = DOMAIN evento \cup {nextId}
  /\ evento'[nextId].prevs = req[t].prevs
  /\ evento'[nextId].depth = req[t].depth
  /\ evento'[nextId].by = t
  /\ req[t].pc = "commit"
  /\ req'[t].pc # "commit"

GenesisStep(t) ==
  \E last \in {4, 5} :
    /\ linked = {} /\ inbound = {} /\ inbound' = {}
    /\ DOMAIN evento = {}
    /\ DOMAIN evento' = 1 .. last
    /\ \A i \in 1 .. last :
         /\ evento'[i].prevs = IF i = 1 THEN {} ELSE {i - 1}
         /\ evento'[i].depth = i - 1
         /\ evento'[i].by = t
    /\ extremidades' = {last}
    /\ linked' = 1 .. last
    /\ req'[t].pc # "commit"

DagStep ==
  /\ KeepsCommits
  /\ \/ QuietStep
     \/ InboundLink
     \/ \E t \in Threads : LocalLink(t) \/ GenesisStep(t)

LEMMA KeepsCommitsFacts ==
  ASSUME IInv, NEW t \in Threads, NEW r, req' = [req EXCEPT ![t] = r],
         r.pc # "commit" \/ r.prevs = extremidades'
  PROVE  KeepsCommits /\ req'[t] = r
<1>1. req \in [Threads -> Request]
  BY DEF IInv, TypeOK
<1>2. \A s \in Threads : req'[s] = IF s = t THEN r ELSE req[s]
  BY <1>1
<1> QED BY <1>2 DEF KeepsCommits

LEMMA QuietFacts ==
  ASSUME UNCHANGED <<tables, history>>
  PROVE  QuietStep
BY DEF tables, history, QuietStep, Grows, ForeignEvents

(* An event that other servers know and this one stores for the first time. *)
LEMMA ForeignFacts ==
  ASSUME IInv, NEW i \in Known, i \notin DOMAIN evento
  PROVE  i \in DOMAIN remote /\ EventOf(i).via \notin {"local", "genesis"}
BY DEF IInv, TypeOK, Known, EventOf, RemoteOK, RemoteEventOK

LEMMA ClientStepDag ==
  ASSUME IInv, NEW t \in Threads, ClientStep(t)
  PROVE  DagStep
<1> USE DEF DagStep
<1>1. ASSUME NEW u, NEW k, NEW c, Begin(t, u, k, c)
      PROVE  DagStep
  <2> DEFINE r == [Idle EXCEPT !.pc = "resolve", !.user = u, !.key = k,
                               !.content = c]
  <2>1. r.pc = "resolve"
    BY IdleFacts DEF Request
  <2>2. req' = [req EXCEPT ![t] = r] /\ UNCHANGED <<tables, history>>
    BY <1>1 DEF Begin
  <2> HIDE DEF r
  <2> QED BY <2>1, <2>2, KeepsCommitsFacts, QuietFacts
<1>3. ASSUME NEW u \in LocalUsers,
             SendEvent(t, u) \/ JoinLocalRoom(t, u) \/ LeaveRoom(t, u)
      PROVE  DagStep
  BY <1>1, <1>3 DEF SendEvent, JoinLocalRoom, LeaveRoom
<1>4. ASSUME NEW u \in LocalUsers, NEW s \in ClientState, SendStateEvent(t, u, s)
      PROVE  DagStep
  BY <1>1, <1>4 DEF SendStateEvent
<1>5. ASSUME NEW u \in LocalUsers, NEW v \in Users, InviteUser(t, u, v)
      PROVE  DagStep
  BY <1>1, <1>5 DEF InviteUser
<1>6. ASSUME NEW rule \in {"public", "invite"},
             NEW invitees \in SUBSET (Users \ {Creator}),
             NEW rest \in {{}} \cup {{s} : s \in InitialState},
             CreateRoom(t, rule, rest, invitees)
      PROVE  DagStep
  <2> DEFINE g == LinkAndHashGenesis(rule, rest, "genesis", t)
             r == IF invitees = {} THEN Idle
                  ELSE [Idle EXCEPT !.pc = "invite", !.invitees = invitees]
  <2>1. rest = {} \/ \E s \in InitialState : rest = {s}
    OBVIOUS
  <2>2. PICK last \in {4, 5} : CreateEffect(g, last, t)
    BY <1>6, <2>1, CreateFacts
  <2>3. inbound' = {} /\ req' = [req EXCEPT ![t] = r]
    BY <1>6, <2>2 DEF CreateRoom, CreateEffect
  <2>4. r.pc # "commit"
    BY IdleFacts DEF Request
  <2> HIDE DEF r, g
  <2>5. KeepsCommits /\ req'[t].pc # "commit"
    BY <2>3, <2>4, KeepsCommitsFacts
  <2>6. \A i \in 1 .. last :
          /\ evento'[i].prevs = IF i = 1 THEN {} ELSE {i - 1}
          /\ evento'[i].depth = i - 1
          /\ evento'[i].by = t
    BY <2>2 DEF GenesisChain, CreateEffect
  <2>7. GenesisStep(t)
    BY <2>2, <2>3, <2>5, <2>6 DEF GenesisStep, CreateEffect
  <2> QED BY <2>5, <2>7
<1>7. ASSUME NEW v \in Users, CreateRoomInvites(t, v) PROVE DagStep
  <2> DEFINE r == [Idle EXCEPT !.pc = "resolve", !.user = req[t].user,
                     !.key = Member(v), !.content = "invite",
                     !.invitees = req[t].invitees \ {v}]
  <2>1. r.pc = "resolve"
    BY IdleFacts DEF Request
  <2>2. /\ req' = [req EXCEPT ![t] = r] \/ req' = [req EXCEPT ![t] = Idle]
        /\ UNCHANGED <<tables, history>>
    BY <1>7 DEF CreateRoomInvites
  <2> HIDE DEF r
  <2> QED BY <2>1, <2>2, IdleFacts, KeepsCommitsFacts, QuietFacts
<1>8. CASE ResolveEventDependencies(t)
  <2>1. UNCHANGED <<tables, history>>
    BY <1>8 DEF ResolveEventDependencies
  <2>2. KeepsCommits
    <3>1. req \in [Threads -> Request]
      BY DEF IInv, TypeOK
    <3>2. /\ \A s \in Threads \ {t} : req'[s] = req[s]
          /\ req'[t].prevs = extremidades
      BY <1>8, <3>1 DEF ResolveEventDependencies, Request
    <3> QED BY <2>1, <3>2 DEF KeepsCommits, tables
  <2> QED BY <2>1, <2>2, QuietFacts
<1>9. CASE Commit(t)
  <2> DEFINE r == [req[t] EXCEPT !.pc = "queue", !.id = nextId]
  <2>1. /\ Grows(evento, evento')
        /\ DOMAIN evento' = DOMAIN evento \cup {nextId}
        /\ evento'[nextId] = NewEvent(t)
        /\ extremidades' = (extremidades \ req[t].prevs) \cup {nextId}
        /\ linked' = linked \cup {nextId}
    BY <1>9, CommitFacts
  <2>2. /\ NewEvent(t).prevs = req[t].prevs /\ NewEvent(t).by = t
        /\ NewEvent(t).depth = req[t].depth
    BY DEF NewEvent
  <2>3. req \in [Threads -> Request] /\ req[t] \in Request
    BY DEF IInv, TypeOK
  <2>4. r.pc = "queue"
    BY <2>3 DEF Request
  <2>5. /\ req' = [req EXCEPT ![t] = r] /\ req[t].pc = "commit"
        /\ inbound' = inbound
    BY <1>9, <2>3 DEF Commit
  <2> HIDE DEF r
  <2>6. KeepsCommits /\ req'[t].pc # "commit"
    BY <2>4, <2>5, KeepsCommitsFacts
  <2>7. LocalLink(t)
    BY <2>1, <2>2, <2>5, <2>6 DEF LocalLink, LinkStep
  <2> QED BY <2>6, <2>7
<1>10. CASE QueueOutgoing(t)
  <2> DEFINE r == Finish(t)
  <2>1. r.pc # "commit"
    BY IdleFacts DEF Finish, Request
  <2>2. req' = [req EXCEPT ![t] = r] /\ UNCHANGED <<tables, history>>
    BY <1>10 DEF QueueOutgoing
  <2> HIDE DEF r
  <2> QED BY <2>1, <2>2, KeepsCommitsFacts, QuietFacts
<1>11. CASE Abort(t)
  BY <1>11, IdleFacts, KeepsCommitsFacts, QuietFacts DEF Abort
<1>12. ASSUME NEW u \in LocalUsers, JoinRemoteRoom(t, u) PROVE DagStep
  <2>1. PICK S : req' = [req EXCEPT ![t] = [Idle EXCEPT !.pc = "merge",
                           !.user = u, !.id = nextId, !.todo = S]]
    BY <1>12 DEF JoinRemoteRoom
  <2> DEFINE r == [Idle EXCEPT !.pc = "merge", !.user = u, !.id = nextId,
                               !.todo = S]
  <2>2. r.pc = "merge"
    BY IdleFacts DEF Request
  <2>3. req' = [req EXCEPT ![t] = r] /\ UNCHANGED <<tables, history>>
    BY <1>12, <2>1 DEF JoinRemoteRoom
  <2> HIDE DEF r
  <2> QED BY <2>2, <2>3, KeepsCommitsFacts, QuietFacts
<1> QED BY <1>3, <1>4, <1>5, <1>6, <1>7, <1>8, <1>9, <1>10, <1>11, <1>12
    DEF ClientStep, postCreateRoom, postJoinRoom,
    postLeaveRoom, postInviteRoom, putSendEvent, putStateEvent

LEMMA InboundStepDag ==
  ASSUME IInv, NEW t \in Threads, InboundStep(t)
  PROVE  DagStep
<1> USE DEF DagStep
<1>0. req \in [Threads -> Request]
  BY DEF IInv, TypeOK
<1>1. ASSUME NEW id \in DOMAIN remote, ReceivePDU(t, id) PROVE DagStep
  <2>1. PICK hist : req' = [req EXCEPT ![t] = [Idle EXCEPT !.pc = "ingest",
                                               !.id = id, !.todo = hist]]
    BY <1>1 DEF ReceivePDU
  <2> DEFINE r == [Idle EXCEPT !.pc = "ingest", !.id = id, !.todo = hist]
  <2>2. r.pc = "ingest"
    BY IdleFacts DEF Request
  <2>3. req' = [req EXCEPT ![t] = r] /\ UNCHANGED <<tables, history>>
    BY <1>1, <2>1 DEF ReceivePDU
  <2> HIDE DEF r
  <2> QED BY <2>2, <2>3, KeepsCommitsFacts, QuietFacts
<1>2. ASSUME NEW id \in Known, Ingest(id) PROVE InboundLink
  <2>1. /\ Grows(evento, evento')
        /\ DOMAIN evento' = DOMAIN evento \cup {id}
        /\ extremidades' = (extremidades \ evento'[id].prevs) \cup {id}
        /\ linked' = linked \cup {id}
        /\ inbound' = inbound \cup {id}
        /\ evento'[id] = EventOf(id)
    BY <1>2, IngestFacts
  <2>2. ForeignEvents
    BY <1>2, <2>1, ForeignFacts DEF ForeignEvents
  <2> QED BY <2>1, <2>2 DEF InboundLink, LinkStep
<1>3. ASSUME NEW h \in req[t].todo, IngestHistorical(t, h) PROVE DagStep
  <2>1. h \in Known
    BY <1>3, InboundKnown DEF IngestHistorical
  <2>2. KeepsCommits
    <3>1. /\ \A s \in Threads \ {t} : req'[s] = req[s]
          /\ req'[t].pc = "ingest"
      BY <1>0, <1>3 DEF IngestHistorical, Request
    <3> QED BY <3>1 DEF KeepsCommits
  <2>3. CASE Ingest(h)
    BY <1>2, <2>1, <2>2, <2>3
  <2>4. CASE UNCHANGED <<evento, extremidades, estadoAtual, membership, history>>
    BY <2>2, <2>4 DEF QuietStep, Grows, history, ForeignEvents
  <2> QED BY <1>3, <2>3, <2>4 DEF IngestHistorical
<1>4. CASE ProcessInboundPDU(t)
  <2>1. /\ req' = [req EXCEPT ![t] = Idle] /\ Ingest(req[t].id)
        /\ req[t].id \in Known
    BY <1>4, InboundKnown DEF ProcessInboundPDU
  <2> QED BY <1>2, <2>1, IdleFacts, KeepsCommitsFacts
<1> QED BY <1>1, <1>3, <1>4 DEF InboundStep, putSendTxn

LEMMA RemoteJoinStepDag ==
  ASSUME IInv, NEW t \in Threads, RemoteJoinStep(t)
  PROVE  DagStep
<1> USE DEF DagStep
<1>1. CASE ReadLocalState(t)
  <2>1. UNCHANGED <<tables, history>>
    BY <1>1 DEF ReadLocalState
  <2>2. req \in [Threads -> Request]
    BY DEF IInv, TypeOK
  <2>3. /\ \A s \in Threads \ {t} : req'[s] = req[s]
        /\ req'[t].pc = "persist"
    BY <1>1, <2>2 DEF ReadLocalState, Request
  <2> QED BY <2>1, <2>3, QuietFacts DEF KeepsCommits
<1>2. ASSUME NEW W, NEW A, PersistRemoteJoin(t, W, A) PROVE DagStep
  <2> DEFINE id == req[t].id
  <2>1. /\ id \in DOMAIN remote
        /\ Grows(evento, evento')
        /\ id \in DOMAIN evento'
        /\ evento'[id] = remote[id]
        /\ A \subseteq DOMAIN remote
        /\ DOMAIN evento' = DOMAIN evento \cup A \cup req[t].todo \cup {id}
        /\ Agree(evento', remote)
    BY <1>2, PersistFacts
  <2>2. /\ extremidades' = (extremidades \ remote[id].prevs) \cup {id}
        /\ linked' = linked \cup {id}
        /\ inbound' = inbound \cup {id}
        /\ req' = [req EXCEPT ![t] = Idle]
    BY <1>2 DEF PersistRemoteJoin, UpdateForwardExtremities
  <2>3. ForeignEvents
    <3>1. \A i \in req[t].todo : i \in DOMAIN remote
      BY <1>2 DEF PersistRemoteJoin, IInv, ReqGood
    <3> QED BY <2>1, <3>1
        DEF ForeignEvents, Agree, IInv, RemoteOK, RemoteEventOK
  <2>4. InboundLink
    BY <2>1, <2>2, <2>3 DEF InboundLink, LinkStep, Known
  <2> QED BY <2>2, <2>4, IdleFacts, KeepsCommitsFacts
<1> QED BY <1>1, <1>2 DEF RemoteJoinStep

LEMMA RemoteStepDag ==
  ASSUME IInv, RemoteStep
  PROVE  DagStep
<1>1. UNCHANGED <<tables, history>> /\ req' = req
  BY DEF RemoteStep, makeJoin, makeLeave, RemoteSend, RemoteInvite, RemoteBuilds
<1> QED BY <1>1, QuietFacts DEF DagStep, KeepsCommits

LEMMA EndpointStepDag ==
  ASSUME IInv, EndpointStep
  PROVE  DagStep
<1>1. PICK id \in DOMAIN remote :
        \/ ProcessSendJoin(id)
        \/ ProcessSendLeave(id)
        \/ \E n \in 0 .. MaxPreviews :
             \E pv \in [nextId .. (nextId + n - 1) -> PreviewState] :
               ProcessInvite(id, n, pv)
  BY DEF EndpointStep, sendJoin, sendLeave, putInvite
<1>2. RemoteEventOK(remote[id])
  BY DEF IInv, RemoteOK
<1>3. ASSUME NEW g, SaveEvento(g), UNCHANGED <<extremidades, linked, inbound, req>>,
             \A i \in DOMAIN g : g[i].via \notin {"local", "genesis"}
      PROVE  DagStep
  <2>1. Grows(evento, evento') /\ ForeignEvents
    BY <1>3 DEF SaveEvento, InsertNew, Upsert, Grows, ForeignEvents
  <2> QED BY <1>3, <2>1 DEF DagStep, KeepsCommits, QuietStep
<1>4. CASE ProcessSendJoin(id) \/ ProcessSendLeave(id)
  <2> DEFINE g == Row(id, remote[id])
  <2>1. DOMAIN g = {id} /\ g[id] = remote[id]
    BY RowFacts
  <2>2. SaveEvento(g) /\ UNCHANGED <<extremidades, linked, inbound, req>>
    BY <1>4 DEF ProcessSendJoin, ProcessSendLeave, StoreHandshake, history
  <2> HIDE DEF g
  <2>3. \A i \in DOMAIN g : g[i].via \notin {"local", "genesis"}
    BY <1>2, <2>1 DEF RemoteEventOK
  <2> QED BY <1>3, <2>2, <2>3
<1>5. ASSUME NEW n \in 0 .. MaxPreviews,
             NEW pv \in [nextId .. (nextId + n - 1) -> PreviewState],
             ProcessInvite(id, n, pv)
      PROVE  DagStep
  <2> DEFINE g == Upsert(Row(id, remote[id]), Previews(id, n, pv))
  <2>1. SaveEvento(g) /\ UNCHANGED <<extremidades, linked, inbound, req>>
    BY <1>5 DEF ProcessInvite, history
  <2>2. \A i \in DOMAIN g : g[i].via = "preview" \/ g[i] = remote[id]
    BY DEF Upsert, Row, Previews
  <2> HIDE DEF g
  <2>3. \A i \in DOMAIN g : g[i].via \notin {"local", "genesis"}
    BY <1>2, <2>2 DEF RemoteEventOK
  <2> QED BY <1>3, <2>1, <2>3
<1> QED BY <1>1, <1>4, <1>5

LEMMA NextDagStep ==
  ASSUME IInv, [Next]_vars
  PROVE  DagStep
<1>1. CASE UNCHANGED vars
  BY <1>1, QuietFacts DEF vars, DagStep, KeepsCommits
<1>2. CASE Next
  BY <1>2, RemoteStepDag, EndpointStepDag, ClientStepDag, InboundStepDag,
     RemoteJoinStepDag DEF Next
<1> QED BY <1>1, <1>2

-----------------------------------------------------------------------------
(* DagConnected. *)

LEMMA NextDagConnected ==
  ASSUME IInv, DagConnected, DagStep
  PROVE  DagConnected'
<1> USE DEF DagConnected, HasChild
<1>0. linked \subseteq DOMAIN evento
  BY DEF IInv, TypeOK
<1>1. CASE QuietStep
  BY <1>0, <1>1 DEF QuietStep, Grows
<1>2. ASSUME NEW id, LinkStep(id) PROVE DagConnected'
  <2>1. ASSUME NEW e \in linked, e \in extremidades
        PROVE  e \in extremidades' \/ e \in evento'[id].prevs
    BY <1>2, <2>1 DEF LinkStep
  <2>2. ASSUME NEW e \in linked, NEW c \in linked, e \in evento[c].prevs
        PROVE  e \in evento'[c].prevs
    BY <1>0, <1>2, <2>2 DEF LinkStep, Grows
  <2>3. linked' = linked \cup {id} /\ id \in extremidades'
    BY <1>2 DEF LinkStep
  <2> QED BY <2>1, <2>2, <2>3
<1>3. ASSUME NEW t \in Threads, GenesisStep(t) PROVE DagConnected'
  <2>1. PICK last \in {4, 5} :
          /\ \A i \in 1 .. last :
               evento'[i].prevs = IF i = 1 THEN {} ELSE {i - 1}
          /\ extremidades' = {last}
          /\ linked' = 1 .. last
    BY <1>3 DEF GenesisStep
  <2>2. ASSUME NEW e \in 1 .. last, e # last
        PROVE  e + 1 \in 1 .. last /\ e \in evento'[e + 1].prevs
    <3>1. e + 1 \in 1 .. last /\ e + 1 # 1 /\ (e + 1) - 1 = e
      BY <2>2
    <3>2. evento'[e + 1].prevs = {e}
      BY <2>1, <3>1
    <3> QED BY <3>1, <3>2
  <2> QED BY <2>1, <2>2
<1> QED BY <1>1, <1>2, <1>3 DEF DagStep, InboundLink, LocalLink

(***************************************************************************)
(* No event drops out of the DAG, for any number of concurrent requests    *)
(* and any order, loss or repetition of inbound events: the delete of      *)
(* UpdateForwardExtremities only removes parents of the inserted event.    *)
(***************************************************************************)
THEOREM DagStaysConnected == Spec => []DagConnected
<1>1. Init => DagConnected
  BY DEF Init, DagConnected
<1>2. IInv /\ DagConnected /\ [Next]_vars => DagConnected'
  BY NextDagStep, NextDagConnected
<1> QED BY <1>1, <1>2, Invariance, PTL DEF Spec

-----------------------------------------------------------------------------
(* LocalTipsChildless, OneTipPerWriter and DepthAboveParents. *)

LEMMA NextLocalTipsChildless ==
  ASSUME IInv, IInv', LocalTipsChildless, DagStep
  PROVE  LocalTipsChildless'
<1> USE DEF LocalTipsChildless, HasChild
<1>0. linked \subseteq DOMAIN evento
  BY DEF IInv, TypeOK
<1>1. CASE QuietStep
  BY <1>0, <1>1 DEF QuietStep, Grows
<1>2. ASSUME NEW id, LinkStep(id), NEW x \in extremidades \ inbound,
             x \in extremidades', x # id, NEW c \in linked', x \in evento'[c].prevs
      PROVE  FALSE
  <2>1. x \notin evento'[id].prevs
    BY <1>2 DEF LinkStep
  <2>2. c \in linked /\ c \in DOMAIN evento
    BY <1>0, <1>2, <2>1 DEF LinkStep
  <2> QED BY <1>2, <2>2 DEF LinkStep, Grows
<1>3. ASSUME NEW id \in Known, LinkStep(id), inbound' = inbound \cup {id}
      PROVE  LocalTipsChildless'
  <2>1. \A x \in extremidades' \ inbound' : x # id /\ x \in extremidades \ inbound
    BY <1>3 DEF LinkStep
  <2> QED BY <1>2, <1>3, <2>1
<1>4. ASSUME NEW t \in Threads, LocalLink(t) PROVE LocalTipsChildless'
  <2>1. LinkStep(nextId) /\ inbound' = inbound
    BY <1>4 DEF LocalLink
  <2>2. ASSUME NEW c \in linked', nextId \in evento'[c].prevs PROVE FALSE
    <3>1. c \in DOMAIN evento' /\ nextId < c
      BY <2>2 DEF IInv, TypeOK, Ranked
    <3>2. c \in Nat /\ nextId \in Nat /\ c <= nextId
      BY <2>1, <1>0, IdFacts DEF LinkStep
    <3> QED BY <3>1, <3>2
  <2>3. \A x \in extremidades' \ inbound' :
          x = nextId \/ (x # nextId /\ x \in extremidades \ inbound)
    BY <2>1 DEF LinkStep
  <2> QED BY <1>2, <2>1, <2>2, <2>3
<1>5. ASSUME NEW t \in Threads, GenesisStep(t) PROVE LocalTipsChildless'
  <2>1. PICK last \in {4, 5} :
          /\ \A i \in 1 .. last :
               evento'[i].prevs = IF i = 1 THEN {} ELSE {i - 1}
          /\ extremidades' = {last}
          /\ linked' = 1 .. last
    BY <1>5 DEF GenesisStep
  <2>2. ASSUME NEW c \in 1 .. last, last \in evento'[c].prevs PROVE FALSE
    <3>1. c \in Int /\ last \in Int /\ c <= last
      BY <2>1, <2>2
    <3>2. evento'[c].prevs = IF c = 1 THEN {} ELSE {c - 1}
      BY <2>1, <2>2
    <3>3. c # 1 /\ last = c - 1
      BY <2>2, <3>2
    <3> QED BY <3>1, <3>3
  <2> QED BY <2>1, <2>2
<1> QED BY <1>1, <1>3, <1>4, <1>5 DEF DagStep, InboundLink

(***************************************************************************)
(* Among the extremities that only this server's own requests wrote, none  *)
(* is an inner event, however many requests read stale extremities.        *)
(***************************************************************************)
THEOREM LocalTipsStayChildless == Spec => []LocalTipsChildless
<1>1. Init => LocalTipsChildless
  BY DEF Init, LocalTipsChildless
<1>2. IInv /\ IInv' /\ LocalTipsChildless /\ [Next]_vars => LocalTipsChildless'
  BY NextDagStep, NextLocalTipsChildless
<1> QED BY <1>1, <1>2, Invariance, PTL DEF Spec

(* A thread that commits replaces every tip it owns. *)
LEMMA NextOneTip ==
  ASSUME IInv, IInv', OneTipPerWriter, OwnTipsRead, DagStep
  PROVE  OneTipPerWriter' /\ OwnTipsRead'
<1>0. extremidades \subseteq DOMAIN evento
  BY DEF IInv, TypeOK
<1>1. ASSUME Grows(evento, evento'),
             extremidades' \ inbound' \subseteq extremidades \ inbound
      PROVE  OneTipPerWriter' /\ OwnTipsRead'
  <2>1. \A x \in extremidades' \ inbound' :
          x \in extremidades \ inbound /\ evento'[x] = evento[x]
    BY <1>0, <1>1 DEF Grows
  <2>2. OneTipPerWriter'
    BY <2>1 DEF OneTipPerWriter
  <2>3. OwnTipsRead'
    BY <2>1 DEF OwnTipsRead, DagStep, KeepsCommits
  <2> QED BY <2>2, <2>3
<1>2. CASE QuietStep
  BY <1>1, <1>2 DEF QuietStep
<1>3. CASE InboundLink
  BY <1>1, <1>3 DEF InboundLink, LinkStep
<1>4. ASSUME NEW t \in Threads, LocalLink(t)
      PROVE  OneTipPerWriter' /\ OwnTipsRead'
  <2>1. /\ Grows(evento, evento')
        /\ extremidades' = (extremidades \ req[t].prevs) \cup {nextId}
        /\ inbound' = inbound
        /\ evento'[nextId].by = t
        /\ req[t].pc = "commit" /\ req'[t].pc # "commit"
    BY <1>4 DEF LocalLink, LinkStep
  <2>2. \A x \in extremidades' \ inbound' :
          \/ x = nextId
          \/ /\ x \in extremidades \ inbound /\ evento'[x] = evento[x]
             /\ evento[x].by # t
    BY <1>0, <2>1 DEF Grows, OwnTipsRead
  <2>3. OneTipPerWriter'
    BY <2>1, <2>2 DEF OneTipPerWriter
  <2>4. ASSUME NEW s \in Threads, req'[s].pc = "commit",
               NEW x \in extremidades' \ inbound', evento'[x].by = s
        PROVE  x \in req'[s].prevs
    <3>1. s # t /\ (req'[s] = req[s] \/ req'[s].prevs = extremidades')
      BY <2>1, <2>4 DEF DagStep, KeepsCommits
    <3>2. x \in extremidades \ inbound /\ evento[x].by = s
      BY <2>1, <2>2, <2>4, <3>1
    <3> QED BY <2>4, <3>1, <3>2 DEF OwnTipsRead
  <2>5. OwnTipsRead'
    BY <2>4 DEF OwnTipsRead
  <2> QED BY <2>3, <2>5
<1>5. ASSUME NEW t \in Threads, GenesisStep(t)
      PROVE  OneTipPerWriter' /\ OwnTipsRead'
  <2>1. PICK last \in {4, 5} :
          /\ \A i \in 1 .. last : evento'[i].by = t
          /\ extremidades' = {last}
          /\ req'[t].pc # "commit"
    BY <1>5 DEF GenesisStep
  <2>2. last \in 1 .. last
    BY <2>1
  <2>3. evento'[last].by = t
    BY <2>1, <2>2
  <2>4. OneTipPerWriter'
    BY <2>1 DEF OneTipPerWriter
  <2>5. OwnTipsRead'
    BY <2>1, <2>3 DEF OwnTipsRead
  <2> QED BY <2>4, <2>5
<1> QED BY <1>2, <1>3, <1>4, <1>5 DEF DagStep

(***************************************************************************)
(* Forks do not pile up: at every moment each thread owns at most one of   *)
(* the extremities that local requests wrote.  The strengthening says that *)
(* a request about to commit has read every extremity its thread owns.     *)
(***************************************************************************)
THEOREM ForksAreBounded == Spec => []OneTipPerWriter
<1>1. Init => OneTipPerWriter /\ OwnTipsRead
  BY DEF Init, OneTipPerWriter, OwnTipsRead
<1>2. IInv /\ IInv' /\ OneTipPerWriter /\ OwnTipsRead /\ [Next]_vars
        => OneTipPerWriter' /\ OwnTipsRead'
  BY NextDagStep, NextOneTip
<1> QED BY <1>1, <1>2, Invariance, PTL DEF Spec

LEMMA NextDepthAboveParents ==
  ASSUME IInv, DepthAboveParents, DagStep
  PROVE  DepthAboveParents'
<1> DEFINE Ok(i) == \A p \in evento'[i].prevs :
                      p \in DOMAIN evento' /\ evento'[p].depth < evento'[i].depth
<1>1. ASSUME Grows(evento, evento'), NEW i \in DOMAIN evento,
             evento'[i].via \in {"local", "genesis"}
      PROVE  Ok(i)
  BY <1>1 DEF Grows, DepthAboveParents
<1>2. CASE Grows(evento, evento') /\ ForeignEvents
  BY <1>1, <1>2 DEF ForeignEvents, DepthAboveParents
<1>3. ASSUME NEW t \in Threads, LocalLink(t) PROVE DepthAboveParents'
  <2>1. /\ Grows(evento, evento')
        /\ DOMAIN evento' = DOMAIN evento \cup {nextId}
        /\ evento'[nextId].prevs = req[t].prevs
        /\ evento'[nextId].depth = req[t].depth
        /\ req[t].pc = "commit"
    BY <1>3 DEF LocalLink, LinkStep
  <2>2. \A p \in req[t].prevs : p \in DOMAIN evento /\ evento[p].depth < req[t].depth
    BY <2>1 DEF IInv, ReqGood
  <2>3. Ok(nextId)
    BY <2>1, <2>2 DEF Grows
  <2> QED BY <1>1, <2>1, <2>3 DEF DepthAboveParents
<1>4. ASSUME NEW t \in Threads, GenesisStep(t) PROVE DepthAboveParents'
  <2>1. PICK last \in {4, 5} :
          /\ DOMAIN evento' = 1 .. last
          /\ \A i \in 1 .. last :
               /\ evento'[i].prevs = IF i = 1 THEN {} ELSE {i - 1}
               /\ evento'[i].depth = i - 1
    BY <1>4 DEF GenesisStep
  <2>2. ASSUME NEW i \in 1 .. last, NEW p \in evento'[i].prevs
        PROVE  p \in DOMAIN evento' /\ evento'[p].depth < evento'[i].depth
    <3>1. i # 1 /\ p = i - 1
      BY <2>1, <2>2
    <3>2. p \in 1 .. last /\ p - 1 < i - 1
      BY <3>1
    <3> QED BY <2>1, <3>2
  <2> QED BY <2>1, <2>2 DEF DepthAboveParents
<1> QED BY <1>2, <1>3, <1>4 DEF DagStep, QuietStep, InboundLink, LinkStep

(***************************************************************************)
(* Depth orders the DAG: an event of this server is stored after all its   *)
(* parents and lies deeper than each of them, so ordering by depth is a    *)
(* topological order of what this server built.                            *)
(***************************************************************************)
THEOREM DepthOrdersDag == Spec => []DepthAboveParents
<1>1. Init => DepthAboveParents
  BY DEF Init, DepthAboveParents
<1>2. IInv /\ DepthAboveParents /\ [Next]_vars => DepthAboveParents'
  BY NextDagStep, NextDepthAboveParents
<1> QED BY <1>1, <1>2, Invariance, PTL DEF Spec

-----------------------------------------------------------------------------
(* The refinement. *)

(* What a step does to the DAG, and the state rows of IInv', are a step there. *)
LEMMA NextGraph ==
  ASSUME IInv, IInv', DagStep
  PROVE  [Graph!Next]_(Graph!vars)
<1> USE DEF Graph!Next, Graph!Store, Graph!Link, Graph!Create, Graph!vars
<1>1. \A k \in DOMAIN estadoAtual' :
        /\ estadoAtual'[k] \in DOMAIN evento'
        /\ evento'[estadoAtual'[k]].key = k
  BY DEF IInv, TypeOK, StateKeyed
<1>2. ASSUME Grows(evento, evento') PROVE Graph!Keeps
  BY <1>1, <1>2 DEF Graph!Keeps, Grows
<1>3. CASE QuietStep
  BY <1>2, <1>3 DEF QuietStep
<1>4. ASSUME NEW id, LinkStep(id) PROVE Graph!Next
  BY <1>2, <1>4 DEF LinkStep
<1>5. ASSUME NEW t \in Threads, GenesisStep(t) PROVE Graph!Next
  <2>1. PICK last \in {4, 5} :
          /\ linked = {} /\ DOMAIN evento = {} /\ DOMAIN evento' = 1 .. last
          /\ \A i \in 1 .. last :
               evento'[i].prevs = IF i = 1 THEN {} ELSE {i - 1}
          /\ extremidades' = {last}
          /\ linked' = 1 .. last
    BY <1>5 DEF GenesisStep
  <2>2. Graph!Keeps
    BY <1>2, <2>1 DEF Grows
  <2>3. last \in 1 .. last
    OBVIOUS
  <2>4. last \in DOMAIN evento'
    BY <2>1, <2>3
  <2>5. Graph!Create(last)
    BY <2>1, <2>2
  <2> QED BY <2>4, <2>5
<1> QED BY <1>3, <1>4, <1>5 DEF DagStep, InboundLink, LocalLink

(***************************************************************************)
(* The room tables implement EventGraph, for any users, threads and events *)
(* and any interleaving of the handlers: stored events are immutable, and  *)
(* an event enters the DAG only in the place of its own parents.           *)
(***************************************************************************)
THEOREM RoomImplementsGraph == Spec => ImplementsEventGraph
<1>1. Init => Graph!Init
  BY DEF Init, Graph!Init
<1>2. IInv /\ IInv' /\ [Next]_vars => [Graph!Next]_(Graph!vars)
  BY NextDagStep, NextGraph
<1> QED BY <1>1, <1>2, Invariance, PTL DEF Spec, ImplementsEventGraph, Graph!Spec
-----------------------------------------------------------------------------
(***************************************************************************)
(* The two state tables.  Every handler writes state rows and membership   *)
(* rows that back each other, and rows that back each other merge.         *)
(***************************************************************************)

(* MembershipBacked of given rows and events. *)
Backed(st, mb, ev) ==
  /\ \A u \in DOMAIN mb : /\ ev[mb[u].evento].key = Member(u)
                          /\ ev[mb[u].evento].content = mb[u].tipo
                          /\ Member(u) \in DOMAIN st
  /\ \A u \in Users : Member(u) \in DOMAIN st =>
       \/ u \in DOMAIN mb /\ mb[u].evento = st[Member(u)]
       \/ ev[st[Member(u)]].content = ""
       \/ ev[st[Member(u)]].via = "preview"

(* h has the pairs of g and, for other arguments, those of f. *)
Merges(f, g, h) ==
  /\ DOMAIN h = DOMAIN f \cup DOMAIN g
  /\ \A x \in DOMAIN g : h[x] = g[x]
  /\ \A x \in DOMAIN f \ DOMAIN g : h[x] = f[x]

LEMMA UpsertMerges ==
  ASSUME NEW f, NEW g, NEW h, h = Upsert(f, g)
  PROVE  Merges(f, g, h)
BY DEF Merges, Upsert

LEMMA MemberRow ==
  ASSUME NEW u, NEW c, NEW id, NEW mb, mb = Row(u, [tipo |-> c, evento |-> id])
  PROVE  DOMAIN mb = {u} /\ mb[u].tipo = c /\ mb[u].evento = id
BY DEF Row

LEMMA BackedMerge ==
  ASSUME NEW st, NEW mb, NEW ev, NEW st2, NEW mb2, NEW st3, NEW mb3,
         Backed(st, mb, ev), Backed(st2, mb2, ev), DOMAIN mb \subseteq Users,
         Merges(st, st2, st3), Merges(mb, mb2, mb3)
  PROVE  Backed(st3, mb3, ev)
<1>1. ASSUME NEW u \in DOMAIN mb3
      PROVE  /\ ev[mb3[u].evento].key = Member(u) /\ ev[mb3[u].evento].content = mb3[u].tipo
             /\ Member(u) \in DOMAIN st3
  BY DEF Backed, Merges
<1>2. ASSUME NEW u \in Users, Member(u) \in DOMAIN st3
      PROVE  \/ u \in DOMAIN mb3 /\ mb3[u].evento = st3[Member(u)]
             \/ ev[st3[Member(u)]].content = ""
             \/ ev[st3[Member(u)]].via = "preview"
  <2>1. CASE Member(u) \in DOMAIN st2
    BY <2>1 DEF Backed, Merges
  <2>2. CASE Member(u) \notin DOMAIN st2
    <3>1. Member(u) \in DOMAIN st /\ st3[Member(u)] = st[Member(u)]
      BY <1>2, <2>2 DEF Merges
    <3>2. u \notin DOMAIN mb2
      BY <2>2 DEF Backed
    <3>3. u \in DOMAIN mb => u \in DOMAIN mb3 /\ mb3[u] = mb[u]
      BY <3>2 DEF Merges
    <3> QED BY <3>1, <3>3 DEF Backed
  <2> QED BY <2>1, <2>2
<1> QED BY <1>1, <1>2 DEF Backed

(* What one transaction writes into the two tables. *)
MirrorStep ==
  /\ Grows(evento, evento')
  /\ \E st, mb : /\ Backed(st, mb, evento')
                 /\ Merges(estadoAtual, st, estadoAtual')
                 /\ Merges(membership, mb, membership')

LEMMA NoRows ==
  ASSUME UNCHANGED <<evento, estadoAtual, membership>>
  PROVE  MirrorStep
<1>1. PICK z : z = [x \in {} |-> 0]
  OBVIOUS
<1>2. Backed(z, z, evento')
  BY <1>1 DEF Backed
<1>3. Merges(estadoAtual, z, estadoAtual') /\ Merges(membership, z, membership')
  BY <1>1 DEF Merges
<1> QED BY <1>2, <1>3 DEF MirrorStep, Grows

(* UpdateRoomStateAndMembership of an event that is stored by then. *)
LEMMA EventRows ==
  ASSUME Grows(evento, evento'), NEW id, NEW e \in Event, evento'[id] = e,
         UpdateRoomStateAndMembership(id, e)
  PROVE  MirrorStep
<1>1. PICK z : z = [x \in {} |-> 0]
  OBVIOUS
<1>2. CASE e.key = NoKey
  <2>1. Backed(z, z, evento')
    BY <1>1 DEF Backed
  <2>2. Merges(estadoAtual, z, estadoAtual') /\ Merges(membership, z, membership')
    BY <1>1, <1>2 DEF Merges, UpdateRoomStateAndMembership
  <2> QED BY <2>1, <2>2 DEF MirrorStep
<1>3. CASE e.key # NoKey
  <2>1. e.key \in StateKeys
    BY <1>3 DEF Event
  <2>2. PICK st : st = Row(e.key, id)
    OBVIOUS
  <2>3. DOMAIN st = {e.key} /\ st[e.key] = id
    BY <2>2, RowFacts
  <2>4. Merges(estadoAtual, st, estadoAtual')
    <3>1. estadoAtual' = Upsert(estadoAtual, st)
      BY <1>3, <2>2 DEF UpdateRoomStateAndMembership, UpsertCurrentState
    <3> QED BY <3>1, UpsertMerges
  <2>5. CASE ~(IsMember(e.key) /\ e.content # "")
    <3>1. \A u \in Users : Member(u) \in DOMAIN st => evento'[st[Member(u)]].content = ""
      BY <2>3, <2>5, KeyFacts
    <3>2. Backed(st, z, evento')
      BY <1>1, <3>1 DEF Backed
    <3>3. Merges(membership, z, membership')
      BY <1>1, <1>3, <2>5 DEF Merges, UpdateRoomStateAndMembership
    <3> QED BY <2>4, <3>2, <3>3 DEF MirrorStep
  <2>6. CASE IsMember(e.key) /\ e.content # ""
    <3>1. PICK u \in Users : u = e.key[2] /\ e.key = Member(u)
      BY <2>1, <2>6, MemberKeys
    <3>2. PICK mb : mb = Row(u, [tipo |-> e.content, evento |-> id])
      OBVIOUS
    <3>3. DOMAIN mb = {u} /\ mb[u].tipo = e.content /\ mb[u].evento = id
      BY <3>2, MemberRow
    <3>4. \A v \in Users : Member(v) \in DOMAIN st => v = u
      BY <2>3, <3>1, KeyFacts
    <3>5. Backed(st, mb, evento')
      BY <2>3, <3>1, <3>3, <3>4 DEF Backed
    <3>6. Merges(membership, mb, membership')
      <4>1. membership' = Upsert(membership, mb)
        BY <1>3, <2>6, <3>1, <3>2 DEF UpdateRoomStateAndMembership, UpsertMembership
      <4> QED BY <4>1, UpsertMerges
    <3> QED BY <2>4, <3>5, <3>6 DEF MirrorStep
  <2> QED BY <2>5, <2>6
<1> QED BY <1>2, <1>3

(* The creator's join is the only member event of the genesis. *)
LEMMA GenesisMembers ==
  ASSUME NEW rule, NEW rest, rest = {} \/ \E s \in InitialState : rest = {s}, NEW v, NEW b,
         NEW i \in 1 .. (IF rest = {} THEN 4 ELSE 5), i # 2
  PROVE  ~IsMember(LinkAndHashGenesis(rule, rest, v, b)[i].key)
<1>1. PICK k : k = LinkAndHashGenesis(rule, rest, v, b)[i].key
  OBVIOUS
<1>2. k \in {CreateKey, PowerLevelsKey, JoinRulesKey, TopicKey}
  <2>1. CASE i = 5
    <3>1. PICK s \in InitialState : rest = {s}
      BY <2>1
    <3>2. s.key = TopicKey
      BY RoomAssumption DEF IsProtectedGenesisEvent
    <3>3. k = (CHOOSE x \in rest : TRUE).key
      BY <1>1, <2>1 DEF LinkAndHashGenesis
    <3> QED BY <3>1, <3>2, <3>3
  <2>2. CASE i # 5
    <3>1. i \in {1, 3, 4}
      BY <2>2
    <3>2. k = GenesisPairs(rule)[i].key
      BY <1>1, <2>2 DEF LinkAndHashGenesis
    <3>3. /\ GenesisPairs(rule)[1].key = CreateKey /\ GenesisPairs(rule)[3].key = PowerLevelsKey
          /\ GenesisPairs(rule)[4].key = JoinRulesKey
      BY DEF GenesisPairs
    <3> QED BY <3>1, <3>2, <3>3
  <2> QED BY <2>1, <2>2
<1>3. /\ CreateKey[1] # "m.room.member" /\ TopicKey[1] # "m.room.member"
      /\ PowerLevelsKey[1] # "m.room.member" /\ JoinRulesKey[1] # "m.room.member"
  BY DEF CreateKey, PowerLevelsKey, JoinRulesKey, TopicKey
<1> QED BY <1>1, <1>2, <1>3 DEF IsMember

LEMMA CreateRows ==
  ASSUME IInv, NEW t \in Threads, NEW rule \in {"public", "invite"}, NEW rest,
         rest = {} \/ \E s \in InitialState : rest = {s}, NEW invitees,
         CreateRoom(t, rule, rest, invitees)
  PROVE  MirrorStep
<1>1. PICK g : g = LinkAndHashGenesis(rule, rest, "genesis", t)
  OBVIOUS
<1>2. PICK last \in {4, 5} : CreateEffect(g, last, t)
  BY <1>1, CreateFacts
<1>3. /\ GenesisChain(g, last, "genesis", t)
      /\ DOMAIN evento = {} /\ \A i \in 1 .. last : evento'[i] = g[i]
      /\ estadoAtual' = Upsert(estadoAtual, LastOfEachKey(g))
      /\ membership' = Upsert(membership, Row(Creator, [tipo |-> "join", evento |-> 2]))
  BY <1>2 DEF CreateEffect
<1>4. /\ DOMAIN g = 1 .. last /\ g[2].key = Member(Creator) /\ g[2].content = "join"
      /\ \A i \in DOMAIN g : i \in Nat /\ i <= last
      /\ 2 \in DOMAIN g /\ last \in Nat
  BY <1>3 DEF GenesisChain
<1>5. \A i \in DOMAIN g : i # 2 => ~IsMember(g[i].key)
  <2>1. DOMAIN g = 1 .. (IF rest = {} THEN 4 ELSE 5)
    BY <1>1 DEF LinkAndHashGenesis
  <2> QED BY <1>1, <2>1, GenesisMembers
<1>6. PICK st, mb : st = LastOfEachKey(g) /\ mb = Row(Creator, [tipo |-> "join", evento |-> 2])
  OBVIOUS
<1>7. /\ DOMAIN st = {g[i].key : i \in DOMAIN g}
      /\ \A k \in DOMAIN st : st[k] \in DOMAIN g /\ g[st[k]].key = k
  BY <1>4, <1>6, LastOfEachKeyFacts
<1>8. DOMAIN mb = {Creator} /\ mb[Creator].tipo = "join" /\ mb[Creator].evento = 2
  BY <1>6, MemberRow
<1>9. \A u \in Users : Member(u) \in DOMAIN st => st[Member(u)] = 2 /\ u = Creator
  BY <1>4, <1>5, <1>7, KeyFacts
<1>10. evento'[2] = g[2] /\ Member(Creator) \in DOMAIN st
  BY <1>3, <1>4, <1>7
<1>11. Backed(st, mb, evento')
  BY <1>4, <1>8, <1>9, <1>10 DEF Backed
<1>12. Merges(estadoAtual, st, estadoAtual') /\ Merges(membership, mb, membership')
  BY <1>3, <1>6, UpsertMerges
<1> QED BY <1>3, <1>11, <1>12 DEF MirrorStep, Grows

LEMMA InviteRows ==
  ASSUME IInv, NEW id \in DOMAIN remote, NEW n \in Nat,
         NEW pv \in [nextId .. (nextId + n - 1) -> PreviewState],
         ProcessInvite(id, n, pv)
  PROVE  MirrorStep
<1>1. PICK w : w = Previews(id, n, pv)
  OBVIOUS
<1>2. /\ DOMAIN w = nextId .. (nextId + n - 1)
      /\ \A i \in DOMAIN w : w[i].via = "preview"
  BY <1>1, PreviewFacts
<1>3. PICK u \in Users : remote[id].key = Member(u) /\ remote[id].content = "invite"
  BY DEF ProcessInvite, IInv, RemoteOK, RemoteEventOK
<1>4. Member(u)[2] = u
  BY DEF Member
<1>5. PICK row, last, mb : /\ row = Row(Member(u), id) /\ last = LastOfEachKey(w)
                           /\ mb = Row(u, [tipo |-> "invite", evento |-> id])
  OBVIOUS
<1>6. /\ SaveEvento(Upsert(Row(id, remote[id]), w))
      /\ estadoAtual' = Upsert(Upsert(estadoAtual, row), last)
      /\ membership' = Upsert(membership, mb)
  BY <1>1, <1>3, <1>4, <1>5 DEF ProcessInvite, UpsertMembership
<1>7. /\ nextId \in Nat /\ \A i \in DOMAIN w : i \in Nat /\ i <= nextId + n
      /\ \A i \in DOMAIN w : i \notin DOMAIN evento /\ i \notin DOMAIN remote
  BY <1>2, IdFacts
<1>8. /\ Grows(evento, evento') /\ evento'[id] = remote[id]
      /\ \A i \in DOMAIN w : evento'[i] = w[i]
  <2>1. PICK g : g = Upsert(Row(id, remote[id]), w)
    OBVIOUS
  <2>2. g[id] = remote[id] /\ id \in DOMAIN g
        /\ \A i \in DOMAIN w : i \in DOMAIN g /\ g[i] = w[i]
    BY <1>7, <2>1 DEF Upsert, Row
  <2>3. evento' = InsertNew(evento, g)
    BY <1>6, <2>1 DEF SaveEvento
  <2>4. /\ Grows(evento, evento')
        /\ \A i \in DOMAIN g \ DOMAIN evento : evento'[i] = g[i]
        /\ \A i \in DOMAIN evento : evento'[i] = evento[i]
    BY <2>3 DEF InsertNew, Upsert, Grows
  <2>5. id \in DOMAIN evento => evento[id] = remote[id]
    BY DEF IInv, Agree
  <2> QED BY <1>7, <2>2, <2>4, <2>5
<1>9. /\ DOMAIN last = {w[i].key : i \in DOMAIN w}
      /\ \A k \in DOMAIN last : last[k] \in DOMAIN w
  <2>1. PICK b \in Nat : b = nextId + n
    BY <1>7
  <2> QED BY <1>5, <1>7, <2>1, LastOfEachKeyFacts
<1>10. /\ DOMAIN row = {Member(u)} /\ row[Member(u)] = id
       /\ DOMAIN mb = {u} /\ mb[u].tipo = "invite" /\ mb[u].evento = id
  <2>1. DOMAIN row = {Member(u)} /\ row[Member(u)] = id
    BY <1>5 DEF Row
  <2>2. mb = Row(u, [tipo |-> "invite", evento |-> id])
    BY <1>5
  <2>3. DOMAIN mb = {u} /\ mb[u].tipo = "invite" /\ mb[u].evento = id
    BY <2>2 DEF Row
  <2> QED BY <2>1, <2>3
<1>11. PICK st : st = Upsert(row, last)
  OBVIOUS
<1>12. Merges(row, last, st) /\ Merges(membership, mb, membership')
  BY <1>6, <1>11, UpsertMerges
<1>13. Merges(estadoAtual, st, estadoAtual')
  BY <1>6, <1>11 DEF Merges, Upsert
<1>14. ASSUME NEW v \in Users, Member(v) \in DOMAIN st
       PROVE  \/ v \in DOMAIN mb /\ mb[v].evento = st[Member(v)]
              \/ evento'[st[Member(v)]].via = "preview"
  <2>1. CASE Member(v) \in DOMAIN last
    BY <1>2, <1>8, <1>9, <1>12, <2>1 DEF Merges
  <2>2. CASE Member(v) \notin DOMAIN last
    BY <1>10, <1>12, <1>14, <2>2, KeyFacts DEF Merges
  <2> QED BY <2>1, <2>2
<1>15. Backed(st, mb, evento')
  BY <1>3, <1>8, <1>10, <1>12, <1>14 DEF Backed, Merges
<1> QED BY <1>8, <1>12, <1>13, <1>15 DEF MirrorStep

LEMMA PersistedRows ==
  ASSUME IInv, NEW t \in Threads, NEW W, NEW A, PersistRemoteJoin(t, W, A)
  PROVE  MirrorStep
<1>1. PICK st, mb : st = StateRowsOf(Winners(t, W)) /\ mb = MembershipRowsOf(st)
  OBVIOUS
<1>2. Mirrored(st, mb, evento') /\ Grows(evento, evento')
  BY <1>1, PersistRows, PersistFacts
<1>3. Backed(st, mb, evento')
  BY <1>2 DEF Mirrored, Backed
<1>4. estadoAtual' = Upsert(estadoAtual, st) /\ membership' = Upsert(membership, mb)
  BY <1>1 DEF PersistRemoteJoin
<1>5. Merges(estadoAtual, st, estadoAtual') /\ Merges(membership, mb, membership')
  BY <1>4, UpsertMerges
<1> QED BY <1>2, <1>3, <1>5 DEF MirrorStep

LEMMA NextMirrorStep ==
  ASSUME IInv, [Next]_vars
  PROVE  MirrorStep
<1>1. ASSUME UNCHANGED tables PROVE MirrorStep
  BY <1>1, NoRows DEF tables
<1>2. CASE UNCHANGED vars
  BY <1>1, <1>2 DEF vars
<1>3. CASE RemoteStep
  BY <1>1, <1>3 DEF RemoteStep, makeJoin, makeLeave, RemoteSend, RemoteInvite, RemoteBuilds
<1>4. CASE EndpointStep
  <2>1. PICK id \in DOMAIN remote :
          \/ StoreHandshake(id, "send_join") \/ StoreHandshake(id, "send_leave")
          \/ \E n \in 0 .. MaxPreviews :
               \E pv \in [nextId .. (nextId + n - 1) -> PreviewState] :
                 ProcessInvite(id, n, pv)
    BY <1>4 DEF EndpointStep, sendJoin, sendLeave, putInvite, ProcessSendJoin, ProcessSendLeave
  <2>2. ASSUME NEW v, StoreHandshake(id, v) PROVE MirrorStep
    <3>1. id \in Known /\ EventOf(id) = remote[id]
      BY DEF Known, EventOf
    <3>2. /\ SaveEvento(Row(id, EventOf(id)))
          /\ UpdateRoomStateAndMembership(id, EventOf(id))
      BY <2>2, <3>1 DEF StoreHandshake
    <3>3. Grows(evento, evento') /\ evento'[id] = EventOf(id) /\ EventOf(id) \in Event
      BY <3>1, <3>2, SaveKnown
    <3> QED BY <3>2, <3>3, EventRows
  <2>3. ASSUME NEW n \in 0 .. MaxPreviews,
               NEW pv \in [nextId .. (nextId + n - 1) -> PreviewState],
               ProcessInvite(id, n, pv)
        PROVE  MirrorStep
    <3>0. MaxPreviews \in Nat
      BY RoomAssumption
    <3>1. n \in Nat
      BY <3>0
    <3> QED BY <2>3, <3>1, InviteRows
  <2> QED BY <2>1, <2>2, <2>3
<1>5. ASSUME NEW t \in Threads, ClientStep(t) PROVE MirrorStep
  <2>1. CASE postCreateRoom(t)
    <3>1. PICK rule \in {"public", "invite"}, invitees \in SUBSET (Users \ {Creator}),
               rest \in {{}} \cup {{s} : s \in InitialState} :
                 CreateRoom(t, rule, rest, invitees)
      BY <2>1 DEF postCreateRoom
    <3>2. rest = {} \/ \E s \in InitialState : rest = {s}
      BY <3>1
    <3> QED BY <3>1, <3>2, CreateRows
  <2>2. CASE Commit(t)
    <3>1. Grows(evento, evento') /\ evento'[nextId] = NewEvent(t)
      BY <2>2, CommitFacts
    <3>2. UpdateRoomStateAndMembership(nextId, NewEvent(t))
      BY <2>2 DEF Commit, NewEvent
    <3>3. req[t] \in Request
      BY DEF IInv, TypeOK
    <3>4. NewEvent(t) \in Event
      BY <3>3 DEF NewEvent, Event, Request, Vias
    <3> QED BY <3>1, <3>2, <3>4, EventRows
  <2>3. CASE UNCHANGED tables
    BY <1>1, <2>3
  <2>4. postCreateRoom(t) \/ Commit(t) \/ UNCHANGED tables
    BY <1>5 DEF ClientStep, postJoinRoom, postLeaveRoom, postInviteRoom, putSendEvent,
                putStateEvent, JoinLocalRoom, JoinRemoteRoom, LeaveRoom, InviteUser, SendEvent,
                SendStateEvent, Begin, CreateRoomInvites, ResolveEventDependencies,
                QueueOutgoing, Abort
  <2> QED BY <2>1, <2>2, <2>3, <2>4
<1>6. ASSUME NEW t \in Threads, InboundStep(t) PROVE MirrorStep
  <2>1. ASSUME NEW id \in Known, Ingest(id) PROVE MirrorStep
    <3>1. /\ SaveEvento(Row(id, EventOf(id)))
          /\ UpdateRoomStateAndMembership(id, EventOf(id))
      BY <2>1 DEF Ingest
    <3>2. Grows(evento, evento') /\ evento'[id] = EventOf(id) /\ EventOf(id) \in Event
      BY <3>1, SaveKnown
    <3> QED BY <3>1, <3>2, EventRows
  <2>2. ASSUME NEW h \in req[t].todo, IngestHistorical(t, h) PROVE MirrorStep
    <3>1. h \in Known
      BY <2>2, InboundKnown DEF IngestHistorical
    <3> QED BY <2>1, <2>2, <3>1, NoRows DEF IngestHistorical
  <2>3. CASE ProcessInboundPDU(t)
    BY <2>1, <2>3, InboundKnown DEF ProcessInboundPDU
  <2>4. CASE putSendTxn(t)
    BY <1>1, <2>4 DEF putSendTxn, ReceivePDU
  <2> QED BY <1>6, <2>2, <2>3, <2>4 DEF InboundStep
<1>7. ASSUME NEW t \in Threads, RemoteJoinStep(t) PROVE MirrorStep
  <2>1. CASE ReadLocalState(t)
    BY <1>1, <2>1 DEF ReadLocalState
  <2> QED BY <1>7, <2>1, PersistedRows DEF RemoteJoinStep
<1> QED BY <1>2, <1>3, <1>4, <1>5, <1>6, <1>7 DEF Next

LEMMA NextMembershipBacked ==
  ASSUME IInv, MembershipBacked, MirrorStep
  PROVE  MembershipBacked'
<1>1. Backed(estadoAtual, membership, evento)
  BY DEF MembershipBacked, Backed
<1>2. /\ Grows(evento, evento') /\ DOMAIN membership \subseteq Users
      /\ \A k \in DOMAIN estadoAtual : estadoAtual[k] \in DOMAIN evento
      /\ \A u \in DOMAIN membership : membership[u].evento \in DOMAIN evento
  BY DEF MirrorStep, IInv, TypeOK
<1>3. Backed(estadoAtual, membership, evento')
  BY <1>1, <1>2 DEF Backed, Grows
<1>4. PICK st, mb : /\ Backed(st, mb, evento')
                    /\ Merges(estadoAtual, st, estadoAtual')
                    /\ Merges(membership, mb, membership')
  BY DEF MirrorStep
<1>5. Backed(estadoAtual', membership', evento')
  BY <1>2, <1>3, <1>4, BackedMerge
<1> QED BY <1>5 DEF MembershipBacked, Backed, Member

(***************************************************************************)
(* The membership table, which every permission check reads, and the state *)
(* table, which servers and clients are sent, agree for every user, but    *)
(* for events the code does not mirror.                                    *)
(***************************************************************************)
THEOREM MembershipStaysBacked == Spec => []MembershipBacked
<1>1. Init => MembershipBacked
  BY DEF Init, MembershipBacked
<1>2. IInv /\ MembershipBacked /\ [Next]_vars => MembershipBacked'
  BY NextMirrorStep, NextMembershipBacked
<1> QED BY <1>1, <1>2, Invariance, PTL DEF Spec
=============================================================================
