------------------------------ MODULE RoomDag ------------------------------
(***************************************************************************)
(* One Matrix room as one Dragonite server stores it: the tables Canal,    *)
(* Evento, Canal_Extremidades, Canal_Estado_Atual and Canal_Membership,    *)
(* and every handler that writes them.                                     *)
(*                                                                         *)
(* A client request runs on a thread.  It checks its guard, then reads the *)
(* extremities and the auth state, then commits one transaction, then      *)
(* queues the event for federation; the steps of two threads interleave,   *)
(* because the guard and the reads run outside the transaction.  A         *)
(* transaction (PostgresStorage.Execute) is one step.                      *)
(*                                                                         *)
(* The server hosts the room iff its creator is one of its own users.      *)
(***************************************************************************)
EXTENDS Integers, FiniteSets, FiniteSetsExt

CONSTANTS
  Users,         \* every user of the federation that appears in the room
  LocalUsers,    \* the users registered on this server
  Creator,       \* the user that creates the room
  Threads,       \* concurrent HTTP requests on this server
  MaxEvents,     \* bound: event ids are 1 .. MaxEvents
  ClientState,   \* [key, content] pairs a client may PUT as a state event
  InitialState,  \* [key, content] pairs createRoom may append to the genesis:
                 \* a name, a topic, an alias, unprotected initial_state
  RemoteState,   \* [key, content] pairs remote servers put into their PDUs
  PreviewState,  \* [key, content] pairs of an invite_room_state
  MaxFetch,      \* bound: events in one get_missing_events answer
  MaxTips,       \* bound: parents of one remote event
  MaxPreviews    \* bound: stripped events in one invite_room_state

Member(u)      == <<"m.room.member", u>>
CreateKey      == <<"m.room.create", "">>
PowerLevelsKey == <<"m.room.power_levels", "">>
JoinRulesKey   == <<"m.room.join_rules", "">>
TopicKey       == <<"m.room.topic", "">>

(* The key of an event whose state_key is nil. *)
NoKey == <<"m.room.message", "nil">>

StateKeys == {CreateKey, PowerLevelsKey, JoinRulesKey, TopicKey}
               \cup {Member(u) : u \in Users}

(***************************************************************************)
(* What the handlers read of an event's content: the membership ("" when   *)
(* the field is missing), the join rule, or whether the power levels let   *)
(* everybody invite ("open") or only the creator ("restricted").           *)
(***************************************************************************)
Memberships == {"join", "leave", "invite", "ban"}
JoinRules   == {"public", "invite", "private", "knock"}
Contents    == Memberships \cup JoinRules \cup {"", "open", "restricted"}

(* GetMissingEventsRequest.Limit *)
FetchLimit == 10

Pairs == [key : StateKeys, content : Contents]

(* What initial_state may not set; TopicKey stands for every other key. *)
IsProtectedGenesisEvent(k) == k # TopicKey

ASSUME RoomAssumption ==
  /\ LocalUsers \subseteq Users
  /\ Creator \in Users
  /\ MaxEvents \in Nat
  /\ MaxPreviews \in Nat
  /\ MaxTips \in Nat
  /\ MaxFetch \in 0 .. FetchLimit
  /\ ClientState \subseteq Pairs
  /\ InitialState \subseteq {s \in Pairs : ~IsProtectedGenesisEvent(s.key)}
  /\ RemoteState \subseteq (Pairs \cup {[key |-> NoKey, content |-> ""]})
  /\ PreviewState \subseteq Pairs

LocalRoom   == Creator \in LocalUsers
RemoteUsers == Users \ LocalUsers
Ids         == Nat \ {0}

VARIABLES
  canal,         \* Canal: does the room's row exist
  evento,        \* Evento: id -> event
  extremidades,  \* Canal_Extremidades: set of ids
  estadoAtual,   \* Canal_Estado_Atual: key -> id
  membership,    \* Canal_Membership: user -> [tipo, evento]
  queued,        \* ids pushed on the outbound federation queue
  remote,        \* id -> event: what remote servers have built for this room
  nextId,        \* the next unused event id (an id is a hash: never reused)
  req,           \* thread -> the request it serves
  linked,        \* history: ids UpdateForwardExtremities was called for
  inbound        \* history: the linked ids that were known outside before

tables == <<canal, evento, extremidades, estadoAtual, membership>>
history == <<linked, inbound>>
vars == <<tables, queued, remote, nextId, req, history>>

(***************************************************************************)
(* An event.  "via" (the handler that built it) and "by" (the thread that  *)
(* committed it) are history: no handler reads them.                       *)
(***************************************************************************)
Vias == {"genesis", "local", "preview", "pdu", "send_join", "send_leave",
         "invite", "remote_join"}

Event == [key : StateKeys \cup {NoKey}, content : Contents, sender : Users,
          prevs : SUBSET Ids, auths : SUBSET Ids, depth : Nat,
          via : Vias, by : Threads \cup {"remote"}]

Steps == {"idle", "resolve", "commit", "queue", "invite", "ingest",
          "merge", "persist"}

(* What a request carries from one step to the next. *)
Request == [pc : Steps, user : Users, key : StateKeys \cup {NoKey},
            content : Contents, prevs : SUBSET Ids, auths : SUBSET Ids,
            depth : Nat, id : Nat, todo : SUBSET Ids, local : SUBSET Ids,
            invitees : SUBSET Users]

Idle == [pc |-> "idle", user |-> Creator, key |-> NoKey, content |-> "",
         prevs |-> {}, auths |-> {}, depth |-> 0, id |-> 0, todo |-> {},
         local |-> {}, invitees |-> {}]

TypeOK ==
  /\ canal \in BOOLEAN
  /\ DOMAIN evento \subseteq Ids
  /\ \A i \in DOMAIN evento : evento[i] \in Event
  /\ extremidades \subseteq DOMAIN evento
  /\ DOMAIN estadoAtual \subseteq StateKeys
  /\ \A k \in DOMAIN estadoAtual : estadoAtual[k] \in DOMAIN evento
  /\ DOMAIN membership \subseteq Users
  /\ \A u \in DOMAIN membership :
       membership[u] \in [tipo : Contents \ {""}, evento : DOMAIN evento]
  /\ queued \subseteq DOMAIN evento
  /\ DOMAIN remote \subseteq Ids
  /\ \A i \in DOMAIN remote : remote[i] \in Event
  /\ nextId \in Ids
  /\ \A i \in DOMAIN evento \cup DOMAIN remote : i < nextId
  /\ req \in [Threads -> Request]
  /\ linked \subseteq DOMAIN evento
  /\ inbound \subseteq linked

-----------------------------------------------------------------------------
(* Rows. *)

(* INSERT ... ON CONFLICT DO UPDATE of every pair of g into f. *)
Upsert(f, g) ==
  [x \in DOMAIN f \cup DOMAIN g |-> IF x \in DOMAIN g THEN g[x] ELSE f[x]]

(* INSERT ... ON CONFLICT DO NOTHING of every pair of g into f. *)
InsertNew(f, g) == Upsert(g, f)

(* The function with the single pair x -> v. *)
Row(x, v) == [y \in {x} |-> v]

IsMember(k) == k[1] = "m.room.member"

(* GetUserMembership: a user without a row has left. *)
GetUserMembership(u) ==
  IF u \in DOMAIN membership THEN membership[u].tipo ELSE "leave"

(* GetJoinRule: a room without join rules is invite-only. *)
GetJoinRule ==
  IF JoinRulesKey \in DOMAIN estadoAtual
    THEN evento[estadoAtual[JoinRulesKey]].content
    ELSE "invite"

(* Mutant: MIN(depth) for MAX(depth). *)
MutMinDepth(P) ==
  Min({0} \cup {evento[p].depth : p \in P \cap DOMAIN evento})

(* GetMaxDepthFromEventos: COALESCE(MAX(depth), 0) over the saved prevs. *)
GetMaxDepthFromEventos(P) ==
  Max({0} \cup {evento[p].depth : p \in P \cap DOMAIN evento})

(* Mutant: the insert is forgotten. *)
MutNotSaved(g) == UNCHANGED evento

SaveEvento(g) == evento' = InsertNew(evento, g)

(* Mutant: the delete drops every extremity of the room. *)
MutDeleteAllTips(id, prevs) ==
  /\ extremidades' = {id}
  /\ linked' = linked \cup {id}

(* Mutant: the delete is forgotten. *)
MutKeepParents(id, prevs) ==
  /\ extremidades' = extremidades \cup {id}
  /\ linked' = linked \cup {id}

(* Mutant: the delete spares parents that came from another server. *)
MutKeepForeign(id, prevs) ==
  /\ extremidades' = (extremidades \ (prevs \ inbound)) \cup {id}
  /\ linked' = linked \cup {id}

UpdateForwardExtremities(id, prevs) ==
  /\ extremidades' = (extremidades \ prevs) \cup {id}
  /\ linked' = linked \cup {id}

UpsertCurrentState(k, id) == estadoAtual' = Upsert(estadoAtual, Row(k, id))

UpsertMembership(u, m, id) ==
  membership' = Upsert(membership, Row(u, [tipo |-> m, evento |-> id]))

(* Mutant: the row of the sender instead of the state key's user. *)
MutSenderRow(id, e) ==
  IF e.key = NoKey
    THEN UNCHANGED <<estadoAtual, membership>>
    ELSE /\ UpsertCurrentState(e.key, id)
         /\ IF IsMember(e.key) /\ e.content # ""
              THEN UpsertMembership(e.sender, e.content, id)
              ELSE UNCHANGED membership

(* The state rows the events g leave when they are upserted in id order. *)
LastOfEachKey(g) ==
  [k \in {g[i].key : i \in DOMAIN g} |-> Max({i \in DOMAIN g : g[i].key = k})]

(* The state row of e, and its membership row when e carries a membership. *)
UpdateRoomStateAndMembership(id, e) ==
  IF e.key = NoKey
    THEN UNCHANGED <<estadoAtual, membership>>
    ELSE /\ UpsertCurrentState(e.key, id)
         /\ IF IsMember(e.key) /\ e.content # ""
              THEN UpsertMembership(e.key[2], e.content, id)
              ELSE UNCHANGED membership

-----------------------------------------------------------------------------
(* Client requests: the guard of each handler. *)

HasIds == nextId <= MaxEvents

Begin(t, u, k, c) ==
  /\ HasIds
  /\ req' = [req EXCEPT ![t] = [Idle EXCEPT !.pc = "resolve", !.user = u,
                                            !.key = k, !.content = c]]
  /\ UNCHANGED <<tables, queued, remote, nextId, history>>

SendEvent(t, u) ==
  /\ req[t].pc = "idle"
  /\ GetUserMembership(u) = "join"
  /\ Begin(t, u, NoKey, "")

SendStateEvent(t, u, s) ==
  /\ req[t].pc = "idle"
  /\ GetUserMembership(u) = "join"
  /\ Begin(t, u, s.key, s.content)

JoinLocalRoom(t, u) ==
  /\ req[t].pc = "idle"
  /\ LocalRoom
  /\ \/ GetJoinRule = "public"
     \/ /\ GetJoinRule \in {"invite", "private"}
        /\ GetUserMembership(u) = "invite"
  /\ Begin(t, u, Member(u), "join")

LeaveRoom(t, u) ==
  /\ req[t].pc = "idle"
  /\ GetUserMembership(u) \in {"join", "invite"}
  /\ Begin(t, u, Member(u), "leave")

CheckInvitePowerLevel(u) ==
  PowerLevelsKey \in DOMAIN estadoAtual =>
    evento[estadoAtual[PowerLevelsKey]].content = "open" \/ u = Creator

MayInvite(u, v) ==
  /\ GetUserMembership(u) = "join"
  /\ GetUserMembership(v) \notin {"ban", "join"}
  /\ CheckInvitePowerLevel(u)

InviteUser(t, u, v) ==
  /\ req[t].pc = "idle"
  /\ MayInvite(u, v)
  /\ Begin(t, u, Member(v), "invite")

-----------------------------------------------------------------------------
(* Client requests: the reads, the transaction and the announcement. *)

AuthKeys(u, k) ==
  {CreateKey, PowerLevelsKey, Member(u)}
    \cup (IF IsMember(k) THEN {k, JoinRulesKey} ELSE {})

(* Mutant: GetForwardExtremities with LIMIT 1. *)
MutOnePrev(t) ==
  /\ req[t].pc = "resolve"
  /\ \E x \in extremidades :
       req' = [req EXCEPT ![t].pc = "commit", ![t].prevs = {x},
                          ![t].depth = GetMaxDepthFromEventos({x}) + 1]
  /\ UNCHANGED <<tables, queued, remote, nextId, history>>

ResolveEventDependencies(t) ==
  /\ req[t].pc = "resolve"
  /\ LET r == req[t] IN
       req' = [req EXCEPT
         ![t].pc    = "commit",
         ![t].prevs = extremidades,
         ![t].auths = {estadoAtual[k] : k \in AuthKeys(r.user, r.key)
                                                \cap DOMAIN estadoAtual},
         ![t].depth = GetMaxDepthFromEventos(extremidades) + 1]
  /\ UNCHANGED <<tables, queued, remote, nextId, history>>

Commit(t) ==
  /\ req[t].pc = "commit"
  /\ HasIds
  /\ LET r == req[t]
         e == [key |-> r.key, content |-> r.content, sender |-> r.user,
               prevs |-> r.prevs, auths |-> r.auths, depth |-> r.depth,
               via |-> "local", by |-> t]
     IN  /\ SaveEvento(Row(nextId, e))
         /\ UpdateForwardExtremities(nextId, r.prevs)
         /\ UpdateRoomStateAndMembership(nextId, e)
         /\ req' = [req EXCEPT ![t].pc = "queue", ![t].id = nextId]
  /\ nextId' = nextId + 1
  /\ UNCHANGED <<canal, queued, remote, inbound>>

(* What follows the announcement: the next invitation of createRoom. *)
Finish(t) ==
  IF req[t].invitees = {}
    THEN Idle
    ELSE [Idle EXCEPT !.pc = "invite", !.user = req[t].user,
                      !.invitees = req[t].invitees]

(* The push to Redis may fail; every caller drops its error. *)
QueueOutgoing(t) ==
  /\ req[t].pc = "queue"
  /\ queued' \in {queued, queued \cup {req[t].id}}
  /\ req' = [req EXCEPT ![t] = Finish(t)]
  /\ UNCHANGED <<tables, remote, nextId, history>>

(***************************************************************************)
(* A request ends early: the deadline passes, the client goes away, the    *)
(* database or Redis answers with an error, a remote server refuses the    *)
(* invite handshake, or the process stops.  Execute rolls back.            *)
(***************************************************************************)
Abort(t) ==
  /\ req[t].pc # "idle"
  /\ req' = [req EXCEPT ![t] = Idle]
  /\ UNCHANGED <<tables, queued, remote, nextId, history>>

-----------------------------------------------------------------------------
(* CreateRoom. *)

(* The genesis chain create <- join <- power_levels <- join_rules <- rest. *)
GenesisPairs(rule) ==
  <<[key |-> CreateKey, content |-> ""],
    [key |-> Member(Creator), content |-> "join"],
    [key |-> PowerLevelsKey, content |-> "open"],
    [key |-> JoinRulesKey, content |-> rule]>>

(* The keys whose events a genesis event of key k cites. *)
GenesisAuthKeys(k) ==
  CASE k = CreateKey       -> {}
    [] k = Member(Creator) -> {CreateKey, PowerLevelsKey}
    [] OTHER -> {CreateKey, PowerLevelsKey, Member(Creator)}
                  \cup (IF IsMember(k) THEN {JoinRulesKey} ELSE {})

ResolveGenesisAuth(rule, i, k) ==
  {j \in 1 .. 4 : j < i /\ GenesisPairs(rule)[j].key \in GenesisAuthKeys(k)}

LinkAndHashGenesis(rule, rest, v, b) ==
  [i \in 1 .. (IF rest = {} THEN 4 ELSE 5) |->
     LET s == IF i = 5 THEN CHOOSE x \in rest : TRUE ELSE GenesisPairs(rule)[i]
     IN  [key |-> s.key, content |-> s.content, sender |-> Creator,
          prevs |-> IF i = 1 THEN {} ELSE {i - 1},
          auths |-> ResolveGenesisAuth(rule, i, s.key), depth |-> i - 1,
          via |-> v, by |-> b]]

CreateRoom(t, rule, rest, invitees) ==
  LET g    == LinkAndHashGenesis(rule, rest, "genesis", t)
      last == IF rest = {} THEN 4 ELSE 5
  IN  /\ req[t].pc = "idle"
      /\ LocalRoom
      /\ ~canal
      /\ nextId = 1
      /\ canal' = TRUE
      /\ SaveEvento(g)
      /\ estadoAtual' = Upsert(estadoAtual, LastOfEachKey(g))
      /\ extremidades' = (extremidades \ {last - 1}) \cup {last}
      /\ linked' = linked \cup 1 .. last
      /\ UpsertMembership(Creator, "join", 2)
      /\ nextId' = last + 1
      /\ req' = [req EXCEPT
           ![t] = IF invitees = {} THEN Idle
                  ELSE [Idle EXCEPT !.pc = "invite", !.invitees = invitees]]
      /\ UNCHANGED <<queued, remote, inbound>>

(* The loop of createRoom over its invite list; a refused guard ends it. *)
CreateRoomInvites(t, v) ==
  /\ req[t].pc = "invite"
  /\ v \in req[t].invitees
  /\ IF MayInvite(req[t].user, v)
       THEN req' = [req EXCEPT
              ![t] = [Idle EXCEPT !.pc = "resolve", !.user = req[t].user,
                        !.key = Member(v), !.content = "invite",
                        !.invitees = req[t].invitees \ {v}]]
       ELSE req' = [req EXCEPT ![t] = Idle]
  /\ UNCHANGED <<tables, queued, remote, nextId, history>>

-----------------------------------------------------------------------------
(* Federation: what remote servers build (external). *)

(* Events a remote server may know and reference. *)
Known == DOMAIN remote \cup linked
EventOf(i) == IF i \in DOMAIN remote THEN remote[i] ELSE evento[i]

(* The tips a remote server builds on. *)
Tips == {P \in SUBSET Known : Cardinality(P) \in 1 .. MaxTips}

RemoteDepth(P) ==
  IF P = {} THEN 0 ELSE 1 + Max({EventOf(p).depth : p \in P})

RemoteBuilds(u, k, c, P, v) ==
  /\ HasIds
  /\ remote' = Upsert(remote, Row(nextId,
       [key |-> k, content |-> c, sender |-> u, prevs |-> P, auths |-> {},
        depth |-> RemoteDepth(P), via |-> v, by |-> "remote"]))
  /\ nextId' = nextId + 1
  /\ UNCHANGED <<tables, queued, req, history>>

(* A PDU for this room. *)
RemoteSend(u, s) ==
  /\ HasIds
  /\ \E P \in Tips : RemoteBuilds(u, s.key, s.content, P, "pdu")

(* An invite that a remote server will PUT to the server of local user v. *)
RemoteInvite(u, v) ==
  /\ HasIds
  /\ \E P \in Tips : RemoteBuilds(u, Member(v), "invite", P, "invite")

-----------------------------------------------------------------------------
(* Federation: the handshakes of remote users that join or leave. *)

MakeJoin(u) ==
  /\ canal
  /\ \/ GetJoinRule = "invite" /\ GetUserMembership(u) = "invite"
     \/ GetJoinRule = "public"

MakeLeave(u) == canal /\ GetUserMembership(u) \in {"join", "invite"}

(***************************************************************************)
(* GET make_join and GET make_leave answer with a template without parents *)
(* that the remote server turns into an event.                             *)
(***************************************************************************)
makeJoin(u) ==
  MakeJoin(u) /\ RemoteBuilds(u, Member(u), "join", {}, "send_join")

makeLeave(u) ==
  MakeLeave(u) /\ RemoteBuilds(u, Member(u), "leave", {}, "send_leave")

(* Federation: the endpoints.  Any event of a remote server may arrive late, *)
(* more than once and in any order.                                          *)

(* ProcessSendJoin and ProcessSendLeave store the event and its rows. *)
StoreHandshake(id, v) ==
  /\ canal
  /\ remote[id].via = v
  /\ SaveEvento(Row(id, remote[id]))
  /\ UpdateRoomStateAndMembership(id, remote[id])
  /\ UNCHANGED <<canal, extremidades, queued, remote, nextId, req, history>>

ProcessSendJoin(id)  == StoreHandshake(id, "send_join")
ProcessSendLeave(id) == StoreHandshake(id, "send_leave")

(* The preview events of an invite_room_state of n stripped events. *)
Previews(id, n, pv) ==
  [i \in nextId .. (nextId + n - 1) |->
     [key |-> pv[i].key, content |-> pv[i].content,
      sender |-> remote[id].sender, prevs |-> {}, auths |-> {},
      depth |-> 0, via |-> "preview", by |-> "remote"]]

ProcessInvite(id, n, pv) ==
  /\ remote[id].via = "invite"
  /\ nextId + n <= MaxEvents + 1
  /\ canal' = TRUE
  /\ SaveEvento(Upsert(Row(id, remote[id]), Previews(id, n, pv)))
  /\ estadoAtual' = Upsert(Upsert(estadoAtual, Row(remote[id].key, id)),
                           LastOfEachKey(Previews(id, n, pv)))
  /\ UpsertMembership(remote[id].key[2], "invite", id)
  /\ nextId' = nextId + n
  /\ UNCHANGED <<extremidades, queued, remote, req, history>>

(***************************************************************************)
(* ProcessInboundPDU.  When a prev is missing, the origin is asked for at  *)
(* most 10 events that are not our extremities; the answer may be short.   *)
(***************************************************************************)
CheckMissingEvents(id) == remote[id].prevs \ DOMAIN evento

FetchMissingEvents(id) ==
  {hist \in SUBSET {h \in Known \ extremidades :
                      EventOf(h).depth < remote[id].depth} :
     Cardinality(hist) <= MaxFetch}

ReceivePDU(t, id) ==
  /\ req[t].pc = "idle"
  /\ remote[id].via = "pdu"
  /\ \E hist \in IF CheckMissingEvents(id) = {} THEN {{}}
                  ELSE FetchMissingEvents(id) :
       req' = [req EXCEPT ![t] = [Idle EXCEPT !.pc = "ingest", !.id = id,
                                              !.todo = hist]]
  /\ UNCHANGED <<tables, queued, remote, nextId, history>>

(* One event enters the DAG, the state and the membership table. *)
Ingest(id) ==
  /\ canal
  /\ SaveEvento(Row(id, EventOf(id)))
  /\ UpdateForwardExtremities(id, EventOf(id).prevs)
  /\ UpdateRoomStateAndMembership(id, EventOf(id))
  /\ inbound' = inbound \cup {id}

(* A historical event has a transaction of its own, whose error is dropped. *)
IngestHistorical(t, h) ==
  /\ req[t].pc = "ingest"
  /\ req' = [req EXCEPT ![t].todo = @ \ {h}]
  /\ \/ Ingest(h)
     \/ UNCHANGED <<evento, extremidades, estadoAtual, membership, history>>
  /\ UNCHANGED <<canal, queued, remote, nextId>>

ProcessInboundPDU(t) ==
  /\ req[t].pc = "ingest"
  /\ req[t].todo = {}
  /\ Ingest(req[t].id)
  /\ req' = [req EXCEPT ![t] = Idle]
  /\ UNCHANGED <<canal, queued, remote, nextId>>

-----------------------------------------------------------------------------
(* JoinRemoteRoom: a local user joins a room another server hosts. *)

(* The sets of state events with exactly one event for each of their keys. *)
OnePerKey(W) == \A x, y \in W : EventOf(x).key = EventOf(y).key => x = y

StateEvents(S) == {i \in S : EventOf(i).key # NoKey}

(* What send_join may answer: one event for every key set over there. *)
RemoteRoomStates ==
  LET all == StateEvents(DOMAIN remote)
  IN  {S \in SUBSET all :
         /\ OnePerKey(S)
         /\ \A i \in all : \E s \in S : EventOf(s).key = EventOf(i).key}

(* make_join builds the event on the tips P; send_join answers with S. *)
JoinRemoteRoom(t, u) ==
  /\ req[t].pc = "idle"
  /\ ~LocalRoom
  /\ HasIds
  /\ \E P \in Tips \cup {{}}, S \in RemoteRoomStates :
       /\ remote' = Upsert(remote, Row(nextId,
            [key |-> Member(u), content |-> "join", sender |-> u, prevs |-> P,
             auths |-> {}, depth |-> RemoteDepth(P), via |-> "remote_join",
             by |-> "remote"]))
       /\ req' = [req EXCEPT ![t] = [Idle EXCEPT !.pc = "merge", !.user = u,
                                                 !.id = nextId, !.todo = S]]
  /\ nextId' = nextId + 1
  /\ UNCHANGED <<tables, queued, history>>

(* The transaction reads the state it already has for the room. *)
ReadLocalState(t) ==
  /\ req[t].pc = "merge"
  /\ req' = [req EXCEPT ![t].pc = "persist",
                        ![t].local = {estadoAtual[k] : k \in DOMAIN estadoAtual}]
  /\ UNCHANGED <<tables, queued, remote, nextId, history>>

(***************************************************************************)
(* Resolve, abstracted to what it may return: the only state set when it   *)
(* is alone; otherwise every event both sets agree on and, of the others,  *)
(* at most one per key.                                                    *)
(***************************************************************************)
Resolutions(S, L) ==
  IF L = {} THEN {S}
  ELSE {W \in SUBSET (S \cup L) : S \cap L \subseteq W /\ OnePerKey(W)}

(* The resolved state, in which the new join replaces the user's event. *)
Winners(t, W) ==
  {w \in W : EventOf(w).key # Member(req[t].user)} \cup {req[t].id}

StateRowsOf(win) ==
  [k \in {EventOf(w).key : w \in win} |-> CHOOSE w \in win : EventOf(w).key = k]

MembershipRowsOf(st) ==
  [u \in {v \in Users : /\ Member(v) \in DOMAIN st
                        /\ EventOf(st[Member(v)]).content # ""} |->
     [tipo |-> EventOf(st[Member(u)]).content, evento |-> st[Member(u)]]]

(* The auth chain of the answer: state, current or not, that was there before. *)
AuthChains(t) == SUBSET {i \in StateEvents(DOMAIN remote) : i < req[t].id}

PersistRemoteJoin(t, W, A) ==
  LET r  == req[t]
      st == StateRowsOf(Winners(t, W))
  IN  /\ r.pc = "persist"
      /\ W \in Resolutions(r.todo, r.local)
      /\ A \in AuthChains(t)
      /\ canal' = TRUE
      /\ SaveEvento([i \in A \cup r.todo \cup {r.id} |-> remote[i]])
      /\ estadoAtual' = Upsert(estadoAtual, st)
      /\ membership' = Upsert(membership, MembershipRowsOf(st))
      /\ UpdateForwardExtremities(r.id, remote[r.id].prevs)
      /\ inbound' = inbound \cup {r.id}
      /\ req' = [req EXCEPT ![t] = Idle]
      /\ UNCHANGED <<queued, remote, nextId>>

-----------------------------------------------------------------------------
Init ==
  /\ canal = FALSE
  /\ evento = [i \in {} |-> 0]
  /\ extremidades = {}
  /\ estadoAtual = [k \in {} |-> 0]
  /\ membership = [u \in {} |-> 0]
  /\ queued = {}
  /\ req = [t \in Threads |-> Idle]
  /\ linked = {}
  /\ inbound = {}
  /\ IF LocalRoom
       THEN /\ remote = [i \in {} |-> 0]
            /\ nextId = 1
       ELSE /\ \E rule \in {"public", "invite"} :
                 remote = LinkAndHashGenesis(rule, {}, "pdu", "remote")
            /\ nextId = 5

(***************************************************************************)
(* The endpoints of clients.  A client is one of this server's users.      *)
(***************************************************************************)

(* POST /createRoom *)
postCreateRoom(t) ==
  \E rule \in {"public", "invite"}, invitees \in SUBSET (Users \ {Creator}) :
    \E rest \in {{}} \cup {{s} : s \in InitialState} :
      CreateRoom(t, rule, rest, invitees)

(* POST /join: the name of the room tells which server hosts it. *)
postJoinRoom(t) ==
  \E u \in LocalUsers : JoinLocalRoom(t, u) \/ JoinRemoteRoom(t, u)

(* POST /leave *)
postLeaveRoom(t) == \E u \in LocalUsers : LeaveRoom(t, u)

(* POST /invite *)
postInviteRoom(t) == \E u \in LocalUsers, v \in Users : InviteUser(t, u, v)

(* PUT /send; its transaction ids are the matter of ClientTransactions. *)
putSendEvent(t) == \E u \in LocalUsers : SendEvent(t, u)

(* PUT /state *)
putStateEvent(t) ==
  \E u \in LocalUsers, s \in ClientState : SendStateEvent(t, u, s)

ClientStep(t) ==
  \/ postCreateRoom(t)
  \/ postJoinRoom(t)
  \/ postLeaveRoom(t)
  \/ postInviteRoom(t)
  \/ putSendEvent(t)
  \/ putStateEvent(t)
  \/ \E v \in Users : CreateRoomInvites(t, v)
  \/ ResolveEventDependencies(t)
  \/ Commit(t)
  \/ QueueOutgoing(t)
  \/ Abort(t)

RemoteStep ==
  \/ \E u \in RemoteUsers : makeJoin(u) \/ makeLeave(u)
  \/ \E u \in RemoteUsers, s \in RemoteState : RemoteSend(u, s)
  \/ \E u \in RemoteUsers, v \in LocalUsers : RemoteInvite(u, v)

(***************************************************************************)
(* The endpoints of other servers.  The signature checks of sendJoin and   *)
(* putInvite accept every signature that is there.                         *)
(***************************************************************************)

(* A member event of the sender about itself. *)
OfItself(id, m) ==
  remote[id].key = Member(remote[id].sender) /\ remote[id].content = m

(* PUT send_join *)
sendJoin(id) == OfItself(id, "join") /\ ProcessSendJoin(id)

(* PUT send_leave *)
sendLeave(id) == OfItself(id, "leave") /\ ProcessSendLeave(id)

(* PUT invite *)
putInvite(id) ==
  /\ \E v \in LocalUsers : remote[id].key = Member(v)
  /\ remote[id].content = "invite"
  /\ \E n \in 0 .. MaxPreviews :
       \E pv \in [nextId .. (nextId + n - 1) -> PreviewState] :
         ProcessInvite(id, n, pv)

(* PUT send: the PDUs of a transaction are processed one after the other. *)
putSendTxn(t) == \E id \in DOMAIN remote : ReceivePDU(t, id)

EndpointStep ==
  \E id \in DOMAIN remote : sendJoin(id) \/ sendLeave(id) \/ putInvite(id)

InboundStep(t) ==
  \/ putSendTxn(t)
  \/ \E h \in req[t].todo : IngestHistorical(t, h)
  \/ ProcessInboundPDU(t)

RemoteJoinStep(t) ==
  \/ ReadLocalState(t)
  \/ \E W \in Resolutions(req[t].todo, req[t].local), A \in AuthChains(t) :
       PersistRemoteJoin(t, W, A)

Next ==
  \/ RemoteStep
  \/ EndpointStep
  \/ \E t \in Threads : ClientStep(t) \/ InboundStep(t) \/ RemoteJoinStep(t)

Spec == Init /\ [][Next]_vars

-----------------------------------------------------------------------------
(* Properties. *)

(* An event of the DAG that names x as a parent. *)
HasChild(x) == \E c \in linked : x \in evento[c].prevs

(***************************************************************************)
(* No event drops out of the DAG: every event that went through            *)
(* UpdateForwardExtremities is an extremity or the parent of another such  *)
(* event, however many handlers replaced the extremities from stale reads. *)
(***************************************************************************)
DagConnected ==
  \A e \in linked :
    e \in extremidades \/ HasChild(e)

(***************************************************************************)
(* An extremity that only this server's own requests wrote is a real tip:  *)
(* no event of the DAG names it as a parent.                               *)
(***************************************************************************)
LocalTipsChildless == \A x \in extremidades \ inbound : ~HasChild(x)

(***************************************************************************)
(* Forks do not pile up: however the requests interleave, each thread owns *)
(* at most one of the extremities that local requests wrote, so their      *)
(* number never exceeds the number of concurrent requests.                 *)
(***************************************************************************)
OneTipPerWriter ==
  \A x, y \in extremidades \ inbound : evento[x].by = evento[y].by => x = y

(***************************************************************************)
(* Depth orders the DAG: an event of this server lies deeper than every    *)
(* parent, although its parents were read before its transaction.          *)
(***************************************************************************)
DepthAboveParents ==
  \A e \in DOMAIN evento : evento[e].via \in {"local", "genesis"} =>
    \A p \in evento[e].prevs :
      p \in DOMAIN evento /\ evento[p].depth < evento[e].depth

(***************************************************************************)
(* The membership table never outlives or contradicts the state: a row     *)
(* names a stored member event of its user with exactly that membership,   *)
(* and the state has an event for that user too.  When the two tables name *)
(* different events, the state's event is one the code does not mirror: it *)
(* has no membership field, or it is a preview of an invite.               *)
(***************************************************************************)
MembershipBacked ==
  /\ \A u \in DOMAIN membership :
       LET e == evento[membership[u].evento]
       IN  /\ e.key = Member(u)
           /\ e.content = membership[u].tipo
           /\ Member(u) \in DOMAIN estadoAtual
  /\ \A u \in Users : Member(u) \in DOMAIN estadoAtual =>
       LET i == estadoAtual[Member(u)]
       IN  \/ u \in DOMAIN membership /\ membership[u].evento = i
           \/ evento[i].content = ""
           \/ evento[i].via = "preview"

(***************************************************************************)
(* The tables implement the growing graph of EventGraph: stored events are *)
(* immutable (ON CONFLICT DO NOTHING), every handler links an event by     *)
(* replacing exactly the parents that the event itself names, and a state  *)
(* row names a stored event of its key, whichever handler wrote it.        *)
(***************************************************************************)
Graph == INSTANCE EventGraph WITH
           event <- evento, graph <- linked, tips <- extremidades,
           state <- estadoAtual

ImplementsEventGraph == Graph!Spec

-----------------------------------------------------------------------------
(* What a comment of the code claims and these interleavings refute. *)

(***************************************************************************)
(* Ingestion resolves the state "at the point where the new event connects *)
(* to the graph" (ProcessInboundPDU): the state event of one PDU never     *)
(* gives way to that of its own parent, another PDU.  The resolved map is  *)
(* dropped and the event that comes last always wins.                      *)
(***************************************************************************)
StateNeverRollsBack ==
  [][\A k \in DOMAIN estadoAtual :
       LET old == estadoAtual[k]
           new == estadoAtual'[k]
       IN  evento'[old].via = "pdu" /\ evento'[new].via = "pdu" =>
             new \notin evento'[old].prevs]_estadoAtual
=============================================================================
