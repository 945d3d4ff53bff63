# Dragonite in TLA+

Dragonite is a federated chat server: a Matrix homeserver in Go with PostgreSQL
(rooms, events, users), Redis (queues, transaction ids) and MinIO (media). This
directory holds TLA+ models of its core, TLC configurations that check them on
small instances, and TLAPS proofs of what must hold for every instance. Paths
below are relative to the repository; `usecase/`, `postgres/`, `redis_infra/` and
`http_adapter/` abbreviate the directories under `internal/`.

`PROJECT.json` is the index: components, runs, the source lines of every
definition (`map`), the hazards the properties are for, the findings, the
theorems, and for each property a mutant of the code it notices.

## 1. Inventory

| Component | State | Operations | Modelled in |
|---|---|---|---|
| Room events and DAG (`usecase/room_*.go`, `dag_manage.go`, `event_builder.go`, `auth_rule_resolver.go`, `postgres/canal_storage.go`, `evento_storage.go`) | `Canal`, `Evento`, `Canal_Extremidades`, `Canal_Estado_Atual`, `Canal_Membership` | create, send, send state, join, leave, invite, join a remote room | `RoomDag` |
| Federation inbound (`usecase/federation_service.go`, `http_adapter/federation`) | the same tables | transactions of PDUs, filling of gaps, make/send join, make/send leave, invite; read-only queries | `RoomDag` (the writes) |
| Federation outbound (`federation_service.go`, `redis_infra/federation_cache.go`) | Redis outbound queue, retry list per server, worker and goroutines in memory | announce, dispatch, send with retries, park, flush | `FederationOutbox` |
| Sync and notifier (`usecase/sync_service.go`, `postgres/notifier.go`) | `stream_ordering`, tokens, registered channels | `/sync`, long poll, NOTIFY listener | `SyncLongPoll` |
| To-device messages (`usecase/to_device_service.go`, `postgres/to_device_storage.go`) | `Mensagem_ToDevice` | send, deliver, delete when confirmed | `SyncLongPoll` (mailbox), `ClientTransactions` (send) |
| State resolution (`usecase/state_res_sort.go`, `auth_rule_resolver.go`) | none | partition, sort, authorise | `StateRes`; abstracted in `RoomDag` |
| Connection pool, unit of work (`postgres/workeunit.go`, `database.go`) | pooled connections | Execute | one atomic step in `RoomDag`, statements with locks in `KeyBackup`; plan: `ConnPool` |
| Request idempotency (`redis_infra/idempotency_cache.go`) | transaction id -> answer | look up, store | `ClientTransactions` |
| End-to-end keys (`usecase/keys_service.go`, `postgres/device_keys_storage.go`, `cross_signing_storage.go`) | device, one-time, fallback and cross-signing keys, signatures | upload, claim, merge signatures, query | `DeviceKeys` |
| Key backup (`usecase/backup_service.go`, `postgres/backup_storage.go`) | versions, keys, count, etag | create, put, delete | `KeyBackup` |
| Authentication, devices (`usecase/auth_service.go`) | tokens per device | register, login, refresh, logout | `Sessions` |
| Directory, media, profile | aliases; objects and rows; profile fields | put/delete, upload, update and fan out | plan: smaller services |
| Presence, typing, receipts, users, system information | single rows | upserts and reads | not modelled: nothing relates two rows |
| HTTP plumbing, configuration, cryptography | none | routing, parsing, signing | not modelled: I/O and pure string computation |

How they interact. A client request reaches a service in its own goroutine. The
service reads tables, builds an event and commits it in one PostgreSQL
transaction. A trigger on `Evento` sends a NOTIFY, the notifier's listener wakes
the long polls of the room's members. After the commit the service pushes the
event to Redis; one worker pops it, asks the database who takes part in the room
and starts a goroutine per server. An inbound PDU runs `ProcessInboundPDU` in the
goroutine of the HTTP request and, on the side, flushes the retry list of its
origin.

What is hard. Guards, dependency reads and transactions are separate database
round trips, with no lock across them, so every pair of requests interleaves. PDUs
arrive late, twice and out of order. Redis and PostgreSQL are written one after
the other without a common transaction. The outbound worker holds popped events
in memory only. `/sync` computes its token with a later query than its events, and
registers for notifications after its first read. Sequence values are handed out
before the transactions that use them commit. Several services read a row, change
it in memory and write it back without a transaction (device tokens, signatures),
or check before they begin one (backup versions). The `hazards` of `PROJECT.json` list
these line by line.

## 2. The modules

### RoomDag

One room, as one server stores it. A variable per table, `queued` (what was
pushed for federation), `remote` (events other servers have built), `nextId` (an
event id is a hash: fresh and never reused) and `req`, the request of each thread.
`linked` and `inbound` are history, as are the fields `via` and `by` of an event.

| Code | Actions |
|---|---|
| `SendEvent`, `SendStateEvent`, `JoinLocalRoom`, `LeaveRoom`, `InviteUser` | the guard is the action of that name; then `ResolveEventDependencies` (extremities, auth events, depth), `Commit` (the transaction), `QueueOutgoing` |
| `CreateRoom` | `CreateRoom` (the genesis transaction), then `CreateRoomInvites` for each invitee, which runs InviteUser's steps |
| any error, deadline or crash before the end | `Abort` |
| `MakeJoin`/`ProcessSendJoin`, `MakeLeave`/`ProcessSendLeave`, `ProcessInvite` | one action each; the remote half (`RemoteSend`, `RemoteInvite`) is external |
| `ProcessInboundPDU` | `ReceivePDU` (missing parents, answer of `get_missing_events`), `IngestHistorical` per fetched event, each in its own transaction whose error is dropped, `ProcessInboundPDU` (the transaction) |
| `JoinRemoteRoom` | `JoinRemoteRoom` (handshake), `ReadLocalState`, `PersistRemoteJoin` (resolution and writes) |
| the HTTP handlers | `postCreateRoom`, `postJoinRoom`, `postLeaveRoom`, `postInviteRoom`, `putSendEvent`, `putStateEvent`; `makeJoin`, `makeLeave`, `sendJoin`, `sendLeave`, `putInvite`, `putSendTxn`: their checks and the service action they call |

Granularity. The checks of a guard are one step, the reads of the dependencies are
one step, a transaction (`Execute`) is one step; between them everything else may
happen. The reads of `ReadLocalState` are a step of their own although the code
makes them inside the transaction, because PostgreSQL's default isolation does not
protect them. Serialisation failures roll back (`Abort`).

Abstractions. Content is what a handler reads of it: membership, join rule,
whether power levels let everybody or only the creator invite. `TopicKey` stands
for every state key no handler reads. `Resolve` is replaced by all it may return
(`Resolutions`). Preview events carry the inviter as sender; nothing reads it.
`MakeJoin` and `MakeLeave` return templates without parents or depth, so the events
built from them have neither; `ProcessSendJoin` and `ProcessSendLeave` store them
and never touch the extremities, which is why `linked` leaves them out. Alias
and direct-message rows written by `CreateRoom` are left out; the genesis has at
most one event after the four fixed ones.

### FederationOutbox

The way of an announced event: `queue` (Redis list), `popped` (the worker), `sends`
(goroutines per event, server and failed tries), `pending` (retry list per server).
`announced`, `dispatched`, `owed`, `acked`, `dropped` and `lost` are history.
`QueueOutgoing`, `PopOutboundQueue`, `StartWorker`, `SendAccepted`/`SendFailed`,
`StorePendingRetry` and `FlushPendingRetries` are the code's operations; `Crash`,
`PopFails`, `ExtractFails`, `GoroutineFails` and `PendingVanishes` are the ways in
which the process, Redis or the database fail, and only they write `dropped` and
`lost`. The Redis client repeats a command whose reply is lost, so a push is applied
up to `MaxCopies` times, or not at all. The set of participants is arbitrary at the
moment it is read.

### SyncLongPoll

`/sync` for the devices of one user who stays in one room, one request per device
at a time. Each query is a step: `GetJoinedRooms`, `DeleteToDeviceMessagesUpTo`,
`GetToDeviceSync`, then either the token (`GenerateNextSinceToken`,
`GetMaxStreamOrdering`) or the long poll (`WaitForEvents`, `Woken`, `TimesOut`), then
`Respond`. `RoomSkipped` and `ToDeviceSyncFails` are the branches in which a query of
the room or of the mailbox fails and the answer goes on without it; `Fail` is every error that ends the request,
a cancelled request, or an answer that is lost. Writers take their number from the
sequence (`SaveEvento`, `InsertToDeviceMessage`) and commit later in any order, or fail
(`RollbackEvento`, `InsertToDeviceFails`). `overtaken` is history: the messages that were
still being inserted when a later one for the same device committed.
`WakeUpUsers` and `ListenerFails` are the two ends of a NOTIFY.

### EventGraph

The abstract specification of the room tables, for whatever reads them: stored
events never change; an event enters the graph by taking the place of its own
parents among the tips, and nothing else moves the tips; a state row names a
stored event of its key. `RoomDag` implements it with `event <- evento`,
`graph <- linked`, `tips <- extremidades`, `state <- estadoAtual`
(`ImplementsEventGraph`). What the abstract graph leaves out, because the code does
not promise it: that parents are stored before children, that an event is linked
once, that the state follows the graph.

### Sessions

`Usuario`, `Profile` and `Dispositivo`. A device row holds the one refresh token the
server accepts for it. `postRegister` runs `Register`, `CreateProfile` and
`RegisterLogin` as separate statements; `postRefresh` and `postLogout` read the row
(`Refresh`, `Logout`) and write it back later (`RefreshUpdate`, `LogoutUpdate`), with
other requests in between. Tokens expire at any time, and `Abort` ends a request
anywhere. `out`, `raced` and `stale` are history. A login names a device id of its own
user or a new one, which is an assumption on clients. A
refresh with an unknown token ends its request: the handler panics on the missing
device and the server recovers.

### DeviceKeys

The four key tables for one user with one device. `UploadKeys` is one transaction.
A claim locks the oldest unlocked one-time key (`LockOneTimeKey`, FOR UPDATE SKIP
LOCKED), deletes it (`ClaimOneTimeKey`) or falls back (`ClaimFallbackKey`).
`UpsertCrossSigningKey` stores the keys of a request one by one. `ReadSignatures` and
`UpdateSignatures` are the two statements of a merge: the lock of the first ends with
it, so merges overlap. `inserted`, `handed`, `merged` and `stale` are history.

### KeyBackup

`PutRoomKeys` and `DeleteRoomKeys` as transactions at READ COMMITTED: a statement
sees what was committed when it began and waits for rows that another open
transaction has written. The step order is the code's: version check, begin, one
upsert per key in the order of a Go map, count, update of the version row, commit.
`Rollback` is every error; `DeadlockVictim` is PostgreSQL's answer to a circle of
waiting transactions. `changes`, `exact`, `late` and `stale` are history.

### ClientTransactions

`putSendEvent` and `sendToDevice` with their transaction ids: `Hit` or `Miss` of the
Redis lookup, the work in parts (`InsertPart`: one event, or one message per local
device without a transaction, then one call per remote server that nobody waits for),
`Set` and the answer. `Endpoint` is what goes into the key: the URL of an event, but a
constant for messages of whatever type. A `*` that cannot be expanded is logged and its
devices are left out (`Expansions`, `skipped`). Entries expire, the client refreshes its
token (which is part of the key), requests fail and answers are lost.

Redis is up, down or hangs (`RedisChanges`). Down, it refuses at once and the request
goes on without it. When it hangs, the lookup of `putSendEvent` outlasts the deadline it
shares with `SendEvent` (2 s, `httputil/request.go:11`), so the request ends without
effect (`Stall`, `DeadlinePasses`), with a 403 since the failed membership query
counts as "not joined"; `sendToDevice` sets no deadline and goes on late. That the lookup lasts
longer than 2 s comes from the default timeouts of go-redis, which `main.go:38` does not
change; the library is not part of the repository. `causes` is history: it counts
whatever may make a transaction run again.

### StateRes

`partitionState`, `Resolve` with its three phases (`PhaseOf`), `sortEventsTopologically` and
`CheckAuth`, whose two rules read a `state_default` differently (`RequiredLevel`). A behaviour resolves one input twice, the second time with the state
maps in reverse order, and a step takes any event the comparison leaves equal, as
Go's map iteration does. `Before`, `ZeroDegree`, `Agreed` and `CheckAuth` are the
operators of the algorithm.

`MCRoomDag`, `MCFederationOutbox`, `MCSessions`, `MCDeviceKeys`, `MCKeyBackup`,
`MCClientTransactions` and `MCStateRes` define values for constants and symmetry
sets; the configurations of `SyncLongPoll` need none.
Definitions named `Mut...` are deliberately wrong variants of the definition below
them; no specification uses them.

## 3. Runs

Passing runs:

| Run | Checks | Shows |
|---|---|---|
| `room_local` | `TypeOK`, `DagConnected`, `OneTipPerWriter`, `DepthAboveParents`, `MembershipBacked` | two concurrent requests of two local users, with bans and failures: stale reads of the extremities never disconnect the DAG, forks stay at one per request, depth orders events, membership rows agree with the state |
| `room_federated` | `LocalTipsChildless`, `MembershipBacked`, `ImplementsEventGraph` | a room hosted here with a remote member: PDUs in any order and again, gaps, handshakes racing local requests; the tables implement the abstract graph |
| `room_remote` | `DagConnected`, `MembershipBacked` | a room hosted elsewhere: invites with previews, PDUs, remote joins with their auth chain and merge |
| `outbox` | `TypeOK`, `NothingVanishes`, `CopiesBounded`, `EventuallySettled`, `EventuallySent` | with crashes and Redis faults at every step: only faults lose an event, retries and flushes never multiply one; every event is acknowledged or parked whatever other servers do, and acknowledged if they keep sending PDUs and answer at last |
| `sync` | `TypeOK`, `NoRedelivery`, `OnlyOvertakenLost`, `SubscribersWake` | events and messages that commit out of order, skipped rooms, lost answers, retries and the batch limit: a received event is never sent again, an undelivered message is deleted only if a later one of its device committed before it, a registered long poll ends when an event commits, no registration outlives its request |
| `sessions` | `TypeOK`, `LogoutEndsSession`, `DeadTokensStayDead` | registrations, logins, refreshes and logouts overlap: a dead refresh token never works again, although `Logout` may write back a row another request has replaced; a logout is undone only by a refresh that was under way |
| `device_keys` | `TypeOK`, `OneClaimPerInsert`, `CrossSignaturesMatch`, `SignaturesKept` | each inserted one-time key answers exactly one claim; signatures stay on the key they were made over, and are lost only by overlapping merges |
| `key_backup` | `TypeOK`, `EtagCountsCommits`, `CountExact`, `OldVersionsShrink`, `RequestsEnd` | etags are unique and gapless; counts are right unless transactions overlap; superseded versions gain keys only from requests already past the check; every request ends, deadlocks included |
| `retries` | `TypeOK`, `AnswerHasItsWork`, `EveryCopyHasACause`, `EventuallyAnswered` | an event and messages of two types under one transaction id, repeated: an event id in an answer is that of a stored event of the transaction, and `{}` comes after a request with the same key did its work; every repeated effect has a cause (a lost answer or a stalled request is none); Redis may refuse for ever without stopping the client, as long as it does not hang for ever |
| `state_res` | `TypeOK`, `ServersAgree`, `WinnersAuthorized`, `AgreedStateKept`, `AuthFirst` | servers that resolve the same forked states agree, whatever order Go's maps have; winners are authorized by the final state; what was agreed on is kept |

Runs that TLC must refute, each a statement of a comment in the code
(`findings` quotes them):

| Run | Property | What the code does |
|---|---|---|
| `room_rollback` | `StateNeverRollsBack` | a state event arriving after its child replaces the child: the resolved state is computed and dropped |
| `sync_skip` | `NothingSkipped` | an event that commits between the read and the token query is never sent |

The models contain more traces a reader of the code should know. They are not
kept as runs.

- An invitee who joins, or is banned, between the check of `InviteUser`
  (`room_membership.go:383`) and its transaction is turned back into an invitee.
- A PDU delivered again, or after its child, becomes an extremity although it has
  a child (`UpdateForwardExtremities` never looks). `DagConnected` survives this;
  `LocalTipsChildless` is about the other extremities.
- A member event without a `membership` field moves the state row and not the
  membership row; `MembershipBacked` names this as the exception it is.
- A sender who leaves between the check of `SendEvent` and its reads: the message
  cites a leave among its auth events.
- A NOTIFY handled between the first read of `/sync` and the registration of its
  channel wakes nobody, and the request sleeps to its deadline. `SubscribersWake`
  starts at the registration for that reason.
- Handlers insert to-device messages concurrently, and an id is handed out before its
  row is visible. A message whose insert commits after that of a larger id of the same
  device is below the token by then (`sync_service.go:300`), and the next `/sync`
  deletes it unsent, although `DeleteToDeviceMessagesUpTo` is meant to delete "mensagens
  já entregues" (`to_device_storage.go:51`). With two inserts open at a time this happens in
  the run `sync`; `OnlyOvertakenLost` names it as the only way to lose a message.
- `sendToDevice` looks its transaction id up under a constant (`client/routes.go:357`),
  without the event type: a second type under the same id is answered `{}` and nothing is
  stored for it, although `buildKey` speaks of "a uniquely scoped Redis key"
  (`idempotency_cache.go:22`). `AnswerHasItsWork` claims of `{}` only that some
  type with the id was stored.
- A Redis that hangs uses up the deadline of `putSendEvent` in the lookup
  (`rooms/routes.go:420`): every repetition fails, although the lookup is meant to "fail
  open" (`idempotency_cache.go:42`). This is why `EventuallyAnswered` has a premise.
- A `*` of `sendToDevice` that cannot be expanded, and a call to a remote server that
  fails, are not told to the client: the answer is 200. `AnswerHasItsWork` counts a part
  as done when it was left out in this way or when its call was started.
- A third-party invite that won stays in the state although its sender's membership
  was replaced later in the same phase. `WinnersAuthorized` claims of it only what
  remains: the sender's level, and that such a membership was itself in conflict.
- A refresh that had read the row before a logout wrote it revives the device.
- A one-time key uploaded again under its `key_id` after it was claimed is handed
  out again; `OneClaimPerInsert` therefore counts inserts.
- Two overlapping merges of signatures lose one of them: FOR UPDATE protects nothing
  after its own statement. `SignaturesKept` starts anew at such a merge.
- Two overlapping backup transactions store a count that lacks the other's keys,
  until the next request that runs alone.

Bounds.
RoomDag: `MaxEvents` is 6 or 7: four genesis events and two or three more, enough for a
fork and its merge, for a parent and child that swap, or for a join and a leave.
Two threads suffice for every race between a stale read and a commit; a third adds
no new pair. `MaxTips = 1`: remote events with several parents only remove more
extremities, and the proofs cover any number. `MaxFetch = 1` makes answers of
`get_missing_events` short or empty (the code asks for at most 10). `MaxPreviews =
1`. Outbox: `MaxRetries = 5` is the code's value; one copy per push (`MaxCopies`),
as the proofs cover any number. Sync: two orderings and three messages, two of each open
at a time (`OpenEvents`, `OpenMail`), commit in any order, and with `MailLimit = 1` the
messages exceed one batch; one device suffices, since devices share only the notifier. Sessions: one
device for each of two users, two threads and four tokens, so that a token is rotated,
logged out and replaced by a login while an old request is open. DeviceKeys: two
one-time keys and two rows, two generations of one cross-signing key, two signers.
KeyBackup: two keys, the least that two transactions can lock in opposite orders;
two versions, three commits. Retries: two overlapping requests, two tries per
transaction that Redis lets through and any number that stall, one failure or lost
answer, two access tokens. Of an event and messages of two types the client begins any
two (`MaxBegun`): a key is shared by two transactions at most, and the proofs cover more.
`causes` stops at `MaxTries - 1`, which already allows all the copies there can be.
`MaxFaults` bounds failures of the work itself,
never those a hanging Redis causes. StateRes: twelve events of
two users, among them a third-party invite, a later leave of its sender and a negative
`state_default`, and every pair of state maps that can be made of them. Threads are symmetric in
the runs without liveness.

Deadlock is not checked: ids, orderings and events are bounded, so every instance
ends, and the server itself only reacts. Waiting for each other is covered where it
can happen by `RequestsEnd`.

Fairness. `CodeFairness` of the outbox says that the worker loop and each goroutine
keep running, which the Go scheduler gives as long as the process lives; faults may
still hit any event, and the properties except the events they hit.
`PeerFairness`, the premise of `EventuallySent`, is an assumption about other servers:
they keep sending PDUs (the only trigger of a flush), and one that is tried again and
again answers in the end (strong fairness, because between two tries the event is
parked). `Fairness` of `SyncLongPoll` lets the listener and the request
goroutines run; no timer has to fire. In `KeyBackup` the statements of a request are
strongly fair, because PostgreSQL grants row locks in the order in which they were asked
for, and its deadlock detection is weakly fair; no other error has to happen. In
`ClientTransactions` a request that began goes on, and a client repeats a request it
began until it is answered (strong fairness: threads may be busy in between). Redis need
not come back. `EventuallyAnswered` has the premise that it does not hang for ever
(section 3 tells what happens when it does).

## 4. Proofs

Eight modules hold theorems that TLAPS checks: `RoomDagProofs`, `FederationOutboxProofs`,
`SessionsProofs`, `DeviceKeysProofs`, `KeyBackupProofs`, `SyncLongPollProofs`,
`ClientTransactionsProofs` and `StateResProofs`. Every invariant that a passing run
checks, the action properties and the refinement are proved for any sets of users,
threads, events, servers, devices and keys and any bounds. The only hypotheses are the
named assumptions of the models, which TLC evaluates on every run. Beyond types and
finiteness they say:

- `KeysAssumption`: every usage of a cross-signing key has its place in `Order`.
- `TransactionsAssumption`: no room path is called `sendToDevice` (a path begins with
  a slash), local devices and remote servers are different recipients, a client has an id
  to use and something to send, and may try once more than there are faults (a bound
  that matters for liveness only).
- `EventAssumption`: levels and times are numbers, and authorization has no cycle,
  because an event id is a hash over the ids of the events that authorize it. Event
  types are arbitrary.
- `InputAssumption`: a state map gives each tuple an event with that tuple, as
  `Canal_Estado_Atual` and the parsed federation answers do.

RoomDag. `TypeOK` is not inductive: it says nothing about what a request carries
from its reads to its transaction. `IInv` adds that

- parents have smaller ids and depth is at most the id (`Ranked`), for stored
  and for remote events; without it a depth read now could be overtaken later;
- an id names the same event here and elsewhere (`Agree`), and a state row points
  at an event of its key (`StateKeyed`), which `JoinRemoteRoom` relies on;
- requests stay good while others commit (`ReqGood`): the parents a thread read are
  stored and less deep than the event it will write, the events it still has to
  ingest are known, the join it will persist is a join of its user.

`Invariance` proves `IInv`, one lemma per action; `TypeCorrect` is its first
conjunct, and includes that every row names a stored event. The DAG properties then
need no further case split over handlers: `NextDagStep` shows that each step is
quiet for the DAG, links an inbound event, links the event of one request, or
writes the genesis (`DagStep`). From it follow

- `DagStaysConnected`: no linked event drops out. A commit removes only the parents
  of the event it adds, so what it removes has a child;
- `LocalTipsStayChildless`: an event id is fresh, so nobody can have named it
  before it was linked; inbound events can break this (section 3);
- `ForksAreBounded`: needs `OwnTipsRead`, that a thread about to commit has read
  the tip it wrote last, since only inbound steps and its own could replace it;
- `DepthOrdersDag`: from `ReqGood`.

`RoomImplementsGraph` proves the refinement of `EventGraph` from `IInv` and
`NextDagStep`: the lemma `NextGraph` adds that no handler changes a stored event (an
id that is stored again is the same event, by `Agree`) and that state rows stay keyed.

`MembershipStaysBacked` follows from another summary of the handlers, `MirrorStep`: each
transaction upserts a set of state rows and a set of membership rows that back each
other, and the events they name never change afterwards. Rows that back each other
merge into tables that do (`BackedMerge`), so the case split over handlers only has to
look at what one transaction writes.

FederationOutbox. `TypeCorrect`, and `OnlyFaultsLose` from `TypeOK` with the two
halves of `NothingVanishes`, for events before (`EventsKept`) and for pairs after
they are addressed (`PairsKept`). `RetriesNeverMultiply` counts, for one event and one
server, the places in the queue, the event the worker holds, the goroutines with each
number of failed tries and the parked copies. Each step moves one copy or all parked
copies between these, or loses some; only `QueueOutgoing` adds copies, and it runs once
per event, before there are any. The lemmas on `Counted` and `Places` say how the
cardinalities change.

Sessions. Neither `TypeOK` nor `LogoutEndsSession` is inductive: a registration inserts
the profile after its user, and a refresh writes a row it read earlier. `IInv` adds
that the user of such a registration is stored (`Registered`), and that a refresh of a
logged out device had read the row before the logout wrote it, or the device was
revived before (`ReadBefore`): only such a refresh can make its token usable again.
`LogoutIsFinal` and `TokensStayDead` follow; the second also because tokens are generated
once and a row never goes back to an older one unexpired.

DeviceKeys. Claims and merges take two statements each, and `IInv` adds to the
properties what a request may rely on between them: no row is locked by two claims
(`LocksDisjoint`), a key id is in the table once (`KeyIdsUnique`), the signatures a merge
read belong to the key it signs (`ReadMatches`), and what it read is not older than the
last write unless it is marked stale (`ReadCurrent`). `ClaimsAreUnique`,
`SignaturesMatchKeys` and `SignaturesStay` are conjuncts of it.

KeyBackup. `EtagCountsCommits` needs that a transaction about to commit carries the
stored etag plus one (`Sound`), which stays true because the row lock of the UPDATE lets
one transaction of a version wait for its commit (`OneUpdater`). For `CountExact`,
`Sound` says what the counted total means at each statement as long as nobody else
committed. `OldVersionsOnlyShrink` follows from `LateMarked`: a put in a version that is
no longer the latest began before it was superseded.

SyncLongPoll. `NoRedelivery` needs that what a request read is newer than the device's
token and is covered by the token it will answer with (`RequestsFresh`); the maximum of
a later query can only be larger. `MessagesAreDelivered` proves `OnlyOvertakenLost`
for any number of overlapping inserts: every message up to a token was received, is in
the answer that brings it, or was overtaken (`Covered`), and an insert still open below
a token (`Settled`) or below a stored message of its device (`Overtakes`) was overtaken.
That an overtaken message is really lost is told in section 3.

ClientTransactions. `AnswersAreTrue` needs that a request about to answer has done the
work of its own transaction (`RequestsSound`) and that a cached answer comes from some
transaction with the key (`CacheSound`): for an event this is the same transaction, as
its key has its path; for messages it may be one of another type. `CopiesHaveCauses` is a
count: copies stored plus requests still to store one are at most the causes, or one
more while the answer is, or is going to be, under the key of the client's present token
(`CausesCount`); each way to lose that entry is itself a cause. A request that left a
part out will store its answer without a copy of that part, so it must not use up the
one copy without a cause (`SkipCount`).

StateRes. `IInv` describes one run of `Resolve`: conflicted events are queued, sorted or
tried (`Queued`), what authorizes a sorted event comes before it (`Ordered`, which gives
`AuthorizersComeFirst`), agreed tuples are untouched (`Resolving`), and winners keep their
backing (`Winners`). The check of a member reads only power levels and the creation of
the room, that of an event of the last phase the members too, and earlier phases have
settled these. A third-party invite is the exception: it is tried in the members' phase
and reads a membership, so that what is kept is its sender's level, and the membership
unless a conflicted one has replaced it (`BackedStays`).
`ServersConverge` compares two runs. A step is determined by the state before it: the
comparison by power level, time and id is a total order, so the next event to sort is
unique whatever order Go walks its maps in. A deterministic relation reaches at most one
end from one start (`OneEnd`), and the partition into conflicted and agreed state is the
same for the reversed sequence of maps; `TrackInv` says that each run is on the way from
that start and that recorded results are such ends.

Only model-checked: all liveness (`EventuallySettled`, `EventuallySent`,
`SubscribersWake`, `RequestsEnd`, `EventuallyAnswered`), which needs ENABLED and is out of
the prover's reach. That the topological sort and the resolver terminate is not stated as
a theorem for the same reason.

## 5. Not modelled, and why

- Signatures, hashes, canonical JSON, routing, configuration: string computation
  and I/O. The signature check of inbound events is a TODO in the code.
- Read-only endpoints (history, state, backfill, members, public rooms): they change
  nothing. Pagination and `get_missing_events` are planned as pure operators.
- Key queries, one-time key counts, claims and queries at other servers, reads of a
  backup: read-only here, or a call to another server.
- EDUs in federation transactions; what a remote server does with the call of a
  sendToDevice.
- The verification of key signatures, which the code leaves to clients.
- The answers to invited and left rooms in `/sync`, account data and lazy layout.
- The listener after its connection is lost: the code retries
  `WaitForNotification` on the same connection for ever and never reconnects.
- A user who is banned or leaves is not notified, as the listener looks at
  `join` and `invite` rows only; the model's user stays in the room.

## 6. Plan

Done: `RoomDag` with `EventGraph`, `FederationOutbox`, `SyncLongPoll`, `Sessions`,
`DeviceKeys`, `KeyBackup`, `ClientTransactions` and `StateRes` with their runs, and the
proofs above.

Next, in this order:

1. `ConnPool`: `Execute` holds a connection while helpers ask the pool for a
   second one; who waits for whom, and what the deadline resolves.
2. The smaller services (alias check-then-insert, media in two stores, profile
   fan-out) and pagination against a reference definition.
3. Composition of two servers, the outbox of one feeding the inbound handlers of the
   other, for whether an acknowledged event was ingested.
