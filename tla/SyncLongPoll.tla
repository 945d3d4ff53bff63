---------------------------- MODULE SyncLongPoll ----------------------------
(***************************************************************************)
(* GET /sync for the devices of one user who stays in one room: the since  *)
(* token, the long poll, the notifier that ends it, and the to-device      *)
(* mailboxes.                                                              *)
(*                                                                         *)
(* Every query of a request is a step of its own.  An inserting            *)
(* transaction takes its stream_ordering (or message id) from a sequence   *)
(* first and commits later, so two of them may commit in either order.     *)
(***************************************************************************)
EXTENDS Integers, FiniteSets, FiniteSetsExt

CONSTANTS
  Devices,        \* the user's devices; each runs one /sync at a time
  MaxOrdering,    \* bound: stream orderings are 1 .. MaxOrdering
  MaxMail,        \* bound: to-device message ids are 1 .. MaxMail
  OpenEvents,     \* bound: event transactions open at the same time
  OpenMail,       \* bound: mailbox inserts running at the same time
  MailLimit       \* toDeviceMessageLimit

ASSUME SyncAssumption ==
  /\ MaxOrdering \in Nat /\ MaxMail \in Nat
  /\ OpenEvents \in Nat /\ OpenMail \in Nat
  /\ MailLimit \in Nat \ {0}

Rooms == {"mine", "other"}
NoDevice == "none"

VARIABLES
  seq,         \* the sequence behind stream_ordering
  open,        \* orderings of transactions that have not committed
  evento,      \* committed ordering -> room
  notifs,      \* NOTIFYs of the user's room the listener has not handled
  mailSeq,     \* the sequence behind the message ids
  mailOpen,    \* id -> device, of inserts that have not committed
  mail,        \* Mensagem_ToDevice: id -> device
  overtaken,   \* history: ids under way when a later one of the device committed
  subscribers, \* devices whose channel is registered with the notifier
  signalled,   \* devices whose channel holds a signal
  since,       \* device -> the token it sends next
  req,         \* device -> its request
  seen,        \* history: device -> events of the room it received
  got,         \* history: device -> messages it received
  deleted,     \* history: device -> messages deleted as confirmed
  known        \* history: device -> events committed when it subscribed

inserts == <<seq, open, evento, notifs>>
mailbox == <<mailSeq, mailOpen, mail, overtaken>>
notifier == <<subscribers, signalled>>
vars == <<inserts, mailbox, notifier, since, req, seen, got, deleted, known>>

Orderings == 1 .. MaxOrdering
MailIds   == 1 .. MaxMail

(* domain.SyncToken; the other two positions never change. *)
Token == [timeline : 0 .. MaxOrdering, toDevice : 0 .. MaxMail]

(* fresh and letters are the response under construction, next its token. *)
Request == [pc : {"idle", "timeline", "delete", "mail", "subscribe", "wait",
                  "token", "max", "respond"},
            poll : BOOLEAN, fresh : SUBSET Orderings, letters : SUBSET MailIds,
            next : Token]

NoRequest == [pc |-> "idle", poll |-> FALSE, fresh |-> {}, letters |-> {},
              next |-> [timeline |-> 0, toDevice |-> 0]]

TypeOK ==
  /\ seq \in 0 .. MaxOrdering
  /\ open \subseteq 1 .. seq
  /\ DOMAIN evento \subseteq (1 .. seq) \ open
  /\ \A x \in DOMAIN evento : evento[x] \in Rooms
  /\ notifs \in 0 .. Cardinality(DOMAIN evento)
  /\ mailSeq \in 0 .. MaxMail
  /\ DOMAIN mailOpen \subseteq 1 .. mailSeq
  /\ DOMAIN mail \subseteq (1 .. mailSeq) \ DOMAIN mailOpen
  /\ \A m \in DOMAIN mail : mail[m] \in Devices
  /\ overtaken \subseteq 1 .. mailSeq
  /\ subscribers \subseteq {d \in Devices : req[d].pc = "wait"}
  /\ signalled \subseteq {d \in Devices : req[d].pc = "wait"} \ subscribers
  /\ since \in [Devices -> Token]
  /\ req \in [Devices -> Request]
  /\ seen \in [Devices -> SUBSET Orderings]
  /\ got \in [Devices -> SUBSET MailIds]
  /\ deleted \in [Devices -> SUBSET MailIds]
  /\ known \in [Devices -> SUBSET Orderings]

Init ==
  /\ seq = 0
  /\ open = {}
  /\ evento = [x \in {} |-> "mine"]
  /\ notifs = 0
  /\ mailSeq = 0
  /\ mailOpen = [m \in {} |-> NoDevice]
  /\ mail = [m \in {} |-> NoDevice]
  /\ overtaken = {}
  /\ subscribers = {}
  /\ signalled = {}
  /\ since = [d \in Devices |-> [timeline |-> 0, toDevice |-> 0]]
  /\ req = [d \in Devices |-> NoRequest]
  /\ seen = [d \in Devices |-> {}]
  /\ got = [d \in Devices |-> {}]
  /\ deleted = [d \in Devices |-> {}]
  /\ known = [d \in Devices |-> {}]

With(f, x, v) == [y \in DOMAIN f \cup {x} |-> IF y = x THEN v ELSE f[y]]
Without(f, x) == [y \in DOMAIN f \ {x} |-> f[y]]

-----------------------------------------------------------------------------
(* Writers. *)

(* SaveEvento in some transaction takes the next stream_ordering. *)
SaveEvento ==
  /\ seq < MaxOrdering
  /\ Cardinality(open) < OpenEvents
  /\ seq' = seq + 1
  /\ open' = open \cup {seq + 1}
  /\ UNCHANGED <<evento, notifs, mailbox, notifier, since, req, seen, got,
                 deleted, known>>

(* The transaction commits; trigger_notify_new_evento has sent a NOTIFY. *)
CommitEvento(x, room) ==
  /\ x \in open
  /\ open' = open \ {x}
  /\ evento' = With(evento, x, room)
  /\ notifs' = IF room = "mine" THEN notifs + 1 ELSE notifs
  /\ UNCHANGED <<seq, mailbox, notifier, since, req, seen, got, deleted, known>>

RollbackEvento(x) ==
  /\ x \in open
  /\ open' = open \ {x}
  /\ UNCHANGED <<seq, evento, notifs, mailbox, notifier, since, req, seen, got,
                 deleted, known>>

(* InsertToDeviceMessages: no trigger, hence no notification. *)
InsertToDeviceMessage(d) ==
  /\ mailSeq < MaxMail
  /\ Cardinality(DOMAIN mailOpen) < OpenMail
  /\ mailSeq' = mailSeq + 1
  /\ mailOpen' = With(mailOpen, mailSeq + 1, d)
  /\ UNCHANGED <<inserts, mail, overtaken, notifier, since, req, seen, got,
                 deleted, known>>

(* The handlers run at once: a message may commit before one with a lower id. *)
CommitToDeviceMessage(m) ==
  /\ m \in DOMAIN mailOpen
  /\ mailOpen' = Without(mailOpen, m)
  /\ mail' = With(mail, m, mailOpen[m])
  /\ overtaken' = overtaken \cup
       {n \in DOMAIN mailOpen : n < m /\ mailOpen[n] = mailOpen[m]}
  /\ UNCHANGED <<inserts, mailSeq, notifier, since, req, seen, got, deleted,
                 known>>

(* The INSERT fails; its id is not used again. *)
InsertToDeviceFails(m) ==
  /\ m \in DOMAIN mailOpen
  /\ mailOpen' = Without(mailOpen, m)
  /\ UNCHANGED <<inserts, mailSeq, mail, overtaken, notifier, since, req, seen,
                 got, deleted, known>>

-----------------------------------------------------------------------------
(* SyncClient. *)

(* The committed events of the user's room. *)
Visible == {x \in DOMAIN evento : evento[x] = "mine"}

(* SELECT ... WHERE stream_ordering > since, of GetEventsOfCanalSince and *)
(* of GetSince.                                                           *)
EventsSince(d) == {x \in Visible : x > since[d].timeline}

Serve(d, pc, r) == req[d].pc = pc /\ req' = [req EXCEPT ![d] = r]

(* A device asks, with a timeout (poll) or without. *)
SyncClient(d, poll) ==
  /\ Serve(d, "idle", [NoRequest EXCEPT !.pc = "timeline", !.poll = poll])
  /\ UNCHANGED <<inserts, mailbox, notifier, since, seen, got, deleted, known>>

GetJoinedRooms(d) ==
  /\ Serve(d, "timeline", [req[d] EXCEPT !.pc = "delete", !.fresh = EventsSince(d)])
  /\ UNCHANGED <<inserts, mailbox, notifier, since, seen, got, deleted, known>>

(* A query of GetJoinedRooms fails: it is logged, the room is left out. *)
RoomSkipped(d) ==
  /\ Serve(d, "timeline", [req[d] EXCEPT !.pc = "delete", !.fresh = {}])
  /\ UNCHANGED <<inserts, mailbox, notifier, since, seen, got, deleted, known>>

(* The oldest MailLimit messages of d behind its token. *)
GetToDeviceMessagesSince(d) ==
  LET news == {m \in DOMAIN mail : mail[m] = d /\ m > since[d].toDevice}
  IN  {m \in news : Cardinality({n \in news : n < m}) < MailLimit}

(* Mutant: the position is that of the newest message in the table. *)
MutNewestMail(d) ==
  Max({since[d].toDevice} \cup {m \in DOMAIN mail : mail[m] = d})

(* The to-device position of the answer: the last message it returns. *)
ToDevicePosition(d) ==
  Max({since[d].toDevice} \cup GetToDeviceMessagesSince(d))

(* The first query of getToDeviceSync: what the token confirms is deleted. *)
DeleteToDeviceMessagesUpTo(d) ==
  LET old == {m \in DOMAIN mail : mail[m] = d /\ m <= since[d].toDevice}
  IN  /\ Serve(d, "delete", [req[d] EXCEPT !.pc = "mail"])
      /\ mail' = [m \in DOMAIN mail \ old |-> mail[m]]
      /\ deleted' = [deleted EXCEPT ![d] = @ \cup old]
      /\ UNCHANGED <<inserts, mailSeq, mailOpen, overtaken, notifier, since, seen,
                     got, known>>

(* The response after both reads; isResponseEmpty decides whether to wait. *)
AfterReads(d, letters, position) ==
  [req[d] EXCEPT
     !.pc = IF req[d].fresh = {} /\ letters = {} /\ req[d].poll
              THEN "subscribe" ELSE "token",
     !.letters = letters,
     !.next.toDevice = position]

(* The second query of getToDeviceSync. *)
GetToDeviceSync(d) ==
  /\ Serve(d, "mail", AfterReads(d, GetToDeviceMessagesSince(d), ToDevicePosition(d)))
  /\ UNCHANGED <<inserts, mailbox, notifier, since, seen, got, deleted, known>>

(* One of the two fails: the answer goes on without messages. *)
ToDeviceSyncFails(d) ==
  /\ req[d].pc \in {"delete", "mail"}
  /\ req' = [req EXCEPT ![d] = AfterReads(d, {}, since[d].toDevice)]
  /\ UNCHANGED <<inserts, mailbox, notifier, since, seen, got, deleted, known>>

(* WaitForEvents registers the channel, then blocks. *)
WaitForEvents(d) ==
  /\ Serve(d, "subscribe", [req[d] EXCEPT !.pc = "wait"])
  /\ subscribers' = subscribers \cup {d}
  /\ known' = [known EXCEPT ![d] = DOMAIN evento]
  /\ UNCHANGED <<inserts, mailbox, signalled, since, seen, got, deleted>>

(* Mutant: the channels are forgotten and not signalled. *)
MutForget ==
  /\ notifs > 0
  /\ notifs' = notifs - 1
  /\ subscribers' = {}
  /\ UNCHANGED <<seq, open, evento, signalled, mailbox, since, req, seen, got,
                 deleted, known>>

(* StartBackgroundListener handles a NOTIFY of the user's room. *)
WakeUpUsers ==
  /\ notifs > 0
  /\ notifs' = notifs - 1
  /\ signalled' = signalled \cup subscribers
  /\ subscribers' = {}
  /\ UNCHANGED <<seq, open, evento, mailbox, since, req, seen, got, deleted, known>>

(***************************************************************************)
(* The listener's query for the members fails: nobody is signalled.  In    *)
(* the history, who waits has nothing more to hope for from what is stored.*)
(***************************************************************************)
ListenerFails ==
  /\ notifs > 0
  /\ notifs' = notifs - 1
  /\ known' = [d \in Devices |-> DOMAIN evento]
  /\ UNCHANGED <<seq, open, evento, mailbox, notifier, since, req, seen, got, deleted>>

(* Mutant: the deferred cleanup forgets the registration. *)
MutNoCleanup(d) ==
  /\ subscribers' = subscribers
  /\ signalled' = signalled \ {d}

(* The deferred cleanup of WaitForEvents. *)
Unsubscribe(d) ==
  /\ subscribers' = subscribers \ {d}
  /\ signalled' = signalled \ {d}

(* The signal: both reads run again, and the answer is sent in any case. *)
Woken(d) ==
  /\ d \in signalled
  /\ Serve(d, "wait", [req[d] EXCEPT !.pc = "timeline", !.poll = FALSE])
  /\ Unsubscribe(d)
  /\ UNCHANGED <<inserts, mailbox, since, seen, got, deleted, known>>

(* The deadline: the empty answer of before, with a token of now. *)
TimesOut(d) ==
  /\ Serve(d, "wait", [req[d] EXCEPT !.pc = "token"])
  /\ Unsubscribe(d)
  /\ UNCHANGED <<inserts, mailbox, since, seen, got, deleted, known>>

(* Mutant: the first event instead of the last. *)
MutFirstEvent(d) == Min(EventsSince(d))

(* util.GenerateNextSinceToken: the last event of a new query. *)
LastEvent(d) == Max(EventsSince(d))

(* generateNextSinceToken. *)
GenerateNextSinceToken(d) ==
  /\ IF EventsSince(d) # {}
       THEN Serve(d, "token", [req[d] EXCEPT !.pc = "respond",
                                             !.next.timeline = LastEvent(d)])
       ELSE Serve(d, "token", [req[d] EXCEPT !.pc = "max"])
  /\ UNCHANGED <<inserts, mailbox, notifier, since, seen, got, deleted, known>>

(* Its second query, over the events of every room. *)
GetMaxStreamOrdering(d) ==
  /\ Serve(d, "max", [req[d] EXCEPT
       !.pc = "respond",
       !.next.timeline = Max({since[d].timeline} \cup DOMAIN evento)])
  /\ UNCHANGED <<inserts, mailbox, notifier, since, seen, got, deleted, known>>

(* The device receives the answer and keeps next_batch. *)
Respond(d) ==
  /\ Serve(d, "respond", NoRequest)
  /\ since' = [since EXCEPT ![d] = req[d].next]
  /\ seen' = [seen EXCEPT ![d] = @ \cup req[d].fresh]
  /\ got' = [got EXCEPT ![d] = @ \cup req[d].letters]
  /\ UNCHANGED <<inserts, mailbox, notifier, deleted, known>>

(* The request fails or is cancelled, or its answer is lost. *)
Fail(d) ==
  /\ req[d].pc # "idle"
  /\ req' = [req EXCEPT ![d] = NoRequest]
  /\ Unsubscribe(d)
  /\ UNCHANGED <<inserts, mailbox, since, seen, got, deleted, known>>

-----------------------------------------------------------------------------
Write ==
  \/ SaveEvento
  \/ \E x \in open : RollbackEvento(x) \/ \E room \in Rooms : CommitEvento(x, room)
  \/ \E d \in Devices : InsertToDeviceMessage(d)
  \/ \E m \in DOMAIN mailOpen : CommitToDeviceMessage(m) \/ InsertToDeviceFails(m)

ServeStep(d) ==
  \/ GetJoinedRooms(d)
  \/ RoomSkipped(d)
  \/ DeleteToDeviceMessagesUpTo(d)
  \/ GetToDeviceSync(d)
  \/ ToDeviceSyncFails(d)
  \/ WaitForEvents(d)
  \/ Woken(d)
  \/ GenerateNextSinceToken(d)
  \/ GetMaxStreamOrdering(d)
  \/ Respond(d)

Next ==
  \/ Write
  \/ WakeUpUsers
  \/ ListenerFails
  \/ \E d \in Devices :
       \/ \E poll \in BOOLEAN : SyncClient(d, poll)
       \/ ServeStep(d)
       \/ TimesOut(d)
       \/ Fail(d)

Spec == Init /\ [][Next]_vars

(***************************************************************************)
(* The goroutines of the listener and of the requests run; no timer has to *)
(* fire.                                                                   *)
(***************************************************************************)
Fairness == WF_vars(WakeUpUsers) /\ \A d \in Devices : WF_vars(ServeStep(d))

LiveSpec == Spec /\ Fairness

-----------------------------------------------------------------------------
(* Properties. *)

(***************************************************************************)
(* No event is sent twice to a device that received the answer: the token, *)
(* which a later query computes, covers every event already received.      *)
(***************************************************************************)
NoRedelivery == \A d \in Devices : \A x \in seen[d] : x <= since[d].timeline

(***************************************************************************)
(* To-device messages are delivered at least once but for one race: what   *)
(* getToDeviceSync deletes, the device has received, unless the message    *)
(* was still being inserted when a later one of the device committed: the  *)
(* token then passes over it before anyone could read it.  A LIMIT, a lost *)
(* answer or a failed query loses none.                                    *)
(***************************************************************************)
OnlyOvertakenLost ==
  \A d \in Devices : deleted[d] \subseteq got[d] \cup overtaken

(***************************************************************************)
(* A registered long poll ends when an event arrives, without its timer,   *)
(* unless the listener failed on it: WakeUpUsers signals every channel     *)
(* before it forgets them.                                                 *)
(***************************************************************************)
SubscribersWake ==
  \A d \in Devices :
    req[d].pc = "wait" /\ ~(Visible \subseteq known[d])
      ~> req[d].pc = "idle" \/ Visible \subseteq known[d]

-----------------------------------------------------------------------------
(* What a comment of the code claims and these interleavings refute. *)

(***************************************************************************)
(* /sync is an "incremental synchronization of changes" (syncClient): what *)
(* the token of a device covers, the device has received.  The token comes *)
(* from a query made after the one that read the events.                   *)
(***************************************************************************)
NothingSkipped ==
  \A d \in Devices, x \in Visible : x <= since[d].timeline => x \in seen[d]
=============================================================================
