------------------------- MODULE SyncLongPollProofs -------------------------
(***************************************************************************)
(* Proofs about SyncLongPoll, for any devices, streams and limits.         *)
(*                                                                         *)
(* IInv is about the timeline, MailInv about the mailboxes: what a token   *)
(* confirms is received, or was overtaken by a later message.              *)
(***************************************************************************)
EXTENDS SyncLongPoll, FiniteSetTheorems, WellFoundedInduction, NaturalsInduction, TLAPS

(* What a request r of d has read, and the token it is to answer with. *)
Fresh(d, r) ==
  /\ r.pc \in {"delete", "mail", "subscribe", "wait", "token"} =>
       r.fresh \subseteq EventsSince(d)
  /\ r.pc = "max" => r.fresh = {}
  /\ r.pc = "respond" => /\ since[d].timeline <= r.next.timeline
                         /\ \A x \in r.fresh : x <= r.next.timeline

RequestsFresh == \A d \in Devices : Fresh(d, req[d])

Addressed == \A m \in DOMAIN mailOpen : mailOpen[m] \in Devices

IInv == TypeOK /\ Addressed /\ NoRedelivery /\ RequestsFresh

-----------------------------------------------------------------------------
(* Facts about the helpers. *)

(* The least upper bound of a bounded set of naturals is its maximum. *)
LEMMA MaxFacts ==
  ASSUME NEW D \in SUBSET Nat, D # {}, NEW b \in Nat, \A x \in D : x <= b
  PROVE  Max(D) \in D /\ \A x \in D : x <= Max(D)
<1> DEFINE B == {n \in Nat : \A x \in D : x <= n}
<1>1. PICK m \in B : \A y \in B : <<y, m>> \notin OpToRel(<, Nat)
  <2>1. B \subseteq Nat /\ b \in B
    OBVIOUS
  <2> QED BY <2>1, NatLessThanWellFounded, WFMin
<1>2. m \in D
  <2> SUFFICES ASSUME m \notin D PROVE FALSE
    OBVIOUS
  <2> PICK x \in D : TRUE
    OBVIOUS
  <2>1. m # 0 /\ m - 1 \in B
    OBVIOUS
  <2>2. <<m - 1, m>> \in OpToRel(<, Nat)
    BY <2>1 DEF OpToRel
  <2> QED BY <2>1, <2>2, <1>1
<1>3. \E z \in D : \A y \in D : z >= y
  BY <1>2
<1> QED BY <1>3 DEF Max

LEMMA Bounds ==
  ASSUME TypeOK
  PROVE  /\ MaxOrdering \in Nat /\ MaxMail \in Nat
         /\ seq \in Nat /\ mailSeq \in Nat
         /\ DOMAIN evento \subseteq Orderings /\ DOMAIN mail \subseteq MailIds
         /\ DOMAIN evento \subseteq 1 .. seq /\ DOMAIN mail \subseteq 1 .. mailSeq
         /\ IsFiniteSet(DOMAIN evento) /\ IsFiniteSet(DOMAIN mail)
         /\ Cardinality(DOMAIN evento) \in Nat
         /\ \A d \in Devices : /\ since[d] \in Token /\ req[d] \in Request
                               /\ since[d].timeline \in Nat
                               /\ since[d].toDevice \in Nat
                               /\ req[d].next \in Token
<1>1. MaxOrdering \in Nat /\ MaxMail \in Nat /\ seq \in Nat /\ mailSeq \in Nat
  BY SyncAssumption DEF TypeOK
<1>2. DOMAIN evento \subseteq 1 .. seq /\ DOMAIN mail \subseteq 1 .. mailSeq
  BY DEF TypeOK
<1>3. 1 .. seq \subseteq Orderings /\ 1 .. mailSeq \subseteq MailIds
  BY <1>1 DEF TypeOK, Orderings, MailIds
<1>4. IsFiniteSet(1 .. seq) /\ IsFiniteSet(1 .. mailSeq)
  BY <1>1, FS_Interval
<1>5. IsFiniteSet(DOMAIN evento) /\ IsFiniteSet(DOMAIN mail)
  BY <1>2, <1>4, FS_Subset
<1>6. Cardinality(DOMAIN evento) \in Nat
  BY <1>5, FS_CardinalityType
<1>7. ASSUME NEW d \in Devices
      PROVE  /\ since[d] \in Token /\ req[d] \in Request
             /\ since[d].timeline \in Nat /\ since[d].toDevice \in Nat
             /\ req[d].next \in Token
  BY <1>1 DEF TypeOK, Token, Request
<1> QED BY <1>1, <1>2, <1>3, <1>5, <1>6, <1>7

(* The newest event behind the token, and the newest of all. *)
LEMMA EventFacts ==
  ASSUME TypeOK, NEW d \in Devices
  PROVE  /\ EventsSince(d) \subseteq Orderings
         /\ EventsSince(d) # {} =>
              /\ LastEvent(d) \in 0 .. MaxOrdering
              /\ LastEvent(d) >= since[d].timeline
              /\ \A x \in EventsSince(d) : x <= LastEvent(d)
         /\ Max({since[d].timeline} \cup DOMAIN evento) \in 0 .. MaxOrdering
         /\ Max({since[d].timeline} \cup DOMAIN evento) >= since[d].timeline
<1>1. /\ MaxOrdering \in Nat /\ DOMAIN evento \subseteq 1 .. MaxOrdering
      /\ since[d].timeline \in 0 .. MaxOrdering
  BY Bounds DEF Orderings, Token
<1>2. EventsSince(d) \subseteq DOMAIN evento
  BY DEF EventsSince, Visible
<1>3. ASSUME EventsSince(d) # {}
      PROVE  /\ LastEvent(d) \in EventsSince(d)
             /\ \A x \in EventsSince(d) : x <= LastEvent(d)
  <2>1. EventsSince(d) \in SUBSET Nat /\ \A x \in EventsSince(d) : x <= MaxOrdering
    BY <1>1, <1>2
  <2> QED BY <1>1, <1>3, <2>1, MaxFacts DEF LastEvent
<1>4. \A x \in EventsSince(d) : x > since[d].timeline
  BY DEF EventsSince
<1> DEFINE D == {since[d].timeline} \cup DOMAIN evento
<1>5. D \in SUBSET (0 .. MaxOrdering) /\ D # {}
  BY <1>1
<1>6. D \in SUBSET Nat /\ \A x \in D : x <= MaxOrdering
  BY <1>1, <1>5
<1>7. Max(D) \in D /\ \A x \in D : x <= Max(D)
  BY <1>1, <1>5, <1>6, MaxFacts
<1>8. Max(D) \in 0 .. MaxOrdering /\ Max(D) >= since[d].timeline
  BY <1>1, <1>5, <1>7
<1> QED BY <1>1, <1>2, <1>3, <1>4, <1>8 DEF Orderings

(* The position of the mailbox. *)
LEMMA PositionFacts ==
  ASSUME TypeOK, NEW d \in Devices
  PROVE  /\ GetToDeviceMessagesSince(d) \subseteq MailIds
         /\ GetToDeviceMessagesSince(d) \subseteq DOMAIN mail
         /\ ToDevicePosition(d) \in 0 .. MaxMail
         /\ ToDevicePosition(d) \in {since[d].toDevice} \cup GetToDeviceMessagesSince(d)
<1>1. /\ MaxMail \in Nat /\ DOMAIN mail \subseteq 1 .. MaxMail
      /\ since[d].toDevice \in 0 .. MaxMail
  BY Bounds DEF MailIds, Token
<1>2. GetToDeviceMessagesSince(d) \subseteq DOMAIN mail
  BY DEF GetToDeviceMessagesSince
<1> DEFINE D == {since[d].toDevice} \cup GetToDeviceMessagesSince(d)
<1>3. D \in SUBSET (0 .. MaxMail) /\ D # {}
  BY <1>1, <1>2
<1>4. D \in SUBSET Nat /\ \A x \in D : x <= MaxMail
  BY <1>1, <1>3
<1>5. Max(D) \in D
  BY <1>1, <1>3, <1>4, MaxFacts
<1> QED BY <1>1, <1>2, <1>3, <1>5 DEF ToDevicePosition, MailIds

LEMMA NoRequestFacts ==
  NoRequest \in Request /\ NoRequest.pc = "idle"
BY SyncAssumption DEF NoRequest, Request, Token

(***************************************************************************)
(* A step of a request that leaves the token alone: the new record decides.*)
(***************************************************************************)
LEMMA ServeKeeps ==
  ASSUME IInv, NEW d \in Devices, NEW r \in Request, req' = [req EXCEPT ![d] = r],
         UNCHANGED <<inserts, mailSeq, mailOpen, overtaken, since, seen, got>>,
         DOMAIN mail' \subseteq DOMAIN mail,
         \A m \in DOMAIN mail' : mail'[m] = mail[m],
         deleted' \in [Devices -> SUBSET MailIds],
         known' \in [Devices -> SUBSET Orderings],
         subscribers' \subseteq subscribers \cup {d},
         signalled' \subseteq signalled,
         subscribers' \cap signalled' = {},
         d \in subscribers' \cup signalled' => r.pc = "wait",
         Fresh(d, r)
  PROVE  IInv'
<1>1. /\ req' \in [Devices -> Request] /\ req'[d] = r
      /\ \A e \in Devices \ {d} : req'[e] = req[e]
  BY DEF IInv, TypeOK
<1>2. subscribers' \subseteq {e \in Devices : req'[e].pc = "wait"}
  BY <1>1 DEF IInv, TypeOK
<1>3. signalled' \subseteq {e \in Devices : req'[e].pc = "wait"} \ subscribers'
  BY <1>1 DEF IInv, TypeOK
<1>4. /\ DOMAIN mail' \subseteq (1 .. mailSeq') \ DOMAIN mailOpen'
      /\ \A m \in DOMAIN mail' : mail'[m] \in Devices
  BY DEF IInv, TypeOK
<1>5. TypeOK'
  BY <1>1, <1>2, <1>3, <1>4 DEF IInv, TypeOK, inserts
<1>6. Addressed' /\ NoRedelivery'
  BY DEF IInv, Addressed, NoRedelivery
<1>7. RequestsFresh'
  <2> SUFFICES ASSUME NEW e \in Devices PROVE Fresh(e, req[e])'
    BY DEF RequestsFresh
  <2>1. EventsSince(e)' = EventsSince(e)
    BY DEF EventsSince, Visible, inserts
  <2>2. CASE e = d
    BY <1>1, <2>1, <2>2 DEF Fresh
  <2>3. CASE e # d
    <3>1. req'[e] = req[e] /\ Fresh(e, req[e])
      BY <1>1, <2>3 DEF IInv, RequestsFresh
    <3> QED BY <2>1, <3>1 DEF Fresh
  <2> QED BY <2>2, <2>3
<1> QED BY <1>5, <1>6, <1>7 DEF IInv

(* The same of a step that writes no table. *)
LEMMA ReadKeeps ==
  ASSUME IInv, NEW d \in Devices, NEW r \in Request, req' = [req EXCEPT ![d] = r],
         req[d].pc # "wait", Fresh(d, r),
         UNCHANGED <<inserts, mailbox, notifier, since, seen, got, deleted, known>>
  PROVE  IInv'
<1>1. d \notin subscribers /\ d \notin signalled /\ subscribers \cap signalled = {}
  BY DEF IInv, TypeOK
<1>2. UNCHANGED <<inserts, mailSeq, mailOpen, mail, overtaken, subscribers, signalled,
                  since, seen, got, deleted, known>>
  BY DEF mailbox, notifier
<1>3. deleted' \in [Devices -> SUBSET MailIds] /\ known' \in [Devices -> SUBSET Orderings]
  BY <1>2 DEF IInv, TypeOK
<1> QED BY <1>1, <1>2, <1>3, ServeKeeps

(* And of one that ends a wait. *)
LEMMA UnsubscribeKeeps ==
  ASSUME IInv, NEW d \in Devices, NEW r \in Request, req' = [req EXCEPT ![d] = r],
         Unsubscribe(d), Fresh(d, r),
         UNCHANGED <<inserts, mailbox, since, seen, got, deleted, known>>
  PROVE  IInv'
<1>1. /\ subscribers' = subscribers \ {d} /\ signalled' = signalled \ {d}
      /\ subscribers \cap signalled = {}
  BY DEF IInv, TypeOK, Unsubscribe
<1>2. UNCHANGED <<inserts, mailSeq, mailOpen, mail, overtaken, since, seen, got, deleted,
                  known>>
  BY DEF mailbox
<1>3. deleted' \in [Devices -> SUBSET MailIds] /\ known' \in [Devices -> SUBSET Orderings]
  BY <1>2 DEF IInv, TypeOK
<1> QED BY <1>1, <1>2, <1>3, ServeKeeps

-----------------------------------------------------------------------------
(* One lemma per action: the writers. *)

(* What the writers leave alone. *)
LEMMA WriteKeeps ==
  ASSUME IInv, UNCHANGED <<notifier, since, req, seen, got, deleted, known>>,
         seq' \in 0 .. MaxOrdering, open' \subseteq 1 .. seq',
         DOMAIN evento' \subseteq (1 .. seq') \ open',
         \A x \in DOMAIN evento' : evento'[x] \in Rooms,
         \A x \in DOMAIN evento : x \in DOMAIN evento' /\ evento'[x] = evento[x],
         notifs' \in 0 .. Cardinality(DOMAIN evento'),
         UNCHANGED mailbox
  PROVE  IInv'
<1>1. TypeOK'
  BY DEF IInv, TypeOK, notifier, mailbox
<1>2. Addressed' /\ NoRedelivery'
  BY DEF IInv, Addressed, NoRedelivery, mailbox
<1>3. ASSUME NEW e \in Devices PROVE Fresh(e, req[e])'
  <2>1. EventsSince(e) \subseteq EventsSince(e)'
    BY DEF EventsSince, Visible
  <2>2. Fresh(e, req[e])
    BY DEF IInv, RequestsFresh
  <2> QED BY <2>1, <2>2 DEF Fresh
<1> QED BY <1>1, <1>2, <1>3 DEF IInv, RequestsFresh

LEMMA EventWrites ==
  ASSUME IInv,
         SaveEvento \/ \E x \in open : RollbackEvento(x) \/ \E q \in Rooms : CommitEvento(x, q)
  PROVE  IInv'
<1>0. /\ seq \in Nat /\ seq <= MaxOrdering /\ MaxOrdering \in Nat /\ open \subseteq 1 .. seq
      /\ DOMAIN evento \subseteq (1 .. seq) \ open
      /\ notifs \in 0 .. Cardinality(DOMAIN evento)
      /\ IsFiniteSet(DOMAIN evento) /\ Cardinality(DOMAIN evento) \in Nat
  BY Bounds DEF IInv, TypeOK
<1>1. CASE SaveEvento
  <2>1. /\ seq' = seq + 1 /\ open' = open \cup {seq + 1} /\ seq < MaxOrdering
        /\ UNCHANGED <<evento, notifs, mailbox, notifier, since, req, seen, got, deleted, known>>
    BY <1>1 DEF SaveEvento
  <2>2. open' \subseteq 1 .. seq' /\ DOMAIN evento' \subseteq (1 .. seq') \ open'
    BY <1>0, <2>1
  <2>3. \A x \in DOMAIN evento' : evento'[x] \in Rooms
    BY <2>1 DEF IInv, TypeOK
  <2> QED BY <1>0, <2>1, <2>2, <2>3, WriteKeeps
<1>2. ASSUME NEW x \in open, RollbackEvento(x) PROVE IInv'
  <2>1. /\ open' = open \ {x}
        /\ UNCHANGED <<seq, evento, notifs, mailbox, notifier, since, req, seen, got,
                       deleted, known>>
    BY <1>2 DEF RollbackEvento
  <2>2. open' \subseteq 1 .. seq' /\ DOMAIN evento' \subseteq (1 .. seq') \ open'
    BY <1>0, <2>1
  <2>3. \A y \in DOMAIN evento' : evento'[y] \in Rooms
    BY <2>1 DEF IInv, TypeOK
  <2> QED BY <1>0, <2>1, <2>2, <2>3, WriteKeeps
<1>3. ASSUME NEW x \in open, NEW q \in Rooms, CommitEvento(x, q) PROVE IInv'
  <2>1. /\ open' = open \ {x} /\ evento' = With(evento, x, q)
        /\ notifs' = (IF q = "mine" THEN notifs + 1 ELSE notifs)
        /\ UNCHANGED <<seq, mailbox, notifier, since, req, seen, got, deleted, known>>
    BY <1>3 DEF CommitEvento
  <2>2. /\ DOMAIN evento' = DOMAIN evento \cup {x} /\ evento'[x] = q
        /\ \A y \in DOMAIN evento : y # x /\ evento'[y] = evento[y]
    BY <1>0, <2>1 DEF With
  <2>3. Cardinality(DOMAIN evento') = Cardinality(DOMAIN evento) + 1
    BY <1>0, <2>2, FS_AddElement
  <2>4. notifs' \in 0 .. Cardinality(DOMAIN evento')
    BY <1>0, <2>1, <2>3
  <2>5. open' \subseteq 1 .. seq' /\ DOMAIN evento' \subseteq (1 .. seq') \ open'
    BY <1>0, <2>1, <2>2
  <2>6. \A y \in DOMAIN evento' : evento'[y] \in Rooms
    BY <2>2 DEF IInv, TypeOK
  <2> QED BY <1>0, <2>1, <2>2, <2>4, <2>5, <2>6, WriteKeeps
<1> QED BY <1>1, <1>2, <1>3

LEMMA MailboxKeeps ==
  ASSUME IInv, UNCHANGED <<inserts, notifier, since, req, seen, got, deleted, known>>,
         mailSeq' \in 0 .. MaxMail, DOMAIN mailOpen' \subseteq 1 .. mailSeq',
         DOMAIN mail' \subseteq (1 .. mailSeq') \ DOMAIN mailOpen',
         \A m \in DOMAIN mail' : mail'[m] \in Devices,
         \A m \in DOMAIN mailOpen' : mailOpen'[m] \in Devices,
         overtaken' \subseteq 1 .. mailSeq'
  PROVE  IInv'
<1>1. TypeOK'
  BY DEF IInv, TypeOK, inserts, notifier
<1>2. Addressed' /\ NoRedelivery'
  BY DEF IInv, Addressed, NoRedelivery
<1>3. RequestsFresh'
  BY DEF IInv, RequestsFresh, Fresh, EventsSince, Visible, inserts
<1> QED BY <1>1, <1>2, <1>3 DEF IInv

(* The mailbox after an insert began, after it committed, and after it failed. *)
LEMMA MailWrites ==
  ASSUME IInv,
         (\E d \in Devices : InsertToDeviceMessage(d))
           \/ \E m \in DOMAIN mailOpen : CommitToDeviceMessage(m) \/ InsertToDeviceFails(m)
  PROVE  IInv'
<1>0. /\ mailSeq \in Nat /\ mailSeq <= MaxMail /\ MaxMail \in Nat
      /\ DOMAIN mailOpen \subseteq 1 .. mailSeq
      /\ DOMAIN mail \subseteq (1 .. mailSeq) \ DOMAIN mailOpen
      /\ \A m \in DOMAIN mail : mail[m] \in Devices
      /\ \A m \in DOMAIN mailOpen : mailOpen[m] \in Devices
      /\ overtaken \subseteq 1 .. mailSeq
  BY Bounds DEF IInv, TypeOK, Addressed
<1>1. ASSUME NEW d \in Devices, InsertToDeviceMessage(d) PROVE IInv'
  <2>1. /\ mailSeq < MaxMail /\ mailSeq' = mailSeq + 1
        /\ mailOpen' = With(mailOpen, mailSeq + 1, d)
        /\ UNCHANGED <<inserts, mail, overtaken, notifier, since, req, seen, got, deleted,
                       known>>
    BY <1>1 DEF InsertToDeviceMessage
  <2>2. /\ DOMAIN mailOpen' = DOMAIN mailOpen \cup {mailSeq + 1}
        /\ \A m \in DOMAIN mailOpen' : mailOpen'[m] \in Devices
    BY <1>0, <2>1 DEF With
  <2>3. /\ mailSeq' \in 0 .. MaxMail /\ DOMAIN mailOpen' \subseteq 1 .. mailSeq'
        /\ DOMAIN mail' \subseteq (1 .. mailSeq') \ DOMAIN mailOpen'
        /\ overtaken' \subseteq 1 .. mailSeq'
    BY <1>0, <2>1, <2>2
  <2> QED BY <1>0, <2>1, <2>2, <2>3, MailboxKeeps
<1>2. ASSUME NEW m \in DOMAIN mailOpen, CommitToDeviceMessage(m) PROVE IInv'
  <2>1. /\ mailOpen' = Without(mailOpen, m) /\ mail' = With(mail, m, mailOpen[m])
        /\ overtaken' \subseteq overtaken \cup DOMAIN mailOpen
        /\ UNCHANGED <<inserts, mailSeq, notifier, since, req, seen, got, deleted, known>>
    BY <1>2 DEF CommitToDeviceMessage
  <2>2. /\ DOMAIN mailOpen' = DOMAIN mailOpen \ {m} /\ DOMAIN mail' = DOMAIN mail \cup {m}
        /\ \A n \in DOMAIN mailOpen' : mailOpen'[n] \in Devices
        /\ \A n \in DOMAIN mail' : mail'[n] \in Devices
    BY <1>0, <2>1 DEF With, Without
  <2>3. /\ mailSeq' \in 0 .. MaxMail /\ DOMAIN mailOpen' \subseteq 1 .. mailSeq'
        /\ DOMAIN mail' \subseteq (1 .. mailSeq') \ DOMAIN mailOpen'
        /\ overtaken' \subseteq 1 .. mailSeq'
    BY <1>0, <2>1, <2>2
  <2> QED BY <2>1, <2>2, <2>3, MailboxKeeps
<1>3. ASSUME NEW m \in DOMAIN mailOpen, InsertToDeviceFails(m) PROVE IInv'
  <2>1. /\ mailOpen' = Without(mailOpen, m)
        /\ UNCHANGED <<inserts, mailSeq, mail, overtaken, notifier, since, req, seen, got,
                       deleted, known>>
    BY <1>3 DEF InsertToDeviceFails
  <2>2. /\ DOMAIN mailOpen' = DOMAIN mailOpen \ {m}
        /\ \A n \in DOMAIN mailOpen' : mailOpen'[n] \in Devices
    BY <1>0, <2>1 DEF Without
  <2>3. /\ mailSeq' \in 0 .. MaxMail /\ DOMAIN mailOpen' \subseteq 1 .. mailSeq'
        /\ DOMAIN mail' \subseteq (1 .. mailSeq') \ DOMAIN mailOpen'
        /\ overtaken' \subseteq 1 .. mailSeq'
        /\ \A n \in DOMAIN mail' : mail'[n] \in Devices
    BY <1>0, <2>1, <2>2
  <2> QED BY <2>1, <2>2, <2>3, MailboxKeeps
<1> QED BY <1>1, <1>2, <1>3

(* The listener handles a notification, or fails on it. *)
LEMMA ListenerStep ==
  ASSUME IInv, WakeUpUsers \/ ListenerFails
  PROVE  IInv'
<1>1. /\ notifs > 0 /\ notifs' = notifs - 1
      /\ UNCHANGED <<seq, open, evento, mailbox, since, req, seen, got, deleted>>
  BY DEF WakeUpUsers, ListenerFails
<1>2. notifs' \in 0 .. Cardinality(DOMAIN evento)
  BY <1>1, Bounds DEF IInv, TypeOK
<1>3. known' \in [Devices -> SUBSET Orderings]
  BY Bounds DEF WakeUpUsers, ListenerFails, IInv, TypeOK
<1>4. /\ subscribers' \subseteq {d \in Devices : req[d].pc = "wait"}
      /\ signalled' \subseteq {d \in Devices : req[d].pc = "wait"} \ subscribers'
  BY DEF WakeUpUsers, ListenerFails, IInv, TypeOK, notifier
<1>5. TypeOK'
  BY <1>1, <1>2, <1>3, <1>4 DEF IInv, TypeOK, mailbox
<1>6. Addressed' /\ NoRedelivery'
  BY <1>1 DEF IInv, Addressed, NoRedelivery, mailbox
<1>7. RequestsFresh'
  BY <1>1 DEF IInv, RequestsFresh, Fresh, EventsSince, Visible
<1> QED BY <1>5, <1>6, <1>7 DEF IInv

-----------------------------------------------------------------------------
(* The requests. *)

LEMMA SyncClientStep ==
  ASSUME IInv, NEW d \in Devices, NEW poll \in BOOLEAN, SyncClient(d, poll)
  PROVE  IInv'
<1> DEFINE r == [NoRequest EXCEPT !.pc = "timeline", !.poll = poll]
<1>1. /\ req[d].pc = "idle" /\ req' = [req EXCEPT ![d] = r]
      /\ UNCHANGED <<inserts, mailbox, notifier, since, seen, got, deleted, known>>
  BY DEF SyncClient, Serve
<1>2. r \in Request /\ r.pc = "timeline"
  BY NoRequestFacts DEF Request
<1> HIDE DEF r
<1>3. Fresh(d, r)
  BY <1>2 DEF Fresh
<1> QED BY <1>1, <1>2, <1>3, ReadKeeps

LEMMA TimelineStep ==
  ASSUME IInv, NEW d \in Devices, GetJoinedRooms(d) \/ RoomSkipped(d)
  PROVE  IInv'
<1>0. PICK F \in SUBSET EventsSince(d) :
        /\ req[d].pc = "timeline"
        /\ req' = [req EXCEPT ![d] = [req[d] EXCEPT !.pc = "delete", !.fresh = F]]
        /\ UNCHANGED <<inserts, mailbox, notifier, since, seen, got, deleted, known>>
  <2>1. EventsSince(d) \in SUBSET EventsSince(d) /\ {} \in SUBSET EventsSince(d)
    OBVIOUS
  <2> QED BY <2>1, Zenon DEF GetJoinedRooms, RoomSkipped, Serve
<1> DEFINE r == [req[d] EXCEPT !.pc = "delete", !.fresh = F]
<1>1. /\ req[d].pc = "timeline" /\ req' = [req EXCEPT ![d] = r]
      /\ UNCHANGED <<inserts, mailbox, notifier, since, seen, got, deleted, known>>
  BY <1>0
<1>2. req[d] \in Request /\ F \subseteq Orderings
  BY Bounds, EventFacts DEF IInv
<1>3. r \in Request /\ r.pc = "delete" /\ r.fresh = F
  BY <1>2 DEF Request
<1> HIDE DEF r
<1>4. Fresh(d, r)
  BY <1>3 DEF Fresh
<1> QED BY <1>1, <1>3, <1>4, ReadKeeps

LEMMA DeleteStep ==
  ASSUME IInv, NEW d \in Devices, DeleteToDeviceMessagesUpTo(d)
  PROVE  IInv'
<1> DEFINE r == [req[d] EXCEPT !.pc = "mail"]
           old == {m \in DOMAIN mail : mail[m] = d /\ m <= since[d].toDevice}
<1>1. /\ req[d].pc = "delete" /\ req' = [req EXCEPT ![d] = r]
      /\ mail' = [m \in DOMAIN mail \ old |-> mail[m]]
      /\ deleted' = [deleted EXCEPT ![d] = @ \cup old]
      /\ UNCHANGED <<inserts, mailSeq, mailOpen, overtaken, notifier, since, seen, got,
                     known>>
  BY DEF DeleteToDeviceMessagesUpTo, Serve
<1>2. old \subseteq MailIds /\ req[d] \in Request
  BY Bounds DEF IInv
<1>3. r \in Request /\ r.pc = "mail" /\ r.fresh = req[d].fresh
  BY <1>2 DEF Request
<1>4. /\ deleted' \in [Devices -> SUBSET MailIds] /\ known' \in [Devices -> SUBSET Orderings]
      /\ DOMAIN mail' \subseteq DOMAIN mail /\ \A m \in DOMAIN mail' : mail'[m] = mail[m]
  BY <1>1, <1>2 DEF IInv, TypeOK
<1>5. /\ UNCHANGED <<subscribers, signalled>> /\ subscribers \cap signalled = {}
      /\ d \notin subscribers \cup signalled
  BY <1>1 DEF IInv, TypeOK, notifier
<1> HIDE DEF r, old
<1>6. Fresh(d, r)
  BY <1>1, <1>3 DEF IInv, RequestsFresh, Fresh
<1> QED BY <1>1, <1>3, <1>4, <1>5, <1>6, ServeKeeps

(* The response after both reads. *)
LEMMA AfterReadsFacts ==
  ASSUME IInv, NEW d \in Devices, req[d].pc \in {"delete", "mail"},
         NEW L \in SUBSET MailIds, NEW p \in 0 .. MaxMail
  PROVE  /\ AfterReads(d, L, p) \in Request /\ Fresh(d, AfterReads(d, L, p))
         /\ AfterReads(d, L, p).pc \in {"subscribe", "token"}
         /\ AfterReads(d, L, p).letters = L
         /\ AfterReads(d, L, p).next.toDevice = p
<1> DEFINE q == IF req[d].fresh = {} /\ L = {} /\ req[d].poll THEN "subscribe" ELSE "token"
           r == AfterReads(d, L, p)
<1>1. q \in {"subscribe", "token"}
  OBVIOUS
<1>2. r = [req[d] EXCEPT !.pc = q, !.letters = L, !.next.toDevice = p]
  BY DEF AfterReads
<1> HIDE DEF q, r
<1>3. req[d] \in Request /\ req[d].next \in Token
  BY Bounds DEF IInv
<1>4. [req[d].next EXCEPT !.toDevice = p] \in Token
  BY <1>3 DEF Token
<1>5. /\ r \in Request /\ r.pc = q /\ r.fresh = req[d].fresh /\ r.letters = L
      /\ r.next.toDevice = p
  BY <1>1, <1>2, <1>3, <1>4 DEF Request, Token
<1>6. Fresh(d, r)
  BY <1>1, <1>5 DEF IInv, RequestsFresh, Fresh
<1> QED BY <1>1, <1>5, <1>6 DEF r

LEMMA MailStep ==
  ASSUME IInv, NEW d \in Devices, GetToDeviceSync(d) \/ ToDeviceSyncFails(d)
  PROVE  IInv'
<1>1. CASE GetToDeviceSync(d)
  <2> DEFINE r == AfterReads(d, GetToDeviceMessagesSince(d), ToDevicePosition(d))
  <2>1. /\ req[d].pc = "mail" /\ req' = [req EXCEPT ![d] = r]
        /\ UNCHANGED <<inserts, mailbox, notifier, since, seen, got, deleted, known>>
    BY <1>1 DEF GetToDeviceSync, Serve
  <2>2. r \in Request /\ Fresh(d, r)
    BY <2>1, PositionFacts, AfterReadsFacts DEF IInv
  <2> HIDE DEF r
  <2> QED BY <2>1, <2>2, ReadKeeps
<1>2. CASE ToDeviceSyncFails(d)
  <2> DEFINE r == AfterReads(d, {}, since[d].toDevice)
  <2>1. /\ req[d].pc \in {"delete", "mail"} /\ req' = [req EXCEPT ![d] = r]
        /\ UNCHANGED <<inserts, mailbox, notifier, since, seen, got, deleted, known>>
    BY <1>2 DEF ToDeviceSyncFails
  <2>2. since[d].toDevice \in 0 .. MaxMail
    BY Bounds DEF IInv, Token
  <2>3. r \in Request /\ Fresh(d, r)
    BY <2>1, <2>2, AfterReadsFacts
  <2> HIDE DEF r
  <2> QED BY <2>1, <2>3, ReadKeeps
<1> QED BY <1>1, <1>2

LEMMA WaitStep ==
  ASSUME IInv, NEW d \in Devices, WaitForEvents(d)
  PROVE  IInv'
<1> DEFINE r == [req[d] EXCEPT !.pc = "wait"]
<1>1. /\ req[d].pc = "subscribe" /\ req' = [req EXCEPT ![d] = r]
      /\ subscribers' = subscribers \cup {d} /\ known' = [known EXCEPT ![d] = DOMAIN evento]
      /\ UNCHANGED <<inserts, mailbox, signalled, since, seen, got, deleted>>
  BY DEF WaitForEvents, Serve
<1>2. req[d] \in Request /\ DOMAIN evento \subseteq Orderings
  BY Bounds DEF IInv
<1>3. r \in Request /\ r.pc = "wait" /\ r.fresh = req[d].fresh
  BY <1>2 DEF Request
<1>4. /\ deleted' \in [Devices -> SUBSET MailIds] /\ known' \in [Devices -> SUBSET Orderings]
      /\ UNCHANGED <<inserts, mailSeq, mailOpen, mail, overtaken, since, seen, got>>
  BY <1>1, <1>2 DEF IInv, TypeOK, mailbox
<1>5. subscribers' \cap signalled' = {}
  BY <1>1 DEF IInv, TypeOK
<1> HIDE DEF r
<1>6. Fresh(d, r)
  BY <1>1, <1>3 DEF IInv, RequestsFresh, Fresh
<1> QED BY <1>1, <1>3, <1>4, <1>5, <1>6, ServeKeeps

LEMMA WokenStep ==
  ASSUME IInv, NEW d \in Devices, Woken(d)
  PROVE  IInv'
<1> DEFINE r == [req[d] EXCEPT !.pc = "timeline", !.poll = FALSE]
<1>1. /\ req' = [req EXCEPT ![d] = r] /\ Unsubscribe(d)
      /\ UNCHANGED <<inserts, mailbox, since, seen, got, deleted, known>>
  BY DEF Woken, Serve
<1>2. r \in Request /\ r.pc = "timeline"
  BY Bounds DEF IInv, Request
<1> HIDE DEF r
<1>3. Fresh(d, r)
  BY <1>2 DEF Fresh
<1> QED BY <1>1, <1>2, <1>3, UnsubscribeKeeps

LEMMA TimeoutStep ==
  ASSUME IInv, NEW d \in Devices, TimesOut(d)
  PROVE  IInv'
<1> DEFINE r == [req[d] EXCEPT !.pc = "token"]
<1>1. /\ req[d].pc = "wait" /\ req' = [req EXCEPT ![d] = r] /\ Unsubscribe(d)
      /\ UNCHANGED <<inserts, mailbox, since, seen, got, deleted, known>>
  BY DEF TimesOut, Serve
<1>2. r \in Request /\ r.pc = "token" /\ r.fresh = req[d].fresh
  BY Bounds DEF IInv, Request
<1> HIDE DEF r
<1>3. Fresh(d, r)
  BY <1>1, <1>2 DEF IInv, RequestsFresh, Fresh
<1> QED BY <1>1, <1>2, <1>3, UnsubscribeKeeps

LEMMA FailStep ==
  ASSUME IInv, NEW d \in Devices, Fail(d)
  PROVE  IInv'
<1>1. /\ req' = [req EXCEPT ![d] = NoRequest] /\ Unsubscribe(d)
      /\ UNCHANGED <<inserts, mailbox, since, seen, got, deleted, known>>
  BY DEF Fail
<1>2. Fresh(d, NoRequest)
  BY NoRequestFacts DEF Fresh
<1> QED BY <1>1, <1>2, NoRequestFacts, UnsubscribeKeeps

(* The token is computed after the events were read, from what is then there. *)
LEMMA TokenStep ==
  ASSUME IInv, NEW d \in Devices, GenerateNextSinceToken(d)
  PROVE  IInv'
<1>1. UNCHANGED <<inserts, mailbox, notifier, since, seen, got, deleted, known>>
  BY DEF GenerateNextSinceToken
<1>2. req[d].pc = "token"
  BY DEF GenerateNextSinceToken, Serve
<1>3. req[d] \in Request /\ req[d].next \in Token /\ req[d].fresh \subseteq EventsSince(d)
  BY <1>2, Bounds DEF IInv, RequestsFresh, Fresh
<1>4. CASE EventsSince(d) # {}
  <2> DEFINE l == LastEvent(d)
             r == [req[d] EXCEPT !.pc = "respond", !.next.timeline = l]
  <2>1. req' = [req EXCEPT ![d] = r]
    BY <1>4 DEF GenerateNextSinceToken, Serve
  <2>2. /\ l \in 0 .. MaxOrdering /\ l >= since[d].timeline
        /\ \A x \in EventsSince(d) : x <= l
    BY <1>4, EventFacts DEF IInv
  <2> HIDE DEF l
  <2>3. [req[d].next EXCEPT !.timeline = l] \in Token
    BY <1>3, <2>2 DEF Token
  <2>4. /\ r \in Request /\ r.pc = "respond" /\ r.next.timeline = l
        /\ r.fresh = req[d].fresh
    BY <1>3, <2>3 DEF Request, Token
  <2> HIDE DEF r
  <2>5. since[d].timeline <= l
    BY <2>2, Bounds DEF IInv
  <2>6. Fresh(d, r)
    BY <1>3, <2>2, <2>4, <2>5 DEF Fresh
  <2> QED BY <1>1, <1>2, <2>1, <2>4, <2>6, ReadKeeps
<1>5. CASE EventsSince(d) = {}
  <2> DEFINE r == [req[d] EXCEPT !.pc = "max"]
  <2>1. req' = [req EXCEPT ![d] = r]
    BY <1>5 DEF GenerateNextSinceToken, Serve
  <2>2. r \in Request /\ r.pc = "max" /\ r.fresh = {}
    BY <1>3, <1>5 DEF Request
  <2> HIDE DEF r
  <2>3. Fresh(d, r)
    BY <2>2 DEF Fresh
  <2> QED BY <1>1, <1>2, <2>1, <2>2, <2>3, ReadKeeps
<1> QED BY <1>4, <1>5

LEMMA MaxStep ==
  ASSUME IInv, NEW d \in Devices, GetMaxStreamOrdering(d)
  PROVE  IInv'
<1> DEFINE l == Max({since[d].timeline} \cup DOMAIN evento)
           r == [req[d] EXCEPT !.pc = "respond", !.next.timeline = l]
<1>1. /\ req[d].pc = "max" /\ req' = [req EXCEPT ![d] = r]
      /\ UNCHANGED <<inserts, mailbox, notifier, since, seen, got, deleted, known>>
  BY DEF GetMaxStreamOrdering, Serve
<1>2. l \in 0 .. MaxOrdering /\ l >= since[d].timeline
  BY EventFacts DEF IInv
<1> HIDE DEF l
<1>3. req[d] \in Request /\ req[d].next \in Token /\ req[d].fresh = {}
  BY <1>1, Bounds DEF IInv, RequestsFresh, Fresh
<1>4. [req[d].next EXCEPT !.timeline = l] \in Token
  BY <1>2, <1>3 DEF Token
<1>5. r \in Request /\ r.pc = "respond" /\ r.next.timeline = l /\ r.fresh = {}
  BY <1>3, <1>4 DEF Request, Token
<1> HIDE DEF r
<1>6. since[d].timeline <= l
  BY <1>2, Bounds DEF IInv
<1>7. Fresh(d, r)
  BY <1>5, <1>6 DEF Fresh
<1> QED BY <1>1, <1>5, <1>7, ReadKeeps

(* The client keeps the token: it is not behind the old one, nor any event. *)
LEMMA RespondStep ==
  ASSUME IInv, NEW d \in Devices, Respond(d)
  PROVE  IInv'
<1>1. /\ req[d].pc = "respond" /\ req' = [req EXCEPT ![d] = NoRequest]
      /\ since' = [since EXCEPT ![d] = req[d].next]
      /\ seen' = [seen EXCEPT ![d] = @ \cup req[d].fresh]
      /\ got' = [got EXCEPT ![d] = @ \cup req[d].letters]
      /\ UNCHANGED <<inserts, mailbox, notifier, deleted, known>>
  BY DEF Respond, Serve
<1>2. /\ req[d] \in Request /\ req[d].next \in Token
      /\ req[d].fresh \subseteq Orderings /\ req[d].letters \subseteq MailIds
      /\ since[d].timeline \in Nat /\ req[d].next.timeline \in Nat
      /\ MaxOrdering \in Nat
  BY Bounds DEF IInv, Request, Token
<1>3. /\ since[d].timeline <= req[d].next.timeline
      /\ \A x \in req[d].fresh : x <= req[d].next.timeline
  BY <1>1 DEF IInv, RequestsFresh, Fresh
<1>4. TypeOK'
  <2>1. /\ req' \in [Devices -> Request] /\ since' \in [Devices -> Token]
        /\ seen' \in [Devices -> SUBSET Orderings] /\ got' \in [Devices -> SUBSET MailIds]
    BY <1>1, <1>2, NoRequestFacts DEF IInv, TypeOK
  <2>2. /\ subscribers' \subseteq {e \in Devices : req'[e].pc = "wait"}
        /\ signalled' \subseteq {e \in Devices : req'[e].pc = "wait"} \ subscribers'
    BY <1>1 DEF IInv, TypeOK, notifier
  <2> QED BY <1>1, <2>1, <2>2 DEF IInv, TypeOK, inserts, mailbox
<1>5. Addressed'
  BY <1>1 DEF IInv, Addressed, mailbox
<1>6. NoRedelivery'
  <2> SUFFICES ASSUME NEW e \in Devices, NEW x \in seen'[e] PROVE x <= since'[e].timeline
    BY DEF NoRedelivery
  <2>1. CASE e = d
    <3>1. since'[e] = req[d].next /\ x \in seen[d] \cup req[d].fresh
      BY <1>1, <2>1 DEF IInv, TypeOK
    <3>2. seen[d] \subseteq Orderings
      BY DEF IInv, TypeOK
    <3>3. x \in Nat
      BY <1>2, <3>1, <3>2 DEF Orderings
    <3>4. x \in seen[d] => x <= since[d].timeline
      BY DEF IInv, NoRedelivery
    <3> QED BY <1>2, <1>3, <3>1, <3>3, <3>4
  <2>2. CASE e # d
    BY <1>1, <2>2 DEF IInv, TypeOK, NoRedelivery
  <2> QED BY <2>1, <2>2
<1>7. RequestsFresh'
  <2> SUFFICES ASSUME NEW e \in Devices PROVE Fresh(e, req[e])'
    BY DEF RequestsFresh
  <2>1. CASE e = d
    BY <1>1, <2>1, NoRequestFacts DEF IInv, TypeOK, Fresh
  <2>2. CASE e # d
    <3>1. req'[e] = req[e] /\ since'[e] = since[e] /\ evento' = evento /\ Fresh(e, req[e])
      BY <1>1, <2>2 DEF IInv, TypeOK, RequestsFresh, inserts
    <3> QED BY <3>1 DEF Fresh, EventsSince, Visible
  <2> QED BY <2>1, <2>2
<1> QED BY <1>4, <1>5, <1>6, <1>7 DEF IInv

-----------------------------------------------------------------------------
LEMMA InitHolds ==
  ASSUME Init
  PROVE  IInv
<1>1. \A d \in Devices : req[d] = NoRequest /\ seen[d] = {}
  BY DEF Init
<1>2. [timeline |-> 0, toDevice |-> 0] \in Token
  BY SyncAssumption DEF Token
<1>3. TypeOK
  BY <1>2, NoRequestFacts, SyncAssumption, FS_EmptySet DEF Init, TypeOK
<1>4. Addressed /\ NoRedelivery
  BY <1>1 DEF Init, Addressed, NoRedelivery
<1>5. RequestsFresh
  BY <1>1, NoRequestFacts DEF RequestsFresh, Fresh
<1> QED BY <1>3, <1>4, <1>5 DEF IInv

LEMMA NextHolds ==
  ASSUME IInv, [Next]_vars
  PROVE  IInv'
<1>1. CASE Write
  BY <1>1, EventWrites, MailWrites DEF Write
<1>2. CASE WakeUpUsers \/ ListenerFails
  BY <1>2, ListenerStep
<1>3. ASSUME NEW d \in Devices, ServeStep(d) PROVE IInv'
  BY <1>3, TimelineStep, DeleteStep, MailStep, WaitStep, WokenStep, TokenStep, MaxStep,
     RespondStep DEF ServeStep
<1>4. ASSUME NEW d \in Devices,
             (\E poll \in BOOLEAN : SyncClient(d, poll)) \/ TimesOut(d) \/ Fail(d)
      PROVE  IInv'
  BY <1>4, SyncClientStep, TimeoutStep, FailStep
<1>5. CASE UNCHANGED vars
  BY <1>5 DEF IInv, TypeOK, Addressed, NoRedelivery, RequestsFresh, Fresh, EventsSince,
              Visible, vars, inserts, mailbox, notifier
<1> QED BY <1>1, <1>2, <1>3, <1>4, <1>5 DEF Next

(***************************************************************************)
(* What the requests carry is right in every reachable state, for any      *)
(* number of devices, open transactions and commits in any order.          *)
(***************************************************************************)
THEOREM Invariance == Spec => []IInv
<1>1. Init => IInv
  BY InitHolds
<1>2. IInv /\ [Next]_vars => IInv'
  BY NextHolds
<1> QED BY <1>1, <1>2, PTL DEF Spec

(***************************************************************************)
(* The tables, the channels of the notifier and the requests keep their    *)
(* types; a channel is registered or signalled, and only of a device that  *)
(* waits.                                                                  *)
(***************************************************************************)
THEOREM TypeCorrect == Spec => []TypeOK
<1>1. IInv => TypeOK
  BY DEF IInv
<1> QED BY <1>1, Invariance, PTL

(***************************************************************************)
(* The token of generateNextSinceToken comes from a query of its own, made *)
(* after the events were read; it covers them all the same, so no later    *)
(* /sync returns one of them again.                                        *)
(***************************************************************************)
THEOREM EventsAreNotRepeated == Spec => []NoRedelivery
<1>1. IInv => NoRedelivery
  BY DEF IInv
<1> QED BY <1>1, Invariance, PTL

-----------------------------------------------------------------------------
(* The mailboxes. *)

Answering == {"subscribe", "wait", "token", "max", "respond"}

(***************************************************************************)
(* Every message of d up to position p is received or among the letters L, *)
(* unless it was overtaken.                                                *)
(***************************************************************************)
Covered(d, p, L) ==
  \A m \in DOMAIN mail :
    mail[m] = d /\ m <= p => m \in got[d] \cup L \cup overtaken

(* An insert for d under way with an id up to p was overtaken. *)
Settled(d, p) ==
  /\ p <= mailSeq
  /\ \A m \in DOMAIN mailOpen : mailOpen[m] = d /\ m <= p => m \in overtaken

(* So was one that a stored message of the same device is ahead of. *)
Overtakes ==
  \A m \in DOMAIN mail, n \in DOMAIN mailOpen :
    n < m /\ mailOpen[n] = mail[m] => n \in overtaken

Delivers(d, r) ==
  r.pc \in Answering =>
    Covered(d, r.next.toDevice, r.letters) /\ Settled(d, r.next.toDevice)

MailInv ==
  /\ \A d \in Devices : Covered(d, since[d].toDevice, {}) /\ Settled(d, since[d].toDevice)
  /\ \A d \in Devices : Delivers(d, req[d])
  /\ Overtakes
  /\ OnlyOvertakenLost

(* A step of a request: the new record decides. *)
LEMMA MailServe ==
  ASSUME IInv, MailInv, NEW d \in Devices, NEW r, req' = [req EXCEPT ![d] = r],
         UNCHANGED <<mailSeq, mailOpen, overtaken, since, got>>,
         DOMAIN mail' \subseteq DOMAIN mail,
         \A m \in DOMAIN mail' : mail'[m] = mail[m],
         \A e \in Devices : deleted'[e] \subseteq got[e] \cup overtaken,
         Delivers(d, r)
  PROVE  MailInv'
<1>1. req'[d] = r /\ \A e \in Devices \ {d} : req'[e] = req[e]
  BY DEF IInv, TypeOK
<1>2. \A e \in Devices : Covered(e, since[e].toDevice, {})' /\ Settled(e, since[e].toDevice)'
  BY DEF MailInv, Covered, Settled
<1>3. ASSUME NEW e \in Devices PROVE Delivers(e, req[e])'
  <2>1. CASE e = d
    BY <1>1, <2>1 DEF Delivers, Covered, Settled
  <2>2. CASE e # d
    <3>1. req'[e] = req[e] /\ Delivers(e, req[e])
      BY <1>1, <2>2 DEF MailInv
    <3> QED BY <3>1 DEF Delivers, Covered, Settled
  <2> QED BY <2>1, <2>2
<1>4. Overtakes' /\ OnlyOvertakenLost'
  BY DEF MailInv, OnlyOvertakenLost, Overtakes
<1> QED BY <1>2, <1>3, <1>4 DEF MailInv

(* A step that keeps the messages and the position of the answer. *)
LEMMA MailCarried ==
  ASSUME IInv, MailInv, NEW d \in Devices, NEW r, req' = [req EXCEPT ![d] = r],
         UNCHANGED <<mailbox, since, got, deleted>>,
         r.pc \in Answering => /\ req[d].pc \in Answering
                               /\ r.letters = req[d].letters
                               /\ r.next.toDevice = req[d].next.toDevice
  PROVE  MailInv'
<1>1. Delivers(d, r)
  BY DEF MailInv, Delivers
<1>2. \A e \in Devices : deleted'[e] \subseteq got[e] \cup overtaken
  BY DEF MailInv, OnlyOvertakenLost
<1> QED BY <1>1, <1>2, MailServe DEF mailbox

LEMMA MailInsertStep ==
  ASSUME IInv, MailInv, NEW d \in Devices, InsertToDeviceMessage(d)
  PROVE  MailInv'
<1>0. mailSeq \in Nat /\ DOMAIN mail \subseteq 1 .. mailSeq
      /\ DOMAIN mailOpen \subseteq 1 .. mailSeq
  BY Bounds DEF IInv, TypeOK
<1>1. /\ mailSeq' = mailSeq + 1 /\ mailOpen' = With(mailOpen, mailSeq + 1, d)
      /\ UNCHANGED <<mail, overtaken, since, req, got, deleted>>
  BY DEF InsertToDeviceMessage
<1>2. /\ DOMAIN mailOpen' = DOMAIN mailOpen \cup {mailSeq + 1}
      /\ \A m \in DOMAIN mailOpen : mailOpen'[m] = mailOpen[m]
  BY <1>0, <1>1 DEF With
<1>3. \A e \in Devices, p \in Nat : Settled(e, p) => Settled(e, p)'
  BY <1>0, <1>1, <1>2 DEF Settled
<1>4. ASSUME NEW e \in Devices
      PROVE  since[e].toDevice \in Nat /\ req[e].next.toDevice \in Nat
  BY Bounds DEF IInv, Token
<1>5. \A e \in Devices : Covered(e, since[e].toDevice, {})' /\ Settled(e, since[e].toDevice)'
  BY <1>1, <1>3, <1>4 DEF MailInv, Covered
<1>6. ASSUME NEW e \in Devices PROVE Delivers(e, req[e])'
  <2>1. Delivers(e, req[e])
    BY DEF MailInv
  <2> QED BY <1>1, <1>3, <1>4, <2>1 DEF Delivers, Covered
<1>7. Overtakes'
  BY <1>0, <1>1, <1>2 DEF MailInv, Overtakes
<1>8. OnlyOvertakenLost'
  BY <1>1 DEF MailInv, OnlyOvertakenLost
<1> QED BY <1>5, <1>6, <1>7, <1>8 DEF MailInv

(***************************************************************************)
(* The message that commits is behind no token unless it was overtaken;    *)
(* those it overtakes are noted.                                           *)
(***************************************************************************)
LEMMA MailCommitStep ==
  ASSUME IInv, MailInv, NEW m \in DOMAIN mailOpen, CommitToDeviceMessage(m)
  PROVE  MailInv'
<1>0. mailSeq \in Nat /\ m \in Nat /\ DOMAIN mailOpen \subseteq 1 .. mailSeq
  BY Bounds DEF IInv, TypeOK
<1>1. /\ mailOpen' = Without(mailOpen, m) /\ mail' = With(mail, m, mailOpen[m])
      /\ overtaken' = overtaken \cup
           {n \in DOMAIN mailOpen : n < m /\ mailOpen[n] = mailOpen[m]}
      /\ UNCHANGED <<mailSeq, since, req, got, deleted>>
  BY DEF CommitToDeviceMessage
<1>2. /\ DOMAIN mailOpen' = DOMAIN mailOpen \ {m} /\ DOMAIN mail' = DOMAIN mail \cup {m}
      /\ mail'[m] = mailOpen[m]
      /\ \A n \in DOMAIN mail \ {m} : mail'[n] = mail[n]
      /\ \A n \in DOMAIN mailOpen' : mailOpen'[n] = mailOpen[n]
  BY <1>1 DEF With, Without
<1>3. ASSUME NEW e \in Devices, NEW p \in Nat, Settled(e, p)
      PROVE  /\ Settled(e, p)'
             /\ mailOpen[m] = e /\ m <= p => m \in overtaken
  BY <1>0, <1>1, <1>2, <1>3 DEF Settled
<1>4. ASSUME NEW e \in Devices
      PROVE  since[e].toDevice \in Nat /\ req[e].next.toDevice \in Nat
  BY Bounds DEF IInv, Token
<1>5. ASSUME NEW e \in Devices
      PROVE  Covered(e, since[e].toDevice, {})' /\ Settled(e, since[e].toDevice)'
  <2>1. Covered(e, since[e].toDevice, {}) /\ Settled(e, since[e].toDevice)
    BY DEF MailInv
  <2> QED BY <1>1, <1>2, <1>3, <1>4, <2>1 DEF Covered
<1>6. ASSUME NEW e \in Devices PROVE Delivers(e, req[e])'
  <2>1. Delivers(e, req[e])
    BY DEF MailInv
  <2> QED BY <1>1, <1>2, <1>3, <1>4, <2>1 DEF Delivers, Covered
<1>7. Overtakes'
  <2> SUFFICES ASSUME NEW k \in DOMAIN mail', NEW n \in DOMAIN mailOpen',
                      n < k, mailOpen'[n] = mail'[k]
               PROVE  n \in overtaken'
    BY DEF Overtakes
  <2>1. CASE k = m
    BY <1>1, <1>2, <2>1
  <2>2. CASE k # m
    BY <1>1, <1>2, <2>2 DEF MailInv, Overtakes
  <2> QED BY <2>1, <2>2
<1>8. OnlyOvertakenLost'
  BY <1>1 DEF MailInv, OnlyOvertakenLost
<1> QED BY <1>5, <1>6, <1>7, <1>8 DEF MailInv

LEMMA MailFailStep ==
  ASSUME IInv, MailInv, NEW m \in DOMAIN mailOpen, InsertToDeviceFails(m)
  PROVE  MailInv'
<1>1. /\ mailOpen' = Without(mailOpen, m)
      /\ UNCHANGED <<mailSeq, mail, overtaken, since, req, got, deleted>>
  BY DEF InsertToDeviceFails
<1>2. /\ DOMAIN mailOpen' \subseteq DOMAIN mailOpen
      /\ \A n \in DOMAIN mailOpen' : mailOpen'[n] = mailOpen[n]
  BY <1>1 DEF Without
<1>3. \A e \in Devices : Covered(e, since[e].toDevice, {})' /\ Settled(e, since[e].toDevice)'
  BY <1>1, <1>2 DEF MailInv, Covered, Settled
<1>4. ASSUME NEW e \in Devices PROVE Delivers(e, req[e])'
  <2>1. Delivers(e, req[e])
    BY DEF MailInv
  <2> QED BY <1>1, <1>2, <2>1 DEF Delivers, Covered, Settled
<1>5. Overtakes' /\ OnlyOvertakenLost'
  BY <1>1, <1>2 DEF MailInv, Overtakes, OnlyOvertakenLost
<1> QED BY <1>3, <1>4, <1>5 DEF MailInv

LEMMA MailDeleteStep ==
  ASSUME IInv, MailInv, NEW d \in Devices, DeleteToDeviceMessagesUpTo(d)
  PROVE  MailInv'
<1> DEFINE r == [req[d] EXCEPT !.pc = "mail"]
           old == {m \in DOMAIN mail : mail[m] = d /\ m <= since[d].toDevice}
<1>1. /\ req' = [req EXCEPT ![d] = r]
      /\ mail' = [m \in DOMAIN mail \ old |-> mail[m]]
      /\ deleted' = [deleted EXCEPT ![d] = @ \cup old]
      /\ UNCHANGED <<mailSeq, mailOpen, overtaken, since, got>>
  BY DEF DeleteToDeviceMessagesUpTo, Serve
<1>2. r.pc = "mail"
  BY Bounds DEF IInv, Request
<1>3. old \subseteq got[d] \cup overtaken
  BY DEF MailInv, Covered
<1>4. \A e \in Devices : deleted'[e] \subseteq got[e] \cup overtaken
  BY <1>1, <1>3 DEF IInv, TypeOK, MailInv, OnlyOvertakenLost
<1>5. DOMAIN mail' \subseteq DOMAIN mail /\ \A m \in DOMAIN mail' : mail'[m] = mail[m]
  BY <1>1
<1> HIDE DEF r, old
<1>6. Delivers(d, r)
  BY <1>2 DEF Delivers, Answering
<1> QED BY <1>1, <1>4, <1>5, <1>6, MailServe

(***************************************************************************)
(* LIMIT takes the oldest messages: none up to the last of them is left    *)
(* out.  The last is stored, hence those still under way it overtook.      *)
(***************************************************************************)
LEMMA LimitFacts ==
  ASSUME IInv, MailInv, NEW d \in Devices
  PROVE  /\ Covered(d, ToDevicePosition(d), GetToDeviceMessagesSince(d))
         /\ Settled(d, ToDevicePosition(d))
<1> DEFINE p == ToDevicePosition(d)
           L == GetToDeviceMessagesSince(d)
           s == since[d].toDevice
           news == {m \in DOMAIN mail : mail[m] = d /\ m > s}
<1>0. /\ mailSeq \in Nat /\ s \in Nat /\ DOMAIN mail \subseteq 1 .. mailSeq
      /\ DOMAIN mail \subseteq (1 .. mailSeq) \ DOMAIN mailOpen
      /\ IsFiniteSet(DOMAIN mail)
      /\ DOMAIN mailOpen \subseteq 1 .. mailSeq /\ Overtakes
  BY Bounds DEF IInv, TypeOK, MailInv
<1>1. Covered(d, s, {}) /\ Settled(d, s)
  BY DEF MailInv
<1>2. L = {m \in news : Cardinality({n \in news : n < m}) < MailLimit}
  BY DEF GetToDeviceMessagesSince
<1>3. p \in {s} \cup L
  BY PositionFacts DEF IInv
<1>4. Settled(d, p)
  <2>1. CASE p = s
    BY <1>1, <2>1
  <2>2. CASE p \in L
    <3>1. p \in DOMAIN mail /\ mail[p] = d /\ p \in 1 .. mailSeq
      BY <1>0, <1>2, <2>2
    <3>2. \A n \in DOMAIN mailOpen : n <= p => n < p
      BY <1>0, <3>1
    <3> HIDE DEF p
    <3> QED BY <1>0, <3>1, <3>2 DEF Settled, Overtakes
  <2> QED BY <1>3, <2>1, <2>2
<1>5. Covered(d, p, L)
  <2> SUFFICES ASSUME NEW m \in DOMAIN mail, mail[m] = d, m <= p
               PROVE  m \in got[d] \cup L \cup overtaken
    BY DEF Covered
  <2>1. CASE m <= s
    BY <1>1, <2>1 DEF Covered
  <2>2. CASE ~(m <= s)
    <3>1. p \in L /\ m \in news /\ m \in Nat /\ p \in Nat
      BY <1>0, <1>2, <1>3, <2>2
    <3> DEFINE A == {n \in news : n < m}
               B == {n \in news : n < p}
    <3>2. A \subseteq B /\ B \subseteq DOMAIN mail
      BY <1>0, <3>1
    <3>3. IsFiniteSet(B)
      BY <1>0, <3>2, FS_Subset
    <3>4. IsFiniteSet(A) /\ Cardinality(A) <= Cardinality(B)
      BY <3>2, <3>3, FS_Subset
    <3>5. Cardinality(A) \in Nat /\ Cardinality(B) \in Nat
      BY <3>3, <3>4, FS_CardinalityType
    <3>6. Cardinality(B) < MailLimit
      BY <1>2, <3>1
    <3>7. Cardinality(A) < MailLimit
      BY <3>4, <3>5, <3>6, SyncAssumption
    <3> QED BY <1>2, <3>1, <3>7
  <2> QED BY <2>1, <2>2
<1> QED BY <1>4, <1>5

LEMMA MailReadStep ==
  ASSUME IInv, MailInv, NEW d \in Devices, GetToDeviceSync(d) \/ ToDeviceSyncFails(d)
  PROVE  MailInv'
<1>0. /\ UNCHANGED <<mailbox, since, got, deleted>> /\ req[d].pc \in {"delete", "mail"}
      /\ \A e \in Devices : deleted'[e] \subseteq got[e] \cup overtaken
  BY DEF GetToDeviceSync, ToDeviceSyncFails, Serve, MailInv, OnlyOvertakenLost
<1>1. CASE GetToDeviceSync(d)
  <2> DEFINE r == AfterReads(d, GetToDeviceMessagesSince(d), ToDevicePosition(d))
  <2>1. req' = [req EXCEPT ![d] = r]
    BY <1>1 DEF GetToDeviceSync, Serve
  <2>2. r.letters = GetToDeviceMessagesSince(d) /\ r.next.toDevice = ToDevicePosition(d)
    BY <1>0, PositionFacts, AfterReadsFacts DEF IInv
  <2> HIDE DEF r
  <2>3. Delivers(d, r)
    BY <2>2, LimitFacts DEF Delivers
  <2> QED BY <1>0, <2>1, <2>3, MailServe DEF mailbox
<1>2. CASE ToDeviceSyncFails(d)
  <2> DEFINE r == AfterReads(d, {}, since[d].toDevice)
  <2>1. req' = [req EXCEPT ![d] = r]
    BY <1>2 DEF ToDeviceSyncFails
  <2>2. since[d].toDevice \in 0 .. MaxMail
    BY Bounds DEF IInv, Token
  <2>3. r.letters = {} /\ r.next.toDevice = since[d].toDevice
    BY <1>0, <2>2, AfterReadsFacts
  <2> HIDE DEF r
  <2>4. Delivers(d, r)
    BY <2>3 DEF Delivers, MailInv
  <2> QED BY <1>0, <2>1, <2>4, MailServe DEF mailbox
<1> QED BY <1>1, <1>2

LEMMA MailRespondStep ==
  ASSUME IInv, MailInv, NEW d \in Devices, Respond(d)
  PROVE  MailInv'
<1>1. /\ req[d].pc = "respond" /\ req' = [req EXCEPT ![d] = NoRequest]
      /\ since' = [since EXCEPT ![d] = req[d].next]
      /\ got' = [got EXCEPT ![d] = @ \cup req[d].letters]
      /\ UNCHANGED <<mailSeq, mailOpen, mail, overtaken, deleted>>
  BY DEF Respond, Serve, mailbox
<1>2. /\ Covered(d, req[d].next.toDevice, req[d].letters)
      /\ Settled(d, req[d].next.toDevice)
  BY <1>1 DEF MailInv, Delivers, Answering
<1>3. /\ req'[d] = NoRequest /\ since'[d] = req[d].next
      /\ got'[d] = got[d] \cup req[d].letters
      /\ \A e \in Devices \ {d} : req'[e] = req[e] /\ since'[e] = since[e] /\ got'[e] = got[e]
  BY <1>1 DEF IInv, TypeOK
<1>4. ASSUME NEW e \in Devices
      PROVE  Covered(e, since[e].toDevice, {})' /\ Settled(e, since[e].toDevice)'
  <2>1. CASE e = d
    BY <1>1, <1>2, <1>3, <2>1 DEF Covered, Settled
  <2>2. CASE e # d
    <3>1. Covered(e, since[e].toDevice, {}) /\ Settled(e, since[e].toDevice)
      BY DEF MailInv
    <3> QED BY <1>1, <1>3, <2>2, <3>1 DEF Covered, Settled
  <2> QED BY <2>1, <2>2
<1>5. ASSUME NEW e \in Devices PROVE Delivers(e, req[e])'
  <2>1. CASE e = d
    BY <1>3, <2>1, NoRequestFacts DEF Delivers, Answering
  <2>2. CASE e # d
    <3>1. Delivers(e, req[e])
      BY DEF MailInv
    <3> QED BY <1>1, <1>3, <2>2, <3>1 DEF Delivers, Covered, Settled
  <2> QED BY <2>1, <2>2
<1>6. Overtakes' /\ OnlyOvertakenLost'
  BY <1>1, <1>3 DEF MailInv, OnlyOvertakenLost, Overtakes
<1> QED BY <1>4, <1>5, <1>6 DEF MailInv

(* The other steps of a request leave the mailbox and what was read of it. *)
LEMMA MailOtherSteps ==
  ASSUME IInv, MailInv, NEW d \in Devices,
         \/ \E poll \in BOOLEAN : SyncClient(d, poll)
         \/ GetJoinedRooms(d) \/ RoomSkipped(d)
         \/ WaitForEvents(d) \/ Woken(d) \/ TimesOut(d)
         \/ GenerateNextSinceToken(d) \/ GetMaxStreamOrdering(d) \/ Fail(d)
  PROVE  MailInv'
<1>0. req[d] \in Request /\ req[d].next \in Token
  BY Bounds DEF IInv
<1>1. UNCHANGED <<mailbox, since, got, deleted>>
  BY DEF SyncClient, GetJoinedRooms, RoomSkipped, WaitForEvents, Woken, TimesOut,
         GenerateNextSinceToken, GetMaxStreamOrdering, Fail
<1>2. ASSUME NEW poll \in BOOLEAN, SyncClient(d, poll) PROVE MailInv'
  <2> DEFINE r == [NoRequest EXCEPT !.pc = "timeline", !.poll = poll]
  <2>1. req' = [req EXCEPT ![d] = r] /\ r.pc = "timeline"
    BY <1>2, NoRequestFacts DEF SyncClient, Serve, Request
  <2> QED BY <1>1, <2>1, MailCarried DEF Answering
<1>3. CASE GetJoinedRooms(d)
  <2> DEFINE r == [req[d] EXCEPT !.pc = "delete", !.fresh = EventsSince(d)]
  <2>1. req' = [req EXCEPT ![d] = r] /\ r.pc = "delete"
    BY <1>0, <1>3 DEF GetJoinedRooms, Serve, Request
  <2> QED BY <1>1, <2>1, MailCarried DEF Answering
<1>4. CASE WaitForEvents(d)
  <2> DEFINE r == [req[d] EXCEPT !.pc = "wait"]
  <2>1. req[d].pc = "subscribe" /\ req' = [req EXCEPT ![d] = r]
    BY <1>4 DEF WaitForEvents, Serve
  <2>2. r.letters = req[d].letters /\ r.next = req[d].next
    BY <1>0 DEF Request
  <2> QED BY <1>1, <2>1, <2>2, MailCarried DEF Answering
<1>5. CASE Woken(d)
  <2> DEFINE r == [req[d] EXCEPT !.pc = "timeline", !.poll = FALSE]
  <2>1. req' = [req EXCEPT ![d] = r] /\ r.pc = "timeline"
    BY <1>0, <1>5 DEF Woken, Serve, Request
  <2> QED BY <1>1, <2>1, MailCarried DEF Answering
<1>6. CASE TimesOut(d)
  <2> DEFINE r == [req[d] EXCEPT !.pc = "token"]
  <2>1. req[d].pc = "wait" /\ req' = [req EXCEPT ![d] = r]
    BY <1>6 DEF TimesOut, Serve
  <2>2. r.letters = req[d].letters /\ r.next = req[d].next
    BY <1>0 DEF Request
  <2> QED BY <1>1, <2>1, <2>2, MailCarried DEF Answering
<1>7. CASE GenerateNextSinceToken(d) /\ EventsSince(d) = {}
  <2> DEFINE r == [req[d] EXCEPT !.pc = "max"]
  <2>1. req[d].pc = "token" /\ req' = [req EXCEPT ![d] = r]
    BY <1>7 DEF GenerateNextSinceToken, Serve
  <2>2. r.letters = req[d].letters /\ r.next = req[d].next
    BY <1>0 DEF Request
  <2> QED BY <1>1, <2>1, <2>2, MailCarried DEF Answering
<1>8. ASSUME req[d].pc \in {"token", "max"},
             \E l : req' = [req EXCEPT ![d] = [req[d] EXCEPT !.pc = "respond",
                                                             !.next.timeline = l]]
      PROVE  MailInv'
  <2> PICK l : req' = [req EXCEPT ![d] = [req[d] EXCEPT !.pc = "respond",
                                                        !.next.timeline = l]]
    BY <1>8
  <2> DEFINE r == [req[d] EXCEPT !.pc = "respond", !.next.timeline = l]
  <2>1. r.letters = req[d].letters /\ r.next.toDevice = req[d].next.toDevice
    BY <1>0 DEF Request, Token
  <2>2. req' = [req EXCEPT ![d] = r] /\ req[d].pc \in Answering
    BY <1>8 DEF Answering
  <2> HIDE DEF r
  <2> QED BY <1>1, <2>1, <2>2, MailCarried
<1>9. CASE GenerateNextSinceToken(d) /\ EventsSince(d) # {}
  <2>1. req[d].pc = "token"
    BY <1>9 DEF GenerateNextSinceToken, Serve
  <2>2. req' = [req EXCEPT ![d] = [req[d] EXCEPT !.pc = "respond",
                                                 !.next.timeline = LastEvent(d)]]
    BY <1>9 DEF GenerateNextSinceToken, Serve
  <2>3. \E l : req' = [req EXCEPT ![d] = [req[d] EXCEPT !.pc = "respond",
                                                        !.next.timeline = l]]
    BY <2>2, Zenon
  <2> QED BY <1>8, <2>1, <2>3
<1>10. CASE GetMaxStreamOrdering(d)
  <2>1. req[d].pc = "max"
    BY <1>10 DEF GetMaxStreamOrdering, Serve
  <2>2. req' = [req EXCEPT ![d] = [req[d] EXCEPT
                  !.pc = "respond",
                  !.next.timeline = Max({since[d].timeline} \cup DOMAIN evento)]]
    BY <1>10 DEF GetMaxStreamOrdering, Serve
  <2>3. \E l : req' = [req EXCEPT ![d] = [req[d] EXCEPT !.pc = "respond",
                                                        !.next.timeline = l]]
    BY <2>2, Zenon
  <2> QED BY <1>8, <2>1, <2>3
<1>11. CASE Fail(d)
  BY <1>1, <1>11, NoRequestFacts, MailCarried DEF Fail, Answering
<1>12. CASE RoomSkipped(d)
  <2> DEFINE r == [req[d] EXCEPT !.pc = "delete", !.fresh = {}]
  <2>1. req' = [req EXCEPT ![d] = r] /\ r.pc = "delete"
    BY <1>0, <1>12 DEF RoomSkipped, Serve, Request
  <2> QED BY <1>1, <2>1, MailCarried DEF Answering
<1> QED BY <1>2, <1>3, <1>4, <1>5, <1>6, <1>7, <1>9, <1>10, <1>11, <1>12

LEMMA MailNext ==
  ASSUME IInv, MailInv, [Next]_vars
  PROVE  MailInv'
<1>1. CASE UNCHANGED <<mailbox, since, req, got, deleted>>
  BY <1>1 DEF MailInv, Covered, Settled, Delivers, Overtakes, OnlyOvertakenLost, mailbox
<1>2. CASE Write
  BY <1>1, <1>2, MailInsertStep, MailCommitStep, MailFailStep
     DEF Write, SaveEvento, RollbackEvento, CommitEvento
<1>3. CASE WakeUpUsers \/ ListenerFails
  BY <1>1, <1>3 DEF WakeUpUsers, ListenerFails
<1>4. ASSUME NEW d \in Devices, ServeStep(d) PROVE MailInv'
  BY <1>4, MailDeleteStep, MailReadStep, MailRespondStep, MailOtherSteps DEF ServeStep
<1>5. ASSUME NEW d \in Devices,
             (\E poll \in BOOLEAN : SyncClient(d, poll)) \/ TimesOut(d) \/ Fail(d)
      PROVE  MailInv'
  BY <1>5, MailOtherSteps
<1>6. CASE UNCHANGED vars
  BY <1>1, <1>6 DEF vars
<1> QED BY <1>2, <1>3, <1>4, <1>5, <1>6 DEF Next

LEMMA MailInit ==
  ASSUME Init
  PROVE  MailInv
BY NoRequestFacts, SyncAssumption
   DEF Init, MailInv, Covered, Settled, Delivers, Answering, Overtakes, OnlyOvertakenLost

(***************************************************************************)
(* Whatever the limit, the failures and the answers lost, and in whatever  *)
(* order inserts commit: a message DeleteToDeviceMessagesUpTo deletes was  *)
(* received, or a later message of its device committed while it was still *)
(* being inserted.  That race is the only way to lose one.                 *)
(***************************************************************************)
THEOREM MessagesAreDelivered == Spec => []OnlyOvertakenLost
<1>1. Init => MailInv
  BY MailInit
<1>2. IInv /\ MailInv /\ [Next]_vars => MailInv'
  BY MailNext
<1>3. MailInv => OnlyOvertakenLost
  BY DEF MailInv
<1> QED BY <1>1, <1>2, <1>3, Invariance, PTL DEF Spec

=============================================================================
