-------------------------- MODULE FederationOutbox --------------------------
(***************************************************************************)
(* How an event that QueueOutgoing announces reaches the other servers.    *)
(*                                                                         *)
(* The event waits in a Redis list until the one worker takes it out, asks *)
(* the database which servers take part in the room, and starts one        *)
(* goroutine per server.  A goroutine tries a bounded number of times and  *)
(* then parks the event in a Redis list of that server, which is emptied   *)
(* when that server sends a PDU.  The list survives a restart, the worker  *)
(* and the goroutines do not.                                              *)
(***************************************************************************)
EXTENDS Integers, Sequences, FiniteSets, FiniteSetsExt

CONSTANTS
  Events,      \* events that local requests announce
  Servers,     \* the other servers
  Target,      \* event -> the server of the user an invite, leave, ban or
               \* knock is about, as a set; {} for any other event
  MaxRetries,  \* maxRetries of sendWithRetry
  MaxCopies    \* bound: a push is applied at most this often

ASSUME OutboxAssumption ==
  /\ Target \in [Events -> SUBSET Servers]
  /\ MaxRetries \in Nat
  /\ MaxCopies \in Nat

VARIABLES
  queue,       \* dragonite:fed:outbound_queue
  popped,      \* the event the worker holds: {} or {e}
  sends,       \* <<e, d, n>> -> goroutines that failed n times to send e to d
  pending,     \* server -> event -> copies in dragonite:fed:retries:server
  announced,   \* history: event -> how often its push was applied (-1: never ran)
  dispatched,  \* history: events the worker started goroutines for
  owed,        \* history: <<e, d>>, e was addressed to d
  acked,       \* history: <<e, d>>, d answered 2xx to e
  dropped,     \* history: events a fault took before they were addressed
  lost         \* history: <<e, d>> that a fault took afterwards

redis   == <<queue, pending>>
memory  == <<popped, sends>>
history == <<announced, dispatched, owed, acked, dropped, lost>>
vars    == <<redis, memory, history>>

Tries == 0 .. MaxRetries
Jobs  == Events \X Servers \X Tries

TypeOK ==
  /\ queue \in Seq(Events)
  /\ popped \subseteq Events
  /\ \A e, f \in popped : e = f
  /\ sends \in [Jobs -> Nat]
  /\ pending \in [Servers -> [Events -> Nat]]
  /\ announced \in [Events -> -1 .. MaxCopies]
  /\ dispatched \subseteq Events
  /\ owed \subseteq Events \X Servers
  /\ acked \subseteq Events \X Servers
  /\ dropped \subseteq Events
  /\ lost \subseteq Events \X Servers

Init ==
  /\ queue = <<>>
  /\ popped = {}
  /\ sends = [j \in Jobs |-> 0]
  /\ pending = [d \in Servers |-> [e \in Events |-> 0]]
  /\ announced = [e \in Events |-> -1]
  /\ dispatched = {}
  /\ owed = {}
  /\ acked = {}
  /\ dropped = {}
  /\ lost = {}

-----------------------------------------------------------------------------
(* The outbound queue. *)

(***************************************************************************)
(* RPUSH.  It may fail, and the Redis client, which repeats a command whose *)
(* reply is lost, may apply it more than once.                              *)
(***************************************************************************)
PushOutboundQueue(e, n) == queue' = queue \o [i \in 1 .. n |-> e]

QueueOutgoing(e, n) ==
  /\ announced[e] = -1
  /\ announced' = [announced EXCEPT ![e] = n]
  /\ PushOutboundQueue(e, n)
  /\ UNCHANGED <<pending, memory, dispatched, owed, acked, dropped, lost>>

(* Mutant: a second worker takes an event while one is being expanded. *)
MutTwoWorkers ==
  /\ queue # <<>>
  /\ popped' = popped \cup {Head(queue)}
  /\ queue' = Tail(queue)
  /\ UNCHANGED <<pending, sends, history>>

(* Mutant: the worker returns after its first event. *)
MutOneEvent ==
  /\ popped = {} /\ dispatched = {}
  /\ queue # <<>>
  /\ popped' = {Head(queue)}
  /\ queue' = Tail(queue)
  /\ UNCHANGED <<pending, sends, history>>

(* BLPOP, the first step of the worker's loop. *)
PopOutboundQueue ==
  /\ popped = {}
  /\ queue # <<>>
  /\ popped' = {Head(queue)}
  /\ queue' = Tail(queue)
  /\ UNCHANGED <<pending, sends, history>>

(* The servers of the joined and invited users and of the event's target. *)
ExtractDestinations(e, participants) == participants \cup Target[e]

(* One goroutine per destination. *)
Start(e, D) ==
  sends' = [j \in Jobs |->
              sends[j] + IF j[1] = e /\ j[2] \in D /\ j[3] = 0 THEN 1 ELSE 0]

(* The rest of the loop; the participants are read now, not when e was sent. *)
StartWorker(e, participants) ==
  LET D == ExtractDestinations(e, participants)
  IN  /\ e \in popped
      /\ popped' = {}
      /\ Start(e, D)
      /\ dispatched' = dispatched \cup {e}
      /\ owed' = owed \cup ({e} \X D)
      /\ UNCHANGED <<redis, announced, acked, dropped, lost>>

-----------------------------------------------------------------------------
(* sendWithRetry. *)

(* Mutant: an exhausted goroutine ends without parking its event. *)
MutGiveUp(e, d) ==
  /\ sends[<<e, d, MaxRetries>>] > 0
  /\ sends' = [sends EXCEPT ![<<e, d, MaxRetries>>] = @ - 1]
  /\ UNCHANGED <<redis, popped, history>>

(* A 2xx answer, which says nothing of whether d ingested the event. *)
SendAccepted(e, d, n) ==
  /\ n < MaxRetries
  /\ sends[<<e, d, n>>] > 0
  /\ sends' = [sends EXCEPT ![<<e, d, n>>] = @ - 1]
  /\ acked' = acked \cup {<<e, d>>}
  /\ UNCHANGED <<redis, popped, announced, dispatched, owed, dropped, lost>>

(* No answer in 15 s, or another status; d may have ingested the event. *)
SendFailed(e, d, n) ==
  /\ n < MaxRetries
  /\ sends[<<e, d, n>>] > 0
  /\ sends' = [sends EXCEPT ![<<e, d, n>>] = @ - 1, ![<<e, d, n + 1>>] = @ + 1]
  /\ UNCHANGED <<redis, popped, history>>

StorePendingRetry(e, d) ==
  /\ sends[<<e, d, MaxRetries>>] > 0
  /\ sends' = [sends EXCEPT ![<<e, d, MaxRetries>>] = @ - 1]
  /\ pending' = [pending EXCEPT ![d][e] = @ + 1]
  /\ UNCHANGED <<queue, popped, history>>

(* Mutant: the LRANGE without the DEL. *)
MutFlushKeeps(d) ==
  /\ \E e \in Events : pending[d][e] > 0
  /\ sends' = [j \in Jobs |->
                 sends[j] + IF j[2] = d /\ j[3] = 0 THEN pending[d][j[1]] ELSE 0]
  /\ UNCHANGED <<redis, popped, history>>

(* Mutant: the list is read and put back. *)
MutPutBack(d) ==
  /\ \E e \in Events : pending[d][e] > 0
  /\ UNCHANGED vars

(* An inbound PDU of server d: LRANGE and DEL, and a goroutine per event. *)
FlushPendingRetries(d) ==
  /\ \E e \in Events : pending[d][e] > 0
  /\ sends' = [j \in Jobs |->
                 sends[j] + IF j[2] = d /\ j[3] = 0 THEN pending[d][j[1]] ELSE 0]
  /\ pending' = [pending EXCEPT ![d] = [e \in Events |-> 0]]
  /\ UNCHANGED <<queue, popped, history>>

-----------------------------------------------------------------------------
(* Faults. *)

(* The pairs some goroutine carries. *)
Flying == {p \in Events \X Servers : \E n \in Tries : sends[<<p[1], p[2], n>>] > 0}

(* The process stops: nothing recovers what was in its memory. *)
Crash ==
  /\ popped # {} \/ Flying # {}
  /\ dropped' = dropped \cup popped
  /\ lost' = lost \cup Flying
  /\ popped' = {}
  /\ sends' = [j \in Jobs |-> 0]
  /\ UNCHANGED <<redis, announced, dispatched, owed, acked>>

(* BLPOP removes the head, but its reply does not arrive. *)
PopFails ==
  /\ popped = {}
  /\ queue # <<>>
  /\ queue' = Tail(queue)
  /\ dropped' = dropped \cup {Head(queue)}
  /\ UNCHANGED <<pending, memory, announced, dispatched, owed, acked, lost>>

(* The participants cannot be read: only the target is addressed. *)
ExtractFails(e, participants) ==
  LET D == ExtractDestinations(e, {})
  IN  /\ e \in popped
      /\ popped' = {}
      /\ Start(e, D)
      /\ dispatched' = dispatched \cup {e}
      /\ owed' = owed \cup ({e} \X (participants \cup D))
      /\ lost' = lost \cup ({e} \X (participants \ D))
      /\ UNCHANGED <<redis, announced, acked, dropped>>

(* ResolveServerName fails before the first try, or SavePendingRetry after *)
(* the last.                                                               *)
GoroutineFails(e, d, n) ==
  /\ n \in {0, MaxRetries}
  /\ sends[<<e, d, n>>] > 0
  /\ sends' = [sends EXCEPT ![<<e, d, n>>] = @ - 1]
  /\ lost' = lost \cup {<<e, d>>}
  /\ UNCHANGED <<redis, popped, announced, dispatched, owed, acked, dropped>>

(* The list of d reaches its TTL, or is cleared and the reply is lost. *)
PendingVanishes(d) ==
  /\ \E e \in Events : pending[d][e] > 0
  /\ lost' = lost \cup ({e \in Events : pending[d][e] > 0} \X {d})
  /\ pending' = [pending EXCEPT ![d] = [e \in Events |-> 0]]
  /\ UNCHANGED <<queue, memory, announced, dispatched, owed, acked, dropped>>

-----------------------------------------------------------------------------
Announce == \E e \in Events, n \in 0 .. MaxCopies : QueueOutgoing(e, n)

Dispatch ==
  \/ PopOutboundQueue
  \/ \E e \in Events, participants \in SUBSET Servers :
       StartWorker(e, participants)

Send(e, d) ==
  \/ \E n \in Tries : SendAccepted(e, d, n) \/ SendFailed(e, d, n)
  \/ StorePendingRetry(e, d)

Work ==
  \/ Announce
  \/ Dispatch
  \/ \E e \in Events, d \in Servers : Send(e, d)
  \/ \E d \in Servers : FlushPendingRetries(d)

Fault ==
  \/ Crash
  \/ PopFails
  \/ \E e \in Events, participants \in SUBSET Servers :
       ExtractFails(e, participants)
  \/ \E e \in Events, d \in Servers, n \in Tries : GoroutineFails(e, d, n)
  \/ \E d \in Servers : PendingVanishes(d)

Next == Work \/ Fault

Spec == Init /\ [][Next]_vars

(***************************************************************************)
(* What the code's own scheduling guarantees: the worker loops, and every  *)
(* goroutine runs to its end unless a fault ends it.                       *)
(***************************************************************************)
CodeFairness ==
  /\ WF_vars(Dispatch)
  /\ \A e \in Events, d \in Servers : WF_vars(Send(e, d))

LiveSpec == Spec /\ CodeFairness

(***************************************************************************)
(* What the other servers must add: they keep sending us PDUs, and one     *)
(* that is asked again and again answers at last.                          *)
(***************************************************************************)
PeerFairness ==
  /\ \A e \in Events, d \in Servers :
       SF_vars(\E n \in Tries : SendAccepted(e, d, n))
  /\ \A d \in Servers : WF_vars(FlushPendingRetries(d))

-----------------------------------------------------------------------------
(* Properties. *)

(***************************************************************************)
(* Only a fault loses an event: what was pushed is in the queue, with the  *)
(* worker or dispatched, and what was addressed to a server is with a      *)
(* goroutine, parked for that server or acknowledged by it.                *)
(***************************************************************************)
NothingVanishes ==
  /\ \A e \in Events :
       announced[e] > 0 => e \in Range(queue) \cup popped \cup dispatched \cup dropped
  /\ \A p \in owed : p \in acked \cup lost \cup Flying \/ pending[p[2]][p[1]] > 0

(* The goroutines that carry e to d, numbered for each number of failed tries. *)
Carriers(e, d) == UNION {{n} \X (1 .. sends[<<e, d, n>>]) : n \in Tries}

(***************************************************************************)
(* Retrying never multiplies an event: the copies of e that may still      *)
(* reach d, in the queue, with the worker, with goroutines and parked, are *)
(* at most as many as were pushed.                                         *)
(***************************************************************************)
CopiesBounded ==
  \A e \in Events, d \in Servers :
    Cardinality({i \in DOMAIN queue : queue[i] = e})
      + Cardinality(popped \cap {e})
      + Cardinality(Carriers(e, d))
      + pending[d][e]
    <= Max({0, announced[e]})

(***************************************************************************)
(* startWorker and sendWithRetry never strand an event: every event pushed *)
(* is dispatched, and every server it was addressed to acknowledges it or  *)
(* has it parked, unless a fault hits it.  Nothing is assumed of the       *)
(* servers.                                                                *)
(***************************************************************************)
EventuallySettled ==
  /\ \A e \in Events : announced[e] > 0 ~> e \in dispatched \cup dropped
  /\ \A e \in Events, d \in Servers :
       <<e, d>> \in owed ~> <<e, d>> \in acked \cup lost \/ pending[d][e] > 0

(***************************************************************************)
(* Parking and FlushPendingRetries lose nothing: every server an event was *)
(* addressed to acknowledges it, if it keeps sending PDUs and answers, and *)
(* no fault hits the event.                                                *)
(***************************************************************************)
EventuallySent ==
  PeerFairness =>
    \A e \in Events, d \in Servers : <<e, d>> \in owed ~> <<e, d>> \in acked \cup lost
=============================================================================
