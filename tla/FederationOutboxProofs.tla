----------------------- MODULE FederationOutboxProofs -----------------------
(* Proofs about FederationOutbox, for any events, servers and bounds. *)
EXTENDS FederationOutbox, SequenceTheorems, FiniteSetTheorems, TLAPS

(* The two parts of NothingVanishes. *)
EventsKept ==
  \A e \in Events :
    announced[e] > 0 => e \in Range(queue) \cup popped \cup dispatched \cup dropped

Carried(e, d) == (\E n \in Tries : sends[<<e, d, n>>] > 0) \/ pending[d][e] > 0

PairsKept ==
  \A e \in Events, d \in Servers :
    <<e, d>> \in owed => <<e, d>> \in acked \/ <<e, d>> \in lost \/ Carried(e, d)

LEMMA KeptIsNothingVanishes ==
  ASSUME TypeOK PROVE NothingVanishes <=> EventsKept /\ PairsKept
<1>1. ASSUME NEW p \in Events \X Servers
      PROVE  (p \in Flying \/ pending[p[2]][p[1]] > 0) <=> Carried(p[1], p[2])
  BY <1>1 DEF Flying, Carried
<1>2. ASSUME NEW p \in Events \X Servers
      PROVE  p = <<p[1], p[2]>> /\ p[1] \in Events /\ p[2] \in Servers
  BY <1>2
<1>3. owed \subseteq Events \X Servers
  BY DEF TypeOK
<1>4. ASSUME PairsKept, NEW p \in owed
      PROVE  p \in acked \cup lost \cup Flying \/ pending[p[2]][p[1]] > 0
  <2>1. p \in acked \/ p \in lost \/ Carried(p[1], p[2])
    BY <1>2, <1>3, <1>4 DEF PairsKept
  <2> QED BY <1>1, <1>3, <1>4, <2>1
<1>5. ASSUME \A p \in owed : p \in acked \cup lost \cup Flying
                              \/ pending[p[2]][p[1]] > 0,
             NEW e \in Events, NEW d \in Servers, <<e, d>> \in owed
      PROVE  <<e, d>> \in acked \/ <<e, d>> \in lost \/ Carried(e, d)
  <2> DEFINE p == <<e, d>>
  <2>1. p \in Events \X Servers /\ p[1] = e /\ p[2] = d
    OBVIOUS
  <2>2. (p \in Flying \/ pending[p[2]][p[1]] > 0) <=> Carried(p[1], p[2])
    BY <1>1, <2>1
  <2> QED BY <1>5, <2>1, <2>2
<1> QED BY <1>4, <1>5 DEF NothingVanishes, EventsKept, PairsKept

(* What RPUSH, BLPOP and an append do to the set of queued events. *)
LEMMA TailFacts ==
  ASSUME NEW S, NEW q \in Seq(S), q # <<>>
  PROVE  /\ Head(q) \in S
         /\ Tail(q) \in Seq(S)
         /\ Range(q) = {Head(q)} \cup Range(Tail(q))
<1>1. Len(q) \in Nat /\ Len(q) > 0 /\ DOMAIN q = 1 .. Len(q)
  OBVIOUS
<1>2. DOMAIN Tail(q) = 1 .. (Len(q) - 1)
  BY <1>1
<1>3. \A i \in 1 .. (Len(q) - 1) : Tail(q)[i] = q[i + 1]
  BY <1>1
<1>4. Head(q) = q[1] /\ Head(q) \in S /\ Tail(q) \in Seq(S)
  BY <1>1
<1>5. ASSUME NEW i \in 1 .. Len(q), i # 1
      PROVE  i - 1 \in 1 .. (Len(q) - 1) /\ Tail(q)[i - 1] = q[i]
  BY <1>1, <1>3, <1>5
<1>6. Range(q) \subseteq {Head(q)} \cup Range(Tail(q))
  BY <1>1, <1>2, <1>4, <1>5 DEF Range
<1>7. ASSUME NEW i \in 1 .. (Len(q) - 1)
      PROVE  i + 1 \in 1 .. Len(q) /\ q[i + 1] = Tail(q)[i]
  BY <1>1, <1>3, <1>7
<1>8. {Head(q)} \cup Range(Tail(q)) \subseteq Range(q)
  BY <1>1, <1>2, <1>4, <1>7 DEF Range
<1> QED BY <1>4, <1>6, <1>8

Pushed(q, r, e, n) == r = q \o [i \in 1 .. n |-> e]

LEMMA PushFacts ==
  ASSUME NEW S, NEW q \in Seq(S), NEW e \in S, NEW n \in Nat,
         NEW r, Pushed(q, r, e, n)
  PROVE  /\ r \in Seq(S)
         /\ Range(q) \subseteq Range(r)
         /\ n > 0 => e \in Range(r)
<1> DEFINE x == [i \in 1 .. n |-> e]
<1>1. x \in Seq(S) /\ Len(x) = n
  OBVIOUS
<1>2. /\ r \in Seq(S) /\ Len(r) = Len(q) + n
      /\ \A i \in 1 .. Len(q) : r[i] = q[i]
      /\ \A i \in 1 .. n : r[Len(q) + i] = e
  BY <1>1 DEF Pushed
<1>3. DOMAIN q = 1 .. Len(q) /\ DOMAIN r = 1 .. Len(r) /\ Len(q) \in Nat
  BY <1>2
<1>4. Range(q) \subseteq Range(r)
  BY <1>2, <1>3 DEF Range
<1>5. ASSUME n > 0 PROVE e \in Range(r)
  <2>1. Len(q) + 1 \in DOMAIN r /\ r[Len(q) + 1] = e
    BY <1>2, <1>3, <1>5
  <2> QED BY <2>1 DEF Range
<1> QED BY <1>2, <1>4, <1>5

-----------------------------------------------------------------------------
(* Type correctness. *)

LEMMA MaxRetriesTry == 0 \in Tries /\ MaxRetries \in Tries
  BY OutboxAssumption DEF Tries

LEMMA JobFacts ==
  ASSUME NEW e \in Events, NEW d \in Servers, NEW n \in Tries
  PROVE  <<e, d, n>> \in Jobs
  BY DEF Jobs

(* A goroutine that is counted once less. *)
LEMMA LessOne ==
  ASSUME TypeOK, NEW j \in Jobs, sends[j] > 0
  PROVE  [sends EXCEPT ![j] = @ - 1] \in [Jobs -> Nat]
<1>1. sends[j] \in Nat /\ sends[j] - 1 \in Nat
  BY DEF TypeOK
<1> QED BY <1>1 DEF TypeOK

LEMMA TypeInvariant == TypeOK /\ [Next]_vars => TypeOK'
<1> SUFFICES ASSUME TypeOK, [Next]_vars PROVE TypeOK'
  OBVIOUS
<1>1. ASSUME NEW e \in Events, NEW n \in 0 .. MaxCopies, QueueOutgoing(e, n)
      PROVE  TypeOK'
  <2>1. n \in Nat /\ n \in -1 .. MaxCopies
    BY <1>1, OutboxAssumption
  <2>2. queue' \in Seq(Events)
    <3>1. queue \in Seq(Events) /\ Pushed(queue, queue', e, n)
      BY <1>1 DEF QueueOutgoing, PushOutboundQueue, Pushed, TypeOK
    <3> QED BY <2>1, <3>1, PushFacts
  <2> QED BY <1>1, <2>1, <2>2 DEF QueueOutgoing, TypeOK, memory
<1>2. CASE PopOutboundQueue
  <2>1. Head(queue) \in Events /\ Tail(queue) \in Seq(Events)
    BY <1>2, TailFacts DEF PopOutboundQueue, TypeOK
  <2> QED BY <1>2, <2>1 DEF PopOutboundQueue, TypeOK, history
<1>3. ASSUME NEW e \in Events, NEW D \in SUBSET Servers, Start(e, D)
      PROVE  sends' \in [Jobs -> Nat]
  <2>1. \A j \in Jobs :
          sends[j] + (IF j[1] = e /\ j[2] \in D /\ j[3] = 0 THEN 1 ELSE 0) \in Nat
    BY DEF TypeOK
  <2> QED BY <1>3, <2>1 DEF Start
<1>4. ASSUME NEW e \in Events, NEW P \in SUBSET Servers
      PROVE  ExtractDestinations(e, P) \in SUBSET Servers
  BY OutboxAssumption DEF ExtractDestinations
<1>5. ASSUME NEW e \in Events, NEW P \in SUBSET Servers, StartWorker(e, P)
      PROVE  TypeOK'
  <2>1. sends' \in [Jobs -> Nat]
    BY <1>3, <1>4, <1>5 DEF StartWorker
  <2>2. {e} \X ExtractDestinations(e, P) \subseteq Events \X Servers
    BY <1>4
  <2> QED BY <1>5, <2>1, <2>2 DEF StartWorker, TypeOK, redis
<1>6. ASSUME NEW e \in Events, NEW P \in SUBSET Servers, ExtractFails(e, P)
      PROVE  TypeOK'
  <2> DEFINE D == ExtractDestinations(e, {})
  <2>1. D \in SUBSET Servers
    BY <1>4
  <2>2. sends' \in [Jobs -> Nat]
    BY <1>3, <1>6, <2>1 DEF ExtractFails
  <2>3. /\ {e} \X (P \cup D) \subseteq Events \X Servers
        /\ {e} \X (P \ D) \subseteq Events \X Servers
    BY <2>1
  <2> QED BY <1>6, <2>2, <2>3 DEF ExtractFails, TypeOK, redis
<1>7. ASSUME NEW e \in Events, NEW d \in Servers, NEW n \in Tries
      PROVE  /\ SendAccepted(e, d, n) => TypeOK'
             /\ SendFailed(e, d, n) => TypeOK'
             /\ GoroutineFails(e, d, n) => TypeOK'
  <2>1. <<e, d, n>> \in Jobs /\ <<e, d>> \in Events \X Servers
    BY JobFacts
  <2>2. CASE SendAccepted(e, d, n)
    BY <2>1, <2>2, LessOne DEF SendAccepted, TypeOK, redis
  <2>3. CASE SendFailed(e, d, n)
    <3>1. n + 1 \in Tries
      BY <2>3, OutboxAssumption DEF SendFailed, Tries
    <3>2. <<e, d, n + 1>> \in Jobs
      BY <3>1, JobFacts
    <3>3. sends[<<e, d, n>>] - 1 \in Nat /\ sends[<<e, d, n + 1>>] + 1 \in Nat
      BY <2>1, <2>3, <3>2 DEF SendFailed, TypeOK
    <3>4. sends' \in [Jobs -> Nat]
      BY <2>3, <3>3 DEF SendFailed, TypeOK
    <3> QED BY <2>3, <3>4 DEF SendFailed, TypeOK, redis, history
  <2>4. CASE GoroutineFails(e, d, n)
    BY <2>1, <2>4, LessOne DEF GoroutineFails, TypeOK, redis
  <2> QED BY <2>2, <2>3, <2>4
<1>8. ASSUME NEW e \in Events, NEW d \in Servers, StorePendingRetry(e, d)
      PROVE  TypeOK'
  <2>1. <<e, d, MaxRetries>> \in Jobs
    BY MaxRetriesTry, JobFacts
  <2>2. sends' \in [Jobs -> Nat]
    BY <1>8, <2>1, LessOne DEF StorePendingRetry
  <2>3. pending' \in [Servers -> [Events -> Nat]]
    BY <1>8 DEF StorePendingRetry, TypeOK
  <2> QED BY <1>8, <2>2, <2>3 DEF StorePendingRetry, TypeOK, history
<1>9. ASSUME NEW d \in Servers PROVE FlushPendingRetries(d) => TypeOK'
  <2> SUFFICES ASSUME FlushPendingRetries(d) PROVE TypeOK'
    OBVIOUS
  <2>1. \A j \in Jobs : sends[j] \in Nat /\ pending[d][j[1]] \in Nat
    BY DEF TypeOK, Jobs
  <2>2. sends' \in [Jobs -> Nat]
    BY <2>1 DEF FlushPendingRetries
  <2>3. pending' \in [Servers -> [Events -> Nat]]
    BY DEF FlushPendingRetries, TypeOK
  <2> QED BY <2>2, <2>3 DEF FlushPendingRetries, TypeOK, history
<1>10. CASE Crash
  <2>1. sends' \in [Jobs -> Nat]
    BY <1>10 DEF Crash
  <2>2. Flying \subseteq Events \X Servers
    BY DEF Flying
  <2> QED BY <1>10, <2>1, <2>2 DEF Crash, TypeOK, redis
<1>11. CASE PopFails
  <2>1. Head(queue) \in Events /\ Tail(queue) \in Seq(Events)
    BY <1>11, TailFacts DEF PopFails, TypeOK
  <2> QED BY <1>11, <2>1 DEF PopFails, TypeOK, memory
<1>12. ASSUME NEW d \in Servers PROVE PendingVanishes(d) => TypeOK'
  <2> SUFFICES ASSUME PendingVanishes(d) PROVE TypeOK'
    OBVIOUS
  <2>1. pending' \in [Servers -> [Events -> Nat]]
    BY DEF PendingVanishes, TypeOK
  <2>2. {e \in Events : pending[d][e] > 0} \X {d} \subseteq Events \X Servers
    OBVIOUS
  <2> QED BY <2>1, <2>2 DEF PendingVanishes, TypeOK, memory
<1>13. CASE UNCHANGED vars
  BY <1>13 DEF vars, redis, memory, history, TypeOK
<1> QED BY <1>1, <1>2, <1>5, <1>6, <1>7, <1>8, <1>9, <1>10, <1>11, <1>12, <1>13
        DEF Next, Work, Fault, Announce, Dispatch, Send

(***************************************************************************)
(* Every variable keeps its type: one event at a time with the worker, and *)
(* never a negative number of goroutines or of parked copies.              *)
(***************************************************************************)
THEOREM TypeCorrect == Spec => []TypeOK
<1>1. Init => TypeOK
  BY OutboxAssumption DEF Init, TypeOK
<1> QED BY <1>1, TypeInvariant, PTL DEF Spec

-----------------------------------------------------------------------------
(* Only faults lose events. *)

LEMMA EventsKeptStep ==
  TypeOK /\ EventsKept /\ [Next]_vars => EventsKept'
<1> SUFFICES ASSUME TypeOK, EventsKept, [Next]_vars PROVE EventsKept'
  OBVIOUS
<1> DEFINE Where == Range(queue) \cup popped \cup dispatched \cup dropped
<1>1. ASSUME announced' = announced, Where \subseteq Where'
      PROVE  EventsKept'
  BY <1>1 DEF EventsKept
<1>2. ASSUME queue # <<>> PROVE Range(queue) = {Head(queue)} \cup Range(Tail(queue))
  BY <1>2, TailFacts DEF TypeOK
<1>3. ASSUME NEW e \in Events, NEW n \in 0 .. MaxCopies, QueueOutgoing(e, n)
      PROVE  EventsKept'
  <2>1. n \in Nat
    BY OutboxAssumption
  <2>2. Range(queue) \subseteq Range(queue') /\ (n > 0 => e \in Range(queue'))
    <3>1. queue \in Seq(Events) /\ Pushed(queue, queue', e, n)
      BY <1>3 DEF QueueOutgoing, PushOutboundQueue, Pushed, TypeOK
    <3> QED BY <2>1, <3>1, PushFacts
  <2>3. \A f \in Events : announced'[f] = IF f = e THEN n ELSE announced[f]
    BY <1>3 DEF QueueOutgoing, TypeOK
  <2>4. popped' = popped /\ dispatched' = dispatched /\ dropped' = dropped
    BY <1>3 DEF QueueOutgoing, memory
  <2> QED BY <2>2, <2>3, <2>4 DEF EventsKept
<1>4. CASE PopOutboundQueue
  BY <1>1, <1>2, <1>4 DEF PopOutboundQueue, history
<1>5. ASSUME NEW e \in Events, NEW P, StartWorker(e, P) \/ ExtractFails(e, P)
      PROVE  EventsKept'
  <2>1. popped = {e}
    BY <1>5 DEF StartWorker, ExtractFails, TypeOK
  <2> QED BY <1>1, <1>5, <2>1 DEF StartWorker, ExtractFails, redis
<1>6. CASE PopFails
  BY <1>1, <1>2, <1>6 DEF PopFails, memory
<1>7. CASE Crash
  BY <1>1, <1>7 DEF Crash, redis
<1>8. ASSUME NEW e, NEW d, Send(e, d) PROVE EventsKept'
  BY <1>1, <1>8 DEF Send, SendAccepted, SendFailed, StorePendingRetry, redis, history
<1>9. ASSUME NEW e, NEW d, NEW n, GoroutineFails(e, d, n) PROVE EventsKept'
  BY <1>1, <1>9 DEF GoroutineFails, redis
<1>10. ASSUME NEW d, FlushPendingRetries(d) \/ PendingVanishes(d) PROVE EventsKept'
  BY <1>1, <1>10 DEF FlushPendingRetries, PendingVanishes, history, memory
<1>11. CASE UNCHANGED vars
  BY <1>1, <1>11 DEF vars, redis, memory, history
<1> QED BY <1>3, <1>4, <1>5, <1>6, <1>7, <1>8, <1>9, <1>10, <1>11
        DEF Next, Work, Fault, Announce, Dispatch

(* One pair stays accounted for. *)
Accounted(e, d) == <<e, d>> \in acked \/ <<e, d>> \in lost \/ Carried(e, d)

LEMMA PairsKeptStep ==
  ASSUME TypeOK, TypeOK', PairsKept, [Next]_vars
  PROVE  PairsKept'
<1>1. ASSUME acked \subseteq acked', lost \subseteq lost', owed' = owed,
             \A e \in Events, d \in Servers :
               Carried(e, d) => <<e, d>> \in acked' \/ <<e, d>> \in lost' \/ Carried(e, d)'
      PROVE  PairsKept'
  BY <1>1 DEF PairsKept
<1>2. ASSUME \A j \in Jobs : sends[j] > 0 => sends'[j] > 0,
             NEW e \in Events, NEW d \in Servers, Carried(e, d),
             pending[d][e] > 0 => pending'[d][e] > 0
      PROVE  Carried(e, d)'
  BY <1>2, JobFacts DEF Carried
<1>3. ASSUME NEW f \in Events, NEW D, Start(f, D)
      PROVE  /\ \A j \in Jobs : sends[j] > 0 => sends'[j] > 0
             /\ \A d \in Servers \cap D : sends'[<<f, d, 0>>] > 0
  <2>1. \A j \in Jobs : sends[j] \in Nat
    BY DEF TypeOK
  <2>2. \A j \in Jobs : sends'[j] =
          sends[j] + IF j[1] = f /\ j[2] \in D /\ j[3] = 0 THEN 1 ELSE 0
    BY <1>3 DEF Start
  <2>3. ASSUME NEW d \in Servers \cap D PROVE sends'[<<f, d, 0>>] > 0
    <3>1. <<f, d, 0>> \in Jobs
      BY JobFacts, MaxRetriesTry
    <3>2. sends'[<<f, d, 0>>] = sends[<<f, d, 0>>] + 1
      BY <2>2, <3>1
    <3> QED BY <2>1, <3>1, <3>2
  <2> QED BY <2>1, <2>2, <2>3
<1>4. ASSUME NEW f \in Events, NEW P \in SUBSET Servers,
             StartWorker(f, P) \/ ExtractFails(f, P)
      PROVE  PairsKept'
  <2>1. PICK D \in SUBSET Servers :
          /\ Start(f, D)
          /\ \/ owed' = owed \cup ({f} \X D) /\ lost' = lost
             \/ /\ owed' = owed \cup ({f} \X (P \cup D))
                /\ lost' = lost \cup ({f} \X (P \ D))
    BY <1>4, OutboxAssumption DEF StartWorker, ExtractFails, ExtractDestinations
  <2>2. acked' = acked /\ pending' = pending
    BY <1>4 DEF StartWorker, ExtractFails, redis
  <2>3. ASSUME NEW e \in Events, NEW d \in Servers, <<e, d>> \in owed
        PROVE  Accounted(e, d)'
    <3>1. Accounted(e, d)
      BY <2>3 DEF PairsKept, Accounted
    <3>2. Carried(e, d) => Carried(e, d)'
      BY <1>2, <1>3, <2>1, <2>2
    <3> QED BY <2>1, <2>2, <3>1, <3>2 DEF Accounted
  <2>4. ASSUME NEW d \in Servers, d \in D PROVE Carried(f, d)'
    BY <1>3, <2>1, <2>4, MaxRetriesTry DEF Carried
  <2>5. ASSUME NEW e \in Events, NEW d \in Servers, <<e, d>> \in owed', <<e, d>> \notin owed
        PROVE  Accounted(e, d)'
    <3>1. e = f /\ (d \in D \/ <<e, d>> \in lost')
      BY <2>1, <2>5
    <3> QED BY <2>4, <2>5, <3>1 DEF Accounted
  <2> QED BY <2>3, <2>5 DEF PairsKept, Accounted
<1>5. ASSUME NEW f \in Events, NEW c \in Servers, NEW n \in Tries,
             sends' = [sends EXCEPT ![<<f, c, n>>] = @ - 1],
             acked \subseteq acked', lost \subseteq lost', owed' = owed,
             <<f, c>> \in acked' \cup lost' \/ pending'[c][f] > 0,
             \A e \in Events, d \in Servers :
               pending[d][e] > 0 => pending'[d][e] > 0
      PROVE  PairsKept'
  <2>1. <<f, c, n>> \in Jobs
    BY JobFacts
  <2>2. ASSUME NEW e \in Events, NEW d \in Servers, Carried(e, d), <<e, d>> # <<f, c>>
        PROVE  Carried(e, d)'
    <3>1. \A m \in Tries : sends'[<<e, d, m>>] = sends[<<e, d, m>>]
      BY <1>5, <2>2, JobFacts DEF TypeOK
    <3> QED BY <1>5, <2>2, <3>1 DEF Carried
  <2>3. <<f, c>> \in acked' \/ <<f, c>> \in lost' \/ Carried(f, c)'
    BY <1>5 DEF Carried
  <2> QED BY <1>1, <1>5, <2>2, <2>3
<1>6. ASSUME NEW e \in Events, NEW d \in Servers, NEW n \in Tries, SendAccepted(e, d, n)
      PROVE  PairsKept'
  BY <1>5, <1>6 DEF SendAccepted, redis
<1>7. ASSUME NEW e \in Events, NEW d \in Servers, NEW n \in Tries, GoroutineFails(e, d, n)
      PROVE  PairsKept'
  BY <1>5, <1>7 DEF GoroutineFails, redis
<1>8. ASSUME NEW e \in Events, NEW d \in Servers, StorePendingRetry(e, d)
      PROVE  PairsKept'
  <2>1. \A f \in Events, c \in Servers : pending[c][f] \in Nat
    BY DEF TypeOK
  <2>2. \A f \in Events, c \in Servers :
          pending'[c][f] = IF f = e /\ c = d THEN pending[c][f] + 1 ELSE pending[c][f]
    BY <1>8 DEF StorePendingRetry, TypeOK
  <2>3. /\ pending'[d][e] > 0
        /\ \A f \in Events, c \in Servers : pending[c][f] > 0 => pending'[c][f] > 0
    BY <2>1, <2>2
  <2> QED BY <1>5, <1>8, <2>3, MaxRetriesTry DEF StorePendingRetry, history
<1>9. ASSUME NEW f \in Events, NEW c \in Servers, NEW n \in Tries, SendFailed(f, c, n)
      PROVE  PairsKept'
  <2>1. n + 1 \in Tries /\ <<f, c, n>> \in Jobs /\ <<f, c, n + 1>> \in Jobs
    <3>1. n + 1 \in Tries
      BY <1>9, OutboxAssumption DEF SendFailed, Tries
    <3> QED BY <3>1, JobFacts
  <2>2. sends'[<<f, c, n + 1>>] = sends[<<f, c, n + 1>>] + 1
    BY <1>9, <2>1 DEF SendFailed, TypeOK
  <2>3. sends'[<<f, c, n + 1>>] > 0
    BY <2>1, <2>2 DEF TypeOK
  <2>4. UNCHANGED <<pending, acked, lost, owed>>
    BY <1>9 DEF SendFailed, redis, history
  <2>5. ASSUME NEW e \in Events, NEW d \in Servers, Carried(e, d), <<e, d>> # <<f, c>>
        PROVE  Carried(e, d)'
    <3>1. \A m \in Tries : sends'[<<e, d, m>>] = sends[<<e, d, m>>]
      BY <1>9, <2>5, JobFacts DEF TypeOK, SendFailed
    <3> QED BY <2>4, <2>5, <3>1 DEF Carried
  <2>6. Carried(f, c)'
    BY <2>1, <2>3 DEF Carried
  <2> QED BY <1>1, <2>4, <2>5, <2>6
<1>10. ASSUME NEW c \in Servers, FlushPendingRetries(c) PROVE PairsKept'
  <2>1. \A e \in Events, d \in Servers : pending[d][e] \in Nat
    BY DEF TypeOK
  <2>2. \A j \in Jobs : sends[j] \in Nat /\ j[1] \in Events
    BY DEF TypeOK, Jobs
  <2>3. \A j \in Jobs : sends'[j] =
          sends[j] + IF j[2] = c /\ j[3] = 0 THEN pending[c][j[1]] ELSE 0
    BY <1>10 DEF FlushPendingRetries
  <2>4. \A j \in Jobs : sends[j] > 0 => sends'[j] > 0
    BY <2>1, <2>2, <2>3
  <2>5. ASSUME NEW e \in Events, pending[c][e] > 0 PROVE sends'[<<e, c, 0>>] > 0
    <3>1. <<e, c, 0>> \in Jobs
      BY JobFacts, MaxRetriesTry
    <3>2. sends'[<<e, c, 0>>] = sends[<<e, c, 0>>] + pending[c][e]
      BY <2>3, <3>1
    <3> QED BY <2>1, <2>2, <2>5, <3>1, <3>2
  <2>6. \A e \in Events, d \in Servers : d # c => pending'[d][e] = pending[d][e]
    BY <1>10 DEF FlushPendingRetries, TypeOK
  <2>7. ASSUME NEW e \in Events, NEW d \in Servers, Carried(e, d) PROVE Carried(e, d)'
    <3>1. CASE d = c /\ pending[c][e] > 0
      BY <2>5, <3>1, MaxRetriesTry DEF Carried
    <3>2. CASE d # c \/ ~(pending[c][e] > 0)
      BY <1>2, <2>4, <2>6, <2>7, <3>2
    <3> QED BY <3>1, <3>2
  <2> QED BY <1>1, <1>10, <2>7 DEF FlushPendingRetries, history
<1>11. ASSUME NEW c \in Servers, PendingVanishes(c) PROVE PairsKept'
  <2>1. \A e \in Events, d \in Servers : d # c => pending'[d][e] = pending[d][e]
    BY <1>11 DEF PendingVanishes, TypeOK
  <2>2. \A e \in Events : pending[c][e] > 0 => <<e, c>> \in lost'
    BY <1>11 DEF PendingVanishes
  <2>3. sends' = sends
    BY <1>11 DEF PendingVanishes, memory
  <2> QED BY <1>1, <1>11, <2>1, <2>2, <2>3 DEF PendingVanishes, Carried
<1>12. CASE Crash
  <2>1. \A e \in Events, d \in Servers :
          (\E n \in Tries : sends[<<e, d, n>>] > 0) => <<e, d>> \in lost'
    BY <1>12 DEF Crash, Flying
  <2> QED BY <1>1, <1>12, <2>1 DEF Crash, Carried, redis
<1>13. ASSUME UNCHANGED <<sends, pending, owed, acked, lost>> PROVE PairsKept'
  BY <1>1, <1>13 DEF Carried
<1>14. CASE UNCHANGED vars
  BY <1>13, <1>14 DEF vars, redis, memory, history
<1>15. ASSUME NEW e, NEW n, QueueOutgoing(e, n) PROVE PairsKept'
  BY <1>13, <1>15 DEF QueueOutgoing, memory
<1>16. CASE PopOutboundQueue \/ PopFails
  BY <1>13, <1>16 DEF PopOutboundQueue, PopFails, memory, history
<1> QED BY <1>4, <1>6, <1>7, <1>8, <1>9, <1>10, <1>11, <1>12, <1>14, <1>15, <1>16
        DEF Next, Work, Fault, Announce, Dispatch, Send

(***************************************************************************)
(* Only a fault loses an event, for any number of events, servers, tries   *)
(* and copies: what was pushed is queued, held by the worker or dispatched, *)
(* and what was addressed is in flight, parked or acknowledged.            *)
(***************************************************************************)
THEOREM OnlyFaultsLose == Spec => []NothingVanishes
<1> DEFINE Inv == TypeOK /\ EventsKept /\ PairsKept
<1>1. Init => Inv
  <2>1. Init => EventsKept
    <3>1. Init => \A e \in Events : announced[e] = -1
      BY DEF Init
    <3> QED BY <3>1 DEF EventsKept
  <2>2. Init => PairsKept
    BY DEF Init, PairsKept
  <2>3. Init => TypeOK
    BY OutboxAssumption DEF Init, TypeOK
  <2> QED BY <2>1, <2>2, <2>3
<1>2. Inv /\ [Next]_vars => Inv'
  BY TypeInvariant, EventsKeptStep, PairsKeptStep
<1>3. Inv => NothingVanishes
  BY KeptIsNothingVanishes
<1> QED BY <1>1, <1>2, <1>3, PTL DEF Spec
-----------------------------------------------------------------------------
(***************************************************************************)
(* Retries never multiply an event.  The goroutines of a pair are counted  *)
(* by a function c from failed tries to goroutines.                        *)
(***************************************************************************)

Counted(c) == {p \in Tries \X Nat : p[2] \in 1 .. c[p[1]]}

LEMMA CountedFinite ==
  ASSUME NEW c \in [Tries -> Nat]
  PROVE  IsFiniteSet(Counted(c)) /\ Cardinality(Counted(c)) \in Nat
<1> DEFINE S == {{n} \X (1 .. c[n]) : n \in Tries}
           f == [n \in Tries |-> {n} \X (1 .. c[n])]
<1>1. IsFiniteSet(Tries)
  <2>1. 0 \in Int /\ MaxRetries \in Int
    BY OutboxAssumption
  <2> QED BY <2>1, FS_Interval DEF Tries
<1>2. f \in Surjection(Tries, S)
  BY DEF Surjection
<1>3. IsFiniteSet(S)
  BY <1>1, <1>2, FS_Surjection
<1>4. ASSUME NEW n \in Tries PROVE IsFiniteSet({n} \X (1 .. c[n]))
  <2>1. IsFiniteSet({n})
    BY FS_Singleton
  <2>2. 1 \in Int /\ c[n] \in Int
    OBVIOUS
  <2>3. IsFiniteSet(1 .. c[n])
    BY <2>2, FS_Interval
  <2> QED BY <2>1, <2>3, FS_Product
<1>5. IsFiniteSet(UNION S)
  <2>1. \A T \in S : IsFiniteSet(T)
    BY <1>4
  <2> HIDE DEF S
  <2> QED BY <1>3, <2>1, FS_UNION
<1>6. Counted(c) \subseteq UNION S
  <2> SUFFICES ASSUME NEW p \in Counted(c) PROVE p \in UNION S
    OBVIOUS
  <2>1. p[1] \in Tries /\ p \in {p[1]} \X (1 .. c[p[1]])
    BY DEF Counted
  <2> QED BY <2>1
<1>7. IsFiniteSet(Counted(c))
  <2> HIDE DEF S
  <2> QED BY <1>5, <1>6, FS_Subset
<1> QED BY <1>7, FS_CardinalityType

LEMMA CountLess ==
  ASSUME NEW c \in [Tries -> Nat], NEW n \in Tries, c[n] > 0,
         NEW b \in [Tries -> Nat], b = [c EXCEPT ![n] = c[n] - 1]
  PROVE  Cardinality(Counted(b)) = Cardinality(Counted(c)) - 1
<1>1. PICK k \in Nat : k = c[n] /\ k > 0
  OBVIOUS
<1>2. <<n, k>> \in Counted(c)
  BY <1>1 DEF Counted
<1>3. Counted(b) = Counted(c) \ {<<n, k>>}
  <2>1. ASSUME NEW p \in Tries \X Nat PROVE p \in Counted(b) <=> p \in Counted(c) \ {<<n, k>>}
    <3>1. PICK m \in Tries, j \in Nat : p = <<m, j>>
      OBVIOUS
    <3>2. CASE m = n
      BY <1>1, <3>1, <3>2 DEF Counted
    <3>3. CASE m # n
      BY <1>1, <3>1, <3>3 DEF Counted
    <3> QED BY <3>2, <3>3
  <2>2. Counted(b) \subseteq Tries \X Nat /\ Counted(c) \subseteq Tries \X Nat
    BY DEF Counted
  <2> QED BY <2>1, <2>2
<1>4. IsFiniteSet(Counted(c))
  BY CountedFinite
<1>5. PICK x : x = <<n, k>>
  OBVIOUS
<1>6. Cardinality(Counted(c) \ {x}) = IF x \in Counted(c) THEN Cardinality(Counted(c)) - 1
                                      ELSE Cardinality(Counted(c))
  BY <1>4, FS_RemoveElement
<1> QED BY <1>2, <1>3, <1>5, <1>6

Adds(b, c, n, m) == \A x \in Tries : b[x] = IF x = n THEN c[x] + m ELSE c[x]

LEMMA CountMore ==
  ASSUME NEW c \in [Tries -> Nat], NEW n \in Tries, NEW m \in Nat,
         NEW b \in [Tries -> Nat], Adds(b, c, n, m)
  PROVE  Cardinality(Counted(b)) = Cardinality(Counted(c)) + m
<1>1. PICK k \in Nat : k = c[n]
  OBVIOUS
<1>2. PICK I : I = (k + 1) .. (k + m)
  OBVIOUS
<1>3. Counted(b) = Counted(c) \cup ({n} \X I)
  <2>1. ASSUME NEW p \in Tries \X Nat
        PROVE  p \in Counted(b) <=> p \in Counted(c) \cup ({n} \X I)
    <3>1. PICK l \in Tries, j \in Nat : p = <<l, j>>
      OBVIOUS
    <3>2. CASE l = n
      <4>1. p \in Counted(b) <=> j \in 1 .. k + m
        BY <1>1, <3>1, <3>2 DEF Counted, Adds
      <4>2. p \in Counted(c) <=> j \in 1 .. k
        BY <1>1, <3>1, <3>2 DEF Counted
      <4>3. p \in {n} \X I <=> j \in (k + 1) .. (k + m)
        BY <1>2, <3>1, <3>2
      <4>4. j \in 1 .. k + m <=> j \in 1 .. k \/ j \in (k + 1) .. (k + m)
        OBVIOUS
      <4> QED BY <4>1, <4>2, <4>3, <4>4
    <3>3. CASE l # n
      BY <1>1, <3>1, <3>3 DEF Counted, Adds
    <3> QED BY <3>2, <3>3
  <2>2. Counted(b) \subseteq Tries \X Nat /\ Counted(c) \subseteq Tries \X Nat
    BY DEF Counted
  <2>3. {n} \X I \subseteq Tries \X Nat
    BY <1>2
  <2> QED BY <2>1, <2>2, <2>3
<1>4. Counted(c) \cap ({n} \X I) = {}
  BY <1>1, <1>2 DEF Counted
<1>5. IsFiniteSet(I) /\ Cardinality(I) = m
  <2>1. k + 1 \in Int /\ k + m \in Int
    OBVIOUS
  <2>2. IsFiniteSet(I) /\ Cardinality(I) = IF k + 1 > k + m THEN 0 ELSE (k + m) - (k + 1) + 1
    BY <1>2, <2>1, FS_Interval
  <2> QED BY <2>2
<1>6. IsFiniteSet({n} \X I) /\ Cardinality({n} \X I) = m
  <2>1. IsFiniteSet({n}) /\ Cardinality({n}) = 1
    BY FS_Singleton
  <2>2. IsFiniteSet({n} \X I) /\ Cardinality({n} \X I) = Cardinality({n}) * Cardinality(I)
    BY <1>5, <2>1, FS_Product
  <2> QED BY <1>5, <2>1, <2>2
<1>7. IsFiniteSet(Counted(c)) /\ Cardinality(Counted(c)) \in Nat
  BY CountedFinite
<1>8. Cardinality(Counted(b)) = Cardinality(Counted(c)) + m - Cardinality({})
  BY <1>3, <1>4, <1>6, <1>7, FS_Union
<1> QED BY <1>7, <1>8, FS_EmptySet

LEMMA CountMoves ==
  ASSUME NEW c \in [Tries -> Nat], NEW n \in Tries, NEW k \in Tries, k # n, c[n] > 0,
         NEW b \in [Tries -> Nat],
         \A x \in Tries : b[x] = IF x = k THEN c[x] + 1 ELSE IF x = n THEN c[x] - 1 ELSE c[x]
  PROVE  Cardinality(Counted(b)) = Cardinality(Counted(c))
<1>1. c[n] - 1 \in Nat
  OBVIOUS
<1>2. PICK a \in [Tries -> Nat] : a = [c EXCEPT ![n] = c[n] - 1]
  BY <1>1
<1>3. Cardinality(Counted(a)) = Cardinality(Counted(c)) - 1
  BY <1>2, CountLess
<1>4. \A x \in Tries : b[x] = IF x = k THEN a[x] + 1 ELSE a[x]
  BY <1>2
<1>5. PICK m \in Nat : m = 1
  OBVIOUS
<1>6. Adds(b, a, k, m)
  BY <1>4, <1>5 DEF Adds
<1>7. Cardinality(Counted(b)) = Cardinality(Counted(a)) + m
  BY <1>6, CountMore
<1>8. Cardinality(Counted(c)) \in Nat
  BY CountedFinite
<1> QED BY <1>3, <1>5, <1>7, <1>8

(* Where an event is queued. *)
Places(q, e) == {i \in DOMAIN q : q[i] = e}

LEMMA PlacesFinite ==
  ASSUME NEW S, NEW q \in Seq(S), NEW e
  PROVE  IsFiniteSet(Places(q, e)) /\ Cardinality(Places(q, e)) \in Nat
<1>1. DOMAIN q = 1 .. Len(q) /\ Len(q) \in Int /\ 1 \in Int
  OBVIOUS
<1>2. IsFiniteSet(1 .. Len(q))
  BY <1>1, FS_Interval
<1>3. Places(q, e) \subseteq 1 .. Len(q)
  BY <1>1 DEF Places
<1>4. IsFiniteSet(Places(q, e))
  BY <1>2, <1>3, FS_Subset
<1> QED BY <1>4, FS_CardinalityType

LEMMA PlacesPushed ==
  ASSUME NEW S, NEW q \in Seq(S), NEW e \in S, NEW n \in Nat, NEW r, Pushed(q, r, e, n), NEW f
  PROVE  /\ f = e => Cardinality(Places(r, f)) = Cardinality(Places(q, f)) + n
         /\ f # e => Cardinality(Places(r, f)) = Cardinality(Places(q, f))
<1> DEFINE x == [i \in 1 .. n |-> e]
<1>1. x \in Seq(S) /\ Len(x) = n
  OBVIOUS
<1>2. PICK l \in Nat : l = Len(q) /\ DOMAIN q = 1 .. l
  OBVIOUS
<1>3. /\ r \in Seq(S) /\ Len(r) = l + n
      /\ \A i \in 1 .. l : r[i] = q[i]
      /\ \A i \in 1 .. n : r[l + i] = e
  BY <1>1, <1>2 DEF Pushed
<1>4. DOMAIN r = 1 .. (l + n)
  BY <1>3
<1>5. \A i \in (l + 1) .. (l + n) : r[i] = e
  <2> SUFFICES ASSUME NEW i \in (l + 1) .. (l + n) PROVE r[i] = e
    OBVIOUS
  <2>1. i - l \in 1 .. n /\ l + (i - l) = i
    OBVIOUS
  <2> QED BY <1>3, <2>1
<1>6. CASE f # e
  <2>1. Places(r, f) = Places(q, f)
    BY <1>2, <1>3, <1>4, <1>5, <1>6 DEF Places
  <2> QED BY <1>6, <2>1
<1>7. CASE f = e
  <2>1. PICK I : I = (l + 1) .. (l + n)
    OBVIOUS
  <2>2. Places(r, f) = Places(q, f) \cup I /\ Places(q, f) \cap I = {}
    BY <1>2, <1>3, <1>4, <1>5, <1>7, <2>1 DEF Places
  <2>3. l + 1 \in Int /\ l + n \in Int
    OBVIOUS
  <2>4. IsFiniteSet(I) /\ Cardinality(I) = IF l + 1 > l + n THEN 0 ELSE (l + n) - (l + 1) + 1
    BY <2>1, <2>3, FS_Interval
  <2>5. Cardinality(I) = n
    BY <2>4
  <2>6. IsFiniteSet(Places(q, f)) /\ Cardinality(Places(q, f)) \in Nat
    BY PlacesFinite
  <2>7. Cardinality(Places(r, f)) = Cardinality(Places(q, f)) + n - Cardinality({})
    BY <2>2, <2>4, <2>5, <2>6, FS_Union
  <2> QED BY <1>7, <2>6, <2>7, FS_EmptySet
<1> QED BY <1>6, <1>7

LEMMA PlacesTail ==
  ASSUME NEW S, NEW q \in Seq(S), q # <<>>, NEW f
  PROVE  /\ f = Head(q) => Cardinality(Places(Tail(q), f)) = Cardinality(Places(q, f)) - 1
         /\ f # Head(q) => Cardinality(Places(Tail(q), f)) = Cardinality(Places(q, f))
<1>1. PICK l \in Nat \ {0} : l = Len(q) /\ DOMAIN q = 1 .. l
  BY EmptySeq
<1>2. /\ Tail(q) \in Seq(S) /\ DOMAIN Tail(q) = 1 .. (l - 1) /\ Head(q) = q[1]
      /\ \A i \in 1 .. (l - 1) : Tail(q)[i] = q[i + 1]
  BY <1>1
<1>3. PICK P, T : P = Places(q, f) \ {1} /\ T = Places(Tail(q), f)
  OBVIOUS
<1>4. IsFiniteSet(Places(q, f)) /\ Cardinality(Places(q, f)) \in Nat /\ IsFiniteSet(T)
  BY <1>2, <1>3, PlacesFinite
<1>5. /\ T = {i \in 1 .. (l - 1) : q[i + 1] = f}
      /\ P = {i \in 2 .. l : q[i] = f}
  BY <1>1, <1>2, <1>3 DEF Places
<1>6. ExistsBijection(T, P)
  <2> DEFINE g == [i \in T |-> i + 1]
  <2>1. g \in [T -> P]
    BY <1>5
  <2>2. \A i, j \in T : g[i] = g[j] => i = j
    BY <1>5
  <2>3. \A k \in P : \E i \in T : g[i] = k
    <3> SUFFICES ASSUME NEW k \in P PROVE \E i \in T : g[i] = k
      OBVIOUS
    <3>1. k - 1 \in T /\ (k - 1) + 1 = k
      BY <1>5
    <3> QED BY <3>1
  <2> HIDE DEF g
  <2>4. g \in Bijection(T, P)
    <3>1. g \in Injection(T, P)
      BY <2>1, <2>2 DEF Injection, IsInjective
    <3>2. g \in Surjection(T, P)
      BY <2>1, <2>3 DEF Surjection
    <3> QED BY <3>1, <3>2 DEF Bijection
  <2> QED BY <2>4 DEF ExistsBijection
<1>7. Cardinality(P) = Cardinality(T)
  BY <1>4, <1>6, FS_Bijection
<1>8. 1 \in Places(q, f) <=> f = Head(q)
  BY <1>1, <1>2 DEF Places
<1>9. Cardinality(P) = IF 1 \in Places(q, f) THEN Cardinality(Places(q, f)) - 1
                       ELSE Cardinality(Places(q, f))
  BY <1>3, <1>4, FS_RemoveElement
<1> QED BY <1>3, <1>7, <1>8, <1>9

(* The goroutines that carry f to d, by the number of their failed tries. *)
Vector(f, d) == [n \in Tries |-> sends[<<f, d, n>>]]

(* How often a push of f was applied. *)
Pushes(f) == IF announced[f] > 0 THEN announced[f] ELSE 0

(* The copies of f that may still reach d, and the bound on them. *)
Copies(f, d) ==
  Cardinality(Places(queue, f)) + Cardinality(popped \cap {f})
    + Cardinality(Counted(Vector(f, d))) + pending[d][f]

FewCopies == \A f \in Events, d \in Servers : Copies(f, d) <= Pushes(f)

LEMMA VectorType ==
  ASSUME TypeOK, NEW f \in Events, NEW d \in Servers
  PROVE  /\ Vector(f, d) \in [Tries -> Nat]
         /\ \A n \in Tries : Vector(f, d)[n] = sends[<<f, d, n>>]
<1>1. \A n \in Tries : sends[<<f, d, n>>] \in Nat
  BY JobFacts DEF TypeOK
<1> QED BY <1>1 DEF Vector

LEMMA CarriersCounted ==
  ASSUME TypeOK, NEW f \in Events, NEW d \in Servers
  PROVE  Carriers(f, d) = Counted(Vector(f, d))
<1>1. ASSUME NEW n \in Tries
      PROVE  sends[<<f, d, n>>] \in Nat /\ Vector(f, d)[n] = sends[<<f, d, n>>]
  BY JobFacts DEF TypeOK, Vector
<1>2. ASSUME NEW p \in Counted(Vector(f, d)) PROVE p \in Carriers(f, d)
  <2>1. p[1] \in Tries /\ p \in {p[1]} \X (1 .. sends[<<f, d, p[1]>>])
    BY <1>1 DEF Counted
  <2> QED BY <2>1 DEF Carriers
<1>3. ASSUME NEW p \in Carriers(f, d) PROVE p \in Counted(Vector(f, d))
  <2>1. PICK n \in Tries : p \in {n} \X (1 .. sends[<<f, d, n>>])
    BY DEF Carriers
  <2>2. p \in Tries \X Nat /\ p[1] = n /\ p[2] \in 1 .. Vector(f, d)[n]
    BY <1>1, <2>1
  <2> QED BY <2>2 DEF Counted
<1> QED BY <1>2, <1>3

LEMMA HeldCount ==
  ASSUME NEW f, NEW P, \A x, y \in P : x = y
  PROVE  Cardinality(P \cap {f}) = IF f \in P THEN 1 ELSE 0
<1>1. CASE f \in P
  <2>1. P \cap {f} = {f}
    BY <1>1
  <2> QED BY <1>1, <2>1, FS_Singleton
<1>2. CASE f \notin P
  <2>1. P \cap {f} = {}
    BY <1>2
  <2> QED BY <1>2, <2>1, FS_EmptySet
<1> QED BY <1>1, <1>2

LEMMA MaxZero ==
  ASSUME NEW x \in Int PROVE Max({0, x}) = IF x > 0 THEN x ELSE 0
<1> DEFINE M == IF x > 0 THEN x ELSE 0
<1>1. M \in {0, x} /\ \A y \in {0, x} : M >= y
  OBVIOUS
<1>2. \A z \in {0, x} : (\A y \in {0, x} : z >= y) => z = M
  OBVIOUS
<1> HIDE DEF M
<1>3. Max({0, x}) = M
  BY <1>1, <1>2 DEF Max
<1> QED BY <1>3 DEF M

LEMMA FewIsBounded ==
  ASSUME TypeOK, FewCopies PROVE CopiesBounded
<1> SUFFICES ASSUME NEW e \in Events, NEW d \in Servers
             PROVE  Cardinality({i \in DOMAIN queue : queue[i] = e})
                      + Cardinality(popped \cap {e})
                      + Cardinality(Carriers(e, d)) + pending[d][e]
                    <= Max({0, announced[e]})
  BY DEF CopiesBounded
<1>1. Carriers(e, d) = Counted(Vector(e, d))
  BY CarriersCounted
<1>2. announced[e] \in Int
  BY DEF TypeOK
<1>3. Max({0, announced[e]}) = Pushes(e)
  BY <1>2, MaxZero DEF Pushes
<1>4. Copies(e, d) <= Pushes(e)
  BY DEF FewCopies
<1> QED BY <1>1, <1>3, <1>4 DEF Copies, Places

(* All the parts of Copies and Pushes are natural numbers. *)
LEMMA CopiesParts ==
  ASSUME TypeOK, NEW f \in Events, NEW d \in Servers
  PROVE  /\ Cardinality(Places(queue, f)) \in Nat
         /\ Cardinality(popped \cap {f}) = IF f \in popped THEN 1 ELSE 0
         /\ Cardinality(Counted(Vector(f, d))) \in Nat
         /\ pending[d][f] \in Nat
         /\ Pushes(f) \in Nat
<1>1. Cardinality(Places(queue, f)) \in Nat
  BY PlacesFinite DEF TypeOK
<1>2. Cardinality(popped \cap {f}) = IF f \in popped THEN 1 ELSE 0
  BY HeldCount DEF TypeOK
<1>3. Cardinality(Counted(Vector(f, d))) \in Nat
  BY VectorType, CountedFinite
<1>4. pending[d][f] \in Nat
  BY DEF TypeOK
<1>5. announced[f] \in Int
  BY DEF TypeOK
<1> QED BY <1>1, <1>2, <1>3, <1>4, <1>5 DEF Pushes

(* A goroutine of the pair <<e, c>> ends. *)
Ends(e, c, n) ==
  sends[<<e, c, n>>] > 0 /\ sends' = [sends EXCEPT ![<<e, c, n>>] = @ - 1]

LEMMA OneEnds ==
  ASSUME TypeOK, TypeOK', NEW e \in Events, NEW c \in Servers, NEW n \in Tries,
         Ends(e, c, n), NEW f \in Events, NEW d \in Servers
  PROVE  Cardinality(Counted(Vector(f, d)))'
           = Cardinality(Counted(Vector(f, d))) - IF f = e /\ d = c THEN 1 ELSE 0
<1>1. <<e, c, n>> \in Jobs
  BY JobFacts
<1>2. PICK v \in [Tries -> Nat] : v = Vector(f, d)
  BY VectorType
<1>3. PICK w \in [Tries -> Nat] : w = Vector(f, d)'
  <2>1. \A m \in Tries : sends'[<<f, d, m>>] \in Nat
    BY JobFacts DEF TypeOK
  <2> QED BY <2>1 DEF Vector
<1>4. CASE f = e /\ d = c
  <2>1. \A m \in Tries : sends'[<<f, d, m>>] =
          IF m = n THEN sends[<<f, d, m>>] - 1 ELSE sends[<<f, d, m>>]
    BY <1>1, <1>4, JobFacts DEF Ends, TypeOK
  <2>2. w = [v EXCEPT ![n] = v[n] - 1] /\ v[n] > 0
    BY <1>2, <1>3, <1>4, <2>1 DEF Ends, Vector
  <2>3. Cardinality(Counted(w)) = Cardinality(Counted(v)) - 1
    BY <2>2, CountLess
  <2> QED BY <1>2, <1>3, <1>4, <2>3 DEF Counted
<1>5. CASE ~(f = e /\ d = c)
  <2>1. \A m \in Tries : sends'[<<f, d, m>>] = sends[<<f, d, m>>]
    BY <1>1, <1>5, JobFacts DEF Ends, TypeOK
  <2>2. w = v
    BY <1>2, <1>3, <2>1 DEF Ends, Vector
  <2>3. Cardinality(Counted(v)) \in Nat
    BY CountedFinite
  <2> QED BY <1>2, <1>3, <1>5, <2>2, <2>3 DEF Counted
<1> QED BY <1>4, <1>5

(* m goroutines that have not failed yet start for the pair <<f, d>>. *)
LEMMA SomeStart ==
  ASSUME TypeOK, TypeOK', NEW f \in Events, NEW d \in Servers, NEW m \in Nat,
         \A n \in Tries : sends'[<<f, d, n>>] =
           sends[<<f, d, n>>] + IF n = 0 THEN m ELSE 0
  PROVE  Cardinality(Counted(Vector(f, d)))' = Cardinality(Counted(Vector(f, d))) + m
<1>1. PICK v \in [Tries -> Nat] : v = Vector(f, d)
  BY VectorType
<1>2. \A n \in Tries : sends'[<<f, d, n>>] \in Nat /\ sends[<<f, d, n>>] \in Nat
  BY JobFacts DEF TypeOK
<1>3. PICK w \in [Tries -> Nat] : w = Vector(f, d)'
  BY <1>2 DEF Vector
<1>4. \A n \in Tries : w[n] = IF n = 0 THEN v[n] + m ELSE v[n]
  BY <1>1, <1>2, <1>3 DEF Vector
<1>5. Cardinality(Counted(w)) = Cardinality(Counted(v)) + m
  <2>1. Adds(w, v, 0, m)
    BY <1>4 DEF Adds
  <2> QED BY <2>1, CountMore, MaxRetriesTry
<1> QED BY <1>1, <1>3, <1>5 DEF Counted

LEMMA FewCopiesStep ==
  ASSUME TypeOK, TypeOK', FewCopies, [Next]_vars
  PROVE  FewCopies'
<1> DEFINE Q(f) == Cardinality(Places(queue, f))
           H(f) == Cardinality(popped \cap {f})
           G(f, d) == Cardinality(Counted(Vector(f, d)))
<1>Now. ASSUME NEW f \in Events, NEW d \in Servers
      PROVE  /\ Q(f) \in Nat /\ H(f) \in Nat /\ G(f, d) \in Nat /\ pending[d][f] \in Nat
             /\ Pushes(f) \in Nat
             /\ Q(f) + H(f) + G(f, d) + pending[d][f] <= Pushes(f)
  <2>1. H(f) = IF f \in popped THEN 1 ELSE 0
    BY CopiesParts
  <2> QED BY <2>1, CopiesParts DEF FewCopies, Copies
<1>Later. ASSUME NEW f \in Events, NEW d \in Servers
       PROVE  /\ Q(f)' \in Nat /\ H(f)' \in Nat /\ G(f, d)' \in Nat /\ pending'[d][f] \in Nat
              /\ Pushes(f)' \in Nat
              /\ H(f)' = IF f \in popped' THEN 1 ELSE 0
  <2>1. \A x, y \in popped' : x = y
    BY DEF TypeOK
  <2>2. Cardinality(popped' \cap {f}) = IF f \in popped' THEN 1 ELSE 0
    BY <2>1, HeldCount
  <2>3. queue' \in Seq(Events)
    BY DEF TypeOK
  <2>4. Cardinality(Places(queue', f)) \in Nat
    BY <2>3, PlacesFinite
  <2>5. \A n \in Tries : sends'[<<f, d, n>>] \in Nat
    BY JobFacts DEF TypeOK
  <2>6. PICK w \in [Tries -> Nat] : w = Vector(f, d)'
    BY <2>5 DEF Vector
  <2>7. Cardinality(Counted(w)) \in Nat
    BY CountedFinite
  <2>8. pending'[d][f] \in Nat /\ announced'[f] \in Int
    BY DEF TypeOK
  <2> QED BY <2>2, <2>4, <2>6, <2>7, <2>8 DEF Places, Counted, Pushes
<1>Held. ASSUME NEW f \in Events PROVE H(f) = IF f \in popped THEN 1 ELSE 0
  BY HeldCount DEF TypeOK
<1>Goal. ASSUME \A f \in Events, d \in Servers :
               Q(f)' + H(f)' + G(f, d)' + pending'[d][f] <= Pushes(f)'
      PROVE  FewCopies'
  BY <1>Goal DEF FewCopies, Copies
<1>Q. ASSUME queue' = queue, NEW f PROVE Q(f)' = Q(f)
  BY <1>Q DEF Places
<1>H. ASSUME popped' = popped, NEW f PROVE H(f)' = H(f)
  BY <1>H
<1>G. ASSUME sends' = sends, NEW f, NEW d PROVE G(f, d)' = G(f, d)
  BY <1>G DEF Counted, Vector
<1>P. ASSUME announced' = announced, NEW f PROVE Pushes(f)' = Pushes(f)
  BY <1>P DEF Pushes
<1> HIDE DEF Q, H, G
<1>1. ASSUME NEW e \in Events, NEW n \in 0 .. MaxCopies, QueueOutgoing(e, n)
      PROVE  FewCopies'
  <2>1. n \in Nat
    BY OutboxAssumption
  <2>2. Pushed(queue, queue', e, n) /\ queue \in Seq(Events)
    BY <1>1 DEF QueueOutgoing, PushOutboundQueue, Pushed, TypeOK
  <2>3. ASSUME NEW f \in Events
        PROVE  /\ f = e => Q(f)' = Q(f) + n
               /\ f # e => Q(f)' = Q(f)
    <3>1. /\ f = e => Cardinality(Places(queue', f)) = Cardinality(Places(queue, f)) + n
          /\ f # e => Cardinality(Places(queue', f)) = Cardinality(Places(queue, f))
      BY <2>1, <2>2, PlacesPushed
    <3> QED BY <3>1 DEF Q, Places
  <2>4. popped' = popped /\ sends' = sends /\ pending' = pending
    BY <1>1 DEF QueueOutgoing, memory
  <2>5. ASSUME NEW f \in Events
        PROVE  /\ f = e => Pushes(f) = 0 /\ Pushes(f)' = n
               /\ f # e => Pushes(f)' = Pushes(f)
    <3>1. announced'[f] = IF f = e THEN n ELSE announced[f]
      BY <1>1 DEF QueueOutgoing, TypeOK
    <3>2. f = e => announced[f] = -1
      BY <1>1 DEF QueueOutgoing
    <3> QED BY <2>1, <3>1, <3>2 DEF Pushes
  <2>6. ASSUME NEW f \in Events, NEW d \in Servers
        PROVE  Q(f)' + H(f)' + G(f, d)' + pending'[d][f] <= Pushes(f)'
    <3>1. H(f)' = H(f) /\ G(f, d)' = G(f, d) /\ pending'[d][f] = pending[d][f]
      BY <1>H, <1>G, <2>4
    <3> QED BY <1>Now, <2>1, <2>3, <2>5, <3>1
  <2> QED BY <1>Goal, <2>6
<1>2. ASSUME queue # <<>>, queue' = Tail(queue), NEW f \in Events
      PROVE  Q(f)' = Q(f) - IF f = Head(queue) THEN 1 ELSE 0
  <2>1. queue \in Seq(Events)
    BY DEF TypeOK
  <2>2. /\ f = Head(queue) => Cardinality(Places(Tail(queue), f)) = Cardinality(Places(queue, f)) - 1
        /\ f # Head(queue) => Cardinality(Places(Tail(queue), f)) = Cardinality(Places(queue, f))
    BY <1>2, <2>1, PlacesTail
  <2>3. Cardinality(Places(queue, f)) \in Nat
    BY <2>1, PlacesFinite
  <2>4. Q(f)' = Cardinality(Places(Tail(queue), f)) /\ Q(f) = Cardinality(Places(queue, f))
    BY <1>2 DEF Q, Places
  <2>5. CASE f = Head(queue)
    BY <2>2, <2>4, <2>5
  <2>6. CASE f # Head(queue)
    BY <2>2, <2>3, <2>4, <2>6
  <2> QED BY <2>5, <2>6
<1>3. CASE PopOutboundQueue
  <2>1. ASSUME NEW f \in Events, NEW d \in Servers
        PROVE  Q(f)' + H(f)' + G(f, d)' + pending'[d][f] <= Pushes(f)'
    <3>1. Q(f)' = Q(f) - IF f = Head(queue) THEN 1 ELSE 0
      BY <1>2, <1>3 DEF PopOutboundQueue
    <3>2. H(f)' = IF f = Head(queue) THEN 1 ELSE 0
      BY <1>Later, <1>3 DEF PopOutboundQueue
    <3>3. G(f, d)' = G(f, d) /\ pending'[d][f] = pending[d][f] /\ Pushes(f)' = Pushes(f)
      BY <1>G, <1>P, <1>3 DEF PopOutboundQueue, history
    <3> QED BY <1>Now, <3>1, <3>2, <3>3
  <2> QED BY <1>Goal, <2>1
<1>4. CASE PopFails
  <2>1. ASSUME NEW f \in Events, NEW d \in Servers
        PROVE  Q(f)' + H(f)' + G(f, d)' + pending'[d][f] <= Pushes(f)'
    <3>1. Q(f)' = Q(f) - IF f = Head(queue) THEN 1 ELSE 0
      BY <1>2, <1>4 DEF PopFails
    <3>2. /\ H(f)' = H(f) /\ G(f, d)' = G(f, d)
          /\ pending'[d][f] = pending[d][f] /\ Pushes(f)' = Pushes(f)
      BY <1>H, <1>G, <1>P, <1>4 DEF PopFails, memory
    <3> QED BY <1>Now, <3>1, <3>2
  <2> QED BY <1>Goal, <2>1
<1>5. ASSUME NEW e \in Events, NEW D, Start(e, D), e \in popped, popped' = {},
             queue' = queue, pending' = pending, announced' = announced
      PROVE  FewCopies'
  <2>1. ASSUME NEW f \in Events, NEW d \in Servers
        PROVE  Q(f)' + H(f)' + G(f, d)' + pending'[d][f] <= Pushes(f)'
    <3>1. PICK m \in Nat : m = IF f = e /\ d \in D THEN 1 ELSE 0
      OBVIOUS
    <3>2. \A n \in Tries : sends'[<<f, d, n>>] = sends[<<f, d, n>>] + IF n = 0 THEN m ELSE 0
      <4> SUFFICES ASSUME NEW n \in Tries
                   PROVE  sends'[<<f, d, n>>] = sends[<<f, d, n>>] + IF n = 0 THEN m ELSE 0
        OBVIOUS
      <4>1. PICK j \in Jobs : j = <<f, d, n>> /\ j[1] = f /\ j[2] = d /\ j[3] = n
        BY JobFacts
      <4>2. sends'[j] = sends[j] + IF j[1] = e /\ j[2] \in D /\ j[3] = 0 THEN 1 ELSE 0
        BY <1>5 DEF Start
      <4> QED BY <3>1, <4>1, <4>2
    <3>3. G(f, d)' = G(f, d) + m
      BY <3>2, SomeStart DEF G
    <3>4. H(f)' = 0 /\ m <= H(f)
      BY <1>Later, <1>Held, <1>5, <3>1
    <3>5. Q(f)' = Q(f) /\ pending'[d][f] = pending[d][f] /\ Pushes(f)' = Pushes(f)
      BY <1>Q, <1>P, <1>5
    <3> QED BY <1>Now, <3>3, <3>4, <3>5
  <2> QED BY <1>Goal, <2>1
<1>6. ASSUME NEW e \in Events, NEW P, StartWorker(e, P) \/ ExtractFails(e, P)
      PROVE  FewCopies'
  BY <1>5, <1>6 DEF StartWorker, ExtractFails, redis
<1>7. ASSUME NEW e \in Events, NEW c \in Servers, NEW n \in Tries,
             SendAccepted(e, c, n) \/ GoroutineFails(e, c, n)
      PROVE  FewCopies'
  <2>1. ASSUME NEW f \in Events, NEW d \in Servers
        PROVE  Q(f)' + H(f)' + G(f, d)' + pending'[d][f] <= Pushes(f)'
    <3>1. G(f, d)' = G(f, d) - IF f = e /\ d = c THEN 1 ELSE 0
      <4>1. Ends(e, c, n)
        BY <1>7 DEF SendAccepted, GoroutineFails, Ends
      <4> QED BY <4>1, OneEnds DEF G
    <3>2. /\ Q(f)' = Q(f) /\ H(f)' = H(f)
          /\ pending'[d][f] = pending[d][f] /\ Pushes(f)' = Pushes(f)
      BY <1>Q, <1>H, <1>P, <1>7 DEF SendAccepted, GoroutineFails, redis
    <3> QED BY <1>Now, <3>1, <3>2
  <2> QED BY <1>Goal, <2>1
<1>8. ASSUME NEW e \in Events, NEW c \in Servers, StorePendingRetry(e, c)
      PROVE  FewCopies'
  <2>1. ASSUME NEW f \in Events, NEW d \in Servers
        PROVE  Q(f)' + H(f)' + G(f, d)' + pending'[d][f] <= Pushes(f)'
    <3>1. G(f, d)' = G(f, d) - IF f = e /\ d = c THEN 1 ELSE 0
      <4>1. PICK n \in Tries : Ends(e, c, n)
        BY <1>8, MaxRetriesTry DEF StorePendingRetry, Ends
      <4> QED BY <4>1, OneEnds DEF G
    <3>2. pending'[d][f] = pending[d][f] + IF f = e /\ d = c THEN 1 ELSE 0
      BY <1>8 DEF StorePendingRetry, TypeOK
    <3>3. Q(f)' = Q(f) /\ H(f)' = H(f) /\ Pushes(f)' = Pushes(f)
      BY <1>Q, <1>H, <1>P, <1>8 DEF StorePendingRetry, history
    <3> QED BY <1>Now, <3>1, <3>2, <3>3
  <2> QED BY <1>Goal, <2>1
<1>9. ASSUME NEW e \in Events, NEW c \in Servers, NEW n \in Tries, SendFailed(e, c, n)
      PROVE  FewCopies'
  <2>1. n + 1 \in Tries /\ n + 1 # n
    BY <1>9, OutboxAssumption DEF SendFailed, Tries
  <2>2. <<e, c, n>> \in Jobs /\ <<e, c, n + 1>> \in Jobs
    BY <2>1, JobFacts
  <2>3. ASSUME NEW f \in Events, NEW d \in Servers PROVE G(f, d)' = G(f, d)
    <3>1. PICK v \in [Tries -> Nat] : v = Vector(f, d)
      BY VectorType
    <3>2. \A m \in Tries : sends'[<<f, d, m>>] \in Nat
      BY JobFacts DEF TypeOK
    <3>3. PICK w \in [Tries -> Nat] : w = Vector(f, d)'
      BY <3>2 DEF Vector
    <3>4. CASE f = e /\ d = c
      <4>1. \A m \in Tries : sends'[<<f, d, m>>] =
              IF m = n + 1 THEN sends[<<f, d, m>>] + 1
              ELSE IF m = n THEN sends[<<f, d, m>>] - 1 ELSE sends[<<f, d, m>>]
        BY <1>9, <2>1, <2>2, <3>4, JobFacts DEF SendFailed, TypeOK
      <4>2. v[n] > 0
        BY <1>9, <3>1, <3>4 DEF SendFailed, Vector
      <4>3. \A m \in Tries : w[m] = IF m = n + 1 THEN v[m] + 1
                                   ELSE IF m = n THEN v[m] - 1 ELSE v[m]
        BY <3>1, <3>3, <4>1 DEF Vector
      <4>4. Cardinality(Counted(w)) = Cardinality(Counted(v))
        BY <2>1, <4>2, <4>3, CountMoves
      <4> QED BY <3>1, <3>3, <4>4 DEF G, Counted
    <3>5. CASE ~(f = e /\ d = c)
      <4>1. \A m \in Tries : sends'[<<f, d, m>>] = sends[<<f, d, m>>]
        BY <1>9, <2>2, <3>5, JobFacts DEF SendFailed, TypeOK
      <4>2. w = v
        BY <3>1, <3>3, <4>1 DEF Vector
      <4> QED BY <3>1, <3>3, <4>2 DEF G, Counted
    <3> QED BY <3>4, <3>5
  <2>4. queue' = queue /\ popped' = popped /\ pending' = pending /\ announced' = announced
    BY <1>9 DEF SendFailed, redis, history
  <2>5. ASSUME NEW f \in Events, NEW d \in Servers
        PROVE  Q(f)' + H(f)' + G(f, d)' + pending'[d][f] <= Pushes(f)'
    <3>1. /\ Q(f)' = Q(f) /\ H(f)' = H(f)
          /\ pending'[d][f] = pending[d][f] /\ Pushes(f)' = Pushes(f)
      BY <1>Q, <1>H, <1>P, <2>4
    <3> QED BY <1>Now, <2>3, <3>1
  <2> QED BY <1>Goal, <2>5
<1>10. ASSUME NEW c \in Servers, FlushPendingRetries(c) PROVE FewCopies'
  <2>1. ASSUME NEW f \in Events, NEW d \in Servers
        PROVE  Q(f)' + H(f)' + G(f, d)' + pending'[d][f] <= Pushes(f)'
    <3>1. PICK m \in Nat : m = IF d = c THEN pending[d][f] ELSE 0
      BY <1>Now
    <3>2. \A n \in Tries : sends'[<<f, d, n>>] = sends[<<f, d, n>>] + IF n = 0 THEN m ELSE 0
      <4> SUFFICES ASSUME NEW n \in Tries
                   PROVE  sends'[<<f, d, n>>] = sends[<<f, d, n>>] + IF n = 0 THEN m ELSE 0
        OBVIOUS
      <4>1. PICK j \in Jobs : j = <<f, d, n>> /\ j[1] = f /\ j[2] = d /\ j[3] = n
        BY JobFacts
      <4>2. sends'[j] = sends[j] + IF j[2] = c /\ j[3] = 0 THEN pending[c][j[1]] ELSE 0
        BY <1>10 DEF FlushPendingRetries
      <4> QED BY <3>1, <4>1, <4>2
    <3>3. G(f, d)' = G(f, d) + m
      BY <3>2, SomeStart DEF G
    <3>4. pending'[d][f] = IF d = c THEN 0 ELSE pending[d][f]
      BY <1>10 DEF FlushPendingRetries, TypeOK
    <3>5. Q(f)' = Q(f) /\ H(f)' = H(f) /\ Pushes(f)' = Pushes(f)
      BY <1>Q, <1>H, <1>P, <1>10 DEF FlushPendingRetries, history
    <3> QED BY <1>Now, <3>1, <3>3, <3>4, <3>5
  <2> QED BY <1>Goal, <2>1
<1>11. ASSUME NEW c \in Servers, PendingVanishes(c) PROVE FewCopies'
  <2>1. ASSUME NEW f \in Events, NEW d \in Servers
        PROVE  Q(f)' + H(f)' + G(f, d)' + pending'[d][f] <= Pushes(f)'
    <3>1. pending'[d][f] = IF d = c THEN 0 ELSE pending[d][f]
      BY <1>11 DEF PendingVanishes, TypeOK
    <3>2. Q(f)' = Q(f) /\ H(f)' = H(f) /\ G(f, d)' = G(f, d) /\ Pushes(f)' = Pushes(f)
      BY <1>Q, <1>H, <1>G, <1>P, <1>11 DEF PendingVanishes, memory
    <3> QED BY <1>Now, <3>1, <3>2
  <2> QED BY <1>Goal, <2>1
<1>12. CASE Crash
  <2>1. ASSUME NEW f \in Events, NEW d \in Servers
        PROVE  Q(f)' + H(f)' + G(f, d)' + pending'[d][f] <= Pushes(f)'
    <3>1. \A n \in Tries : sends'[<<f, d, n>>] = 0
      BY <1>12, JobFacts DEF Crash
    <3>2. Counted(Vector(f, d))' = {}
      BY <3>1 DEF Counted, Vector
    <3>3. G(f, d)' = 0
      BY <3>2, FS_EmptySet DEF G
    <3>4. H(f)' = 0
      BY <1>Later, <1>12 DEF Crash
    <3>5. Q(f)' = Q(f) /\ pending'[d][f] = pending[d][f] /\ Pushes(f)' = Pushes(f)
      BY <1>Q, <1>P, <1>12 DEF Crash, redis
    <3> QED BY <1>Now, <3>3, <3>4, <3>5
  <2> QED BY <1>Goal, <2>1
<1>13. CASE UNCHANGED vars
  <2>1. ASSUME NEW f \in Events, NEW d \in Servers
        PROVE  Q(f)' + H(f)' + G(f, d)' + pending'[d][f] <= Pushes(f)'
    <3>1. /\ Q(f)' = Q(f) /\ H(f)' = H(f) /\ G(f, d)' = G(f, d)
          /\ pending'[d][f] = pending[d][f] /\ Pushes(f)' = Pushes(f)
      BY <1>Q, <1>H, <1>G, <1>P, <1>13 DEF vars, redis, memory, history
    <3> QED BY <1>Now, <3>1
  <2> QED BY <1>Goal, <2>1
<1> QED BY <1>1, <1>3, <1>4, <1>6, <1>7, <1>8, <1>9, <1>10, <1>11, <1>12, <1>13
        DEF Next, Work, Fault, Announce, Dispatch, Send

(***************************************************************************)
(* Retrying, parking and flushing never multiply an event: for any number  *)
(* of tries, the copies that may still reach a server are at most as many  *)
(* as were pushed to the queue.                                            *)
(***************************************************************************)
THEOREM RetriesNeverMultiply == Spec => []CopiesBounded
<1>1. Init => TypeOK
  BY OutboxAssumption DEF Init, TypeOK
<1>2. Init => FewCopies
  <2> SUFFICES ASSUME Init, NEW f \in Events, NEW d \in Servers
               PROVE  Copies(f, d) <= Pushes(f)
    BY DEF FewCopies
  <2>1. Places(queue, f) = {} /\ popped \cap {f} = {}
    BY DEF Init, Places
  <2>2. Counted(Vector(f, d)) = {}
    <3>1. \A n \in Tries : sends[<<f, d, n>>] = 0
      BY JobFacts DEF Init
    <3> QED BY <3>1 DEF Counted, Vector
  <2>3. pending[d][f] = 0 /\ announced[f] = -1
    BY DEF Init
  <2> QED BY <2>1, <2>2, <2>3, FS_EmptySet DEF Copies, Pushes
<1>3. TypeOK /\ FewCopies /\ [Next]_vars => FewCopies'
  BY TypeInvariant, FewCopiesStep
<1>4. TypeOK /\ FewCopies => CopiesBounded
  BY FewIsBounded
<1> QED BY <1>1, <1>2, <1>3, <1>4, TypeInvariant, PTL DEF Spec

=============================================================================
