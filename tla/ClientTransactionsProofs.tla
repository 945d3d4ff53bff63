---------------------- MODULE ClientTransactionsProofs ----------------------
(***************************************************************************)
(* Proofs about ClientTransactions, for any transactions, devices, threads *)
(* and tokens.                                                             *)
(*                                                                         *)
(* That every copy has a cause is a matter of counting: a request that is  *)
(* under way will store a copy too, and one copy needs no cause as long as *)
(* its answer is, or is going to be, under the key that the client asks    *)
(* for.                                                                    *)
(***************************************************************************)
EXTENDS ClientTransactions, FiniteSetTheorems, TLAPS

(* a is an answer to a request of x whose own work was done. *)
Stored(x, a) ==
  /\ Done(x)
  /\ x.kind = "event" => \E n \in 1 .. copies[x]["room"] : a = Answer(x, n)

(* a is an answer to x: some transaction with its endpoint and id was done. *)
Proper(x, a) ==
  /\ \E y \in Txns : Endpoint(y) = Endpoint(x) /\ y.id = x.id /\ Done(y)
  /\ x.kind = "event" => \E n \in 1 .. copies[x]["room"] : a = Answer(x, n)

(* The request r is about one transaction, and did what it does not owe. *)
Sound(r) ==
  r.pc \in {"send", "set"} =>
    /\ \E k \in Tokens : r.key = BuildKey(k, r.txn)
    /\ r.todo \subseteq Parts(r.txn) /\ r.skip \subseteq skipped[r.txn]
    /\ \A p \in Parts(r.txn) \ (r.todo \cup r.skip) : copies[r.txn][p] > 0
    /\ r.pc = "set" => Stored(r.txn, r.answer)

RequestsSound == \A t \in Threads : Sound(req[t])

CacheSound ==
  \A x \in Txns, k \in Tokens :
    BuildKey(k, x) \in DOMAIN cache => Proper(x, cache[BuildKey(k, x)])

(* The requests that are still to store part p of x. *)
Work(x, p) == {t \in Threads : Serving(t, x) /\ p \in req[t].todo}

TriesCount ==
  \A x \in Txns : \A p \in Parts(x) : copies[x][p] + Cardinality(Work(x, p)) <= tries[x]

(* The answer under the client's present token is stored, or on its way. *)
Current(x) ==
  \/ BuildKey(token, x) \in DOMAIN cache
  \/ \E t \in Threads : Serving(t, x) /\ req[t].key = BuildKey(token, x)

(* All the requests that the client may send are accounted for. *)
Enough(x) == MaxTries <= causes[x] + 1

CausesCount ==
  \A x \in Txns : \A p \in Parts(x) :
    \/ Enough(x)
    \/ copies[x][p] + Cardinality(Work(x, p)) <= causes[x]
    \/ Current(x) /\ copies[x][p] + Cardinality(Work(x, p)) <= causes[x] + 1

(* A request under way is the one free copy of no part that it left out. *)
SkipCount ==
  \A t \in Threads, x \in Txns : \A p \in Parts(x) :
    Serving(t, x) /\ p \in req[t].skip =>
      Enough(x) \/ copies[x][p] + Cardinality(Work(x, p)) <= causes[x]

IInv ==
  /\ TypeOK /\ AnswerHasItsWork /\ RequestsSound /\ CacheSound
  /\ TriesCount /\ CausesCount /\ SkipCount

-----------------------------------------------------------------------------
(* Facts about the helpers. *)

LEMMA TxnFacts ==
  ASSUME NEW x \in Txns
  PROVE  /\ Parts(x) \subseteq AllParts
         /\ x.kind = "event" => Parts(x) = {"room"}
         /\ x.kind # "event" => Wild \subseteq Parts(x)
         /\ Endpoint(x) \in Paths \cup {"sendToDevice"} /\ x.id \in TxnIds
         /\ \A k \in Tokens : BuildKey(k, x) \in Keys
         /\ \A n \in 0 .. MaxTries : Answer(x, n) \in Answers
BY TransactionsAssumption
   DEF Txns, Events, Messages, Parts, AllParts, Endpoint, BuildKey, Keys, Answers

(* Transactions with the same key have the same endpoint; events are the same. *)
LEMMA KeyFacts ==
  ASSUME NEW x \in Txns, NEW y \in Txns, NEW k, NEW l, BuildKey(k, x) = BuildKey(l, y)
  PROVE  /\ k = l /\ Endpoint(x) = Endpoint(y) /\ x.id = y.id
         /\ x.kind = "event" => x = y
<1>1. k = l /\ Endpoint(x) = Endpoint(y) /\ x.id = y.id
  BY DEF BuildKey
<1>2. ASSUME x.kind = "event" PROVE x = y
  <2>1. x \in Events /\ Endpoint(x) \in Paths
    BY <1>2 DEF Txns, Events, Messages, Endpoint
  <2>2. y \in Events
    BY <1>1, <2>1, TransactionsAssumption DEF Txns, Events, Messages, Endpoint
  <2>3. x.path = y.path
    BY <1>1, <2>1, <2>2 DEF Events, Endpoint
  <2> QED BY <1>1, <2>1, <2>2, <2>3 DEF Events
<1> QED BY <1>1, <1>2

LEMMA IdleFacts ==
  Idle \in Request /\ Idle.pc = "idle"
<1>1. PICK x \in Txns : TRUE
  <2>1. PICK i \in TxnIds, q \in Paths \cup Types : TRUE
    BY TransactionsAssumption
  <2>2. CASE q \in Paths
    <3>1. [kind |-> "event", path |-> q, id |-> i] \in Txns
      BY <2>1, <2>2 DEF Txns, Events
    <3> QED BY <3>1
  <2>3. CASE q \in Types
    <3>1. [kind |-> "device", path |-> q, id |-> i] \in Txns
      BY <2>1, <2>3 DEF Txns, Messages
    <3> QED BY <3>1
  <2> QED BY <2>1, <2>2, <2>3
<1>3. 1 \in Tokens /\ 0 \in 0 .. MaxTries
  BY TransactionsAssumption DEF Tokens
<1>4. BuildKey(1, x) \in Keys /\ Answer(x, 0) \in Answers
  BY <1>3, TxnFacts
<1>5. [pc |-> "idle", txn |-> x, key |-> BuildKey(1, x), skip |-> {}, todo |-> {},
       answer |-> Answer(x, 0)] \in Request
  BY <1>4 DEF Request
<1>6. \E r \in Request : r.pc = "idle"
  BY <1>5
<1> QED BY <1>6 DEF Idle

LEMMA RequestFacts ==
  ASSUME TypeOK, NEW t \in Threads
  PROVE  /\ req[t] \in Request /\ req[t].txn \in Txns /\ req[t].key \in Keys
         /\ req[t].answer \in Answers /\ req[t].todo \subseteq AllParts
         /\ req[t].skip \subseteq Wild
BY DEF TypeOK, Request

LEMMA WorkFinite ==
  ASSUME NEW x, NEW p
  PROVE  IsFiniteSet(Work(x, p)) /\ Cardinality(Work(x, p)) \in Nat
<1>1. Work(x, p) \subseteq Threads
  BY DEF Work
<1>2. IsFiniteSet(Work(x, p))
  BY <1>1, TransactionsAssumption, FS_Subset
<1> QED BY <1>2, FS_CardinalityType

(* How the work that is owed changes with the record of one thread. *)
LEMMA EnterWork ==
  ASSUME TypeOK, NEW t \in Threads, NEW r, Enter(t, r), NEW x, NEW p
  PROVE  LET a == Serving(t, x) /\ p \in req[t].todo
             b == r.pc \in {"send", "set"} /\ r.txn = x /\ p \in r.todo
         IN  /\ ~a /\ b => Cardinality(Work(x, p)') = Cardinality(Work(x, p)) + 1
             /\ a /\ ~b => Cardinality(Work(x, p)') = Cardinality(Work(x, p)) - 1
             /\ (a <=> b) => Work(x, p)' = Work(x, p)
<1> DEFINE a == Serving(t, x) /\ p \in req[t].todo
           b == r.pc \in {"send", "set"} /\ r.txn = x /\ p \in r.todo
<1>1. req'[t] = r /\ \A u \in Threads \ {t} : req'[u] = req[u]
  BY DEF TypeOK, Enter
<1>2. Work(x, p)' = {u \in Threads : req'[u].pc \in {"send", "set"} /\ req'[u].txn = x
                                       /\ p \in req'[u].todo}
  BY DEF Work, Serving
<1>3. Work(x, p) = {u \in Threads : req[u].pc \in {"send", "set"} /\ req[u].txn = x
                                      /\ p \in req[u].todo}
  BY DEF Work, Serving
<1>4. (t \in Work(x, p) <=> a) /\ (t \in Work(x, p)' <=> b)
  BY <1>1, <1>2 DEF Work
<1>5. \A u \in Threads \ {t} : u \in Work(x, p)' <=> u \in Work(x, p)
  BY <1>1, <1>2, <1>3
<1>6. IsFiniteSet(Work(x, p)) /\ Cardinality(Work(x, p)) \in Nat
  BY WorkFinite
<1>7. CASE ~a /\ b
  <2>1. Work(x, p)' = Work(x, p) \cup {t} /\ t \notin Work(x, p)
    BY <1>2, <1>3, <1>4, <1>5, <1>7
  <2>2. Cardinality(Work(x, p)') = Cardinality(Work(x, p)) + 1
    BY <1>6, <2>1, FS_AddElement
  <2> QED BY <1>7, <2>2
<1>8. CASE a /\ ~b
  <2>1. Work(x, p)' = Work(x, p) \ {t} /\ t \in Work(x, p)
    BY <1>2, <1>3, <1>4, <1>5, <1>8
  <2>2. Cardinality(Work(x, p)') = Cardinality(Work(x, p)) - 1
    BY <1>6, <2>1, FS_RemoveElement
  <2> QED BY <1>8, <2>2
<1>9. CASE a <=> b
  <2>1. Work(x, p)' = Work(x, p)
    BY <1>2, <1>3, <1>4, <1>5, <1>9
  <2> QED BY <1>9, <2>1
<1> QED BY <1>7, <1>8, <1>9

(* Copies are not taken back, nor forgotten what was left out. *)
Grows ==
  /\ \A x \in Txns, p \in AllParts : copies'[x][p] \in Nat /\ copies'[x][p] >= copies[x][p]
  /\ \A x \in Txns : skipped[x] \subseteq skipped'[x]

LEMMA GrowsFacts ==
  ASSUME TypeOK, Grows, NEW x \in Txns
  PROVE  /\ \A p \in Parts(x) : copies[x][p] > 0 => copies'[x][p] > 0
         /\ skipped[x] \subseteq skipped'[x]
         /\ Done(x) => Done(x)'
         /\ 1 .. copies[x]["room"] \subseteq 1 .. copies'[x]["room"]
<1>1. \A p \in AllParts : copies[x][p] \in Nat
  BY DEF TypeOK
<1>2. Parts(x) \subseteq AllParts /\ "room" \in AllParts
  BY TxnFacts DEF AllParts
<1>3. \A p \in Parts(x) : copies[x][p] > 0 => copies'[x][p] > 0
  <2> SUFFICES ASSUME NEW p \in Parts(x), copies[x][p] > 0 PROVE copies'[x][p] > 0
    OBVIOUS
  <2>1. copies[x][p] \in Nat /\ copies'[x][p] \in Nat /\ copies'[x][p] >= copies[x][p]
    BY <1>1, <1>2 DEF Grows
  <2> QED BY <2>1
<1>4. skipped[x] \subseteq skipped'[x]
  BY DEF Grows
<1>5. /\ copies[x]["room"] \in Nat /\ copies'[x]["room"] \in Nat
      /\ copies'[x]["room"] >= copies[x]["room"]
  BY <1>1, <1>2 DEF Grows
<1> QED BY <1>3, <1>4, <1>5 DEF Done

LEMMA StoredGrows ==
  ASSUME TypeOK, Grows, NEW x \in Txns, NEW a
  PROVE  /\ Stored(x, a) => Stored(x, a)'
         /\ Proper(x, a) => Proper(x, a)'
<1>1. \A y \in Txns : Done(y) => Done(y)'
  BY GrowsFacts
<1>2. 1 .. copies[x]["room"] \subseteq 1 .. copies'[x]["room"]
  BY GrowsFacts
<1> QED BY <1>1, <1>2 DEF Stored, Proper

(* What is done stays so: the answers given and the answers kept. *)
LEMMA AnswersKept ==
  ASSUME IInv, Grows, UNCHANGED answered, DOMAIN cache' \subseteq DOMAIN cache,
         \A z \in DOMAIN cache' : cache'[z] = cache[z]
  PROVE  AnswerHasItsWork' /\ CacheSound'
<1>1. AnswerHasItsWork'
  <2> SUFFICES ASSUME NEW x \in Txns, NEW a \in answered[x] PROVE Proper(x, a)'
    BY DEF AnswerHasItsWork, Proper
  <2>1. Proper(x, a)
    BY DEF IInv, AnswerHasItsWork, Proper
  <2> QED BY <2>1, StoredGrows DEF IInv
<1>2. CacheSound'
  <2> SUFFICES ASSUME NEW x \in Txns, NEW k \in Tokens, BuildKey(k, x) \in DOMAIN cache'
               PROVE  Proper(x, cache[BuildKey(k, x)])'
    BY DEF CacheSound
  <2>1. PICK a : a = cache[BuildKey(k, x)]
    OBVIOUS
  <2>2. Proper(x, a)
    BY <2>1 DEF IInv, CacheSound
  <2>3. Proper(x, a)'
    BY <2>2, StoredGrows DEF IInv
  <2>4. cache'[BuildKey(k, x)] = a
    BY <2>1
  <2> QED BY <2>3, <2>4 DEF Proper, BuildKey, Endpoint
<1> QED BY <1>1, <1>2

(* And the requests of the other threads. *)
LEMMA SoundKept ==
  ASSUME IInv, Grows, NEW u \in Threads, req'[u] = req[u]
  PROVE  Sound(req[u])'
<1>1. Sound(req[u]) /\ req[u].txn \in Txns
  BY RequestFacts DEF IInv, RequestsSound
<1>2. PICK y \in Txns : y = req[u].txn
  BY <1>1
<1>3. PICK a : a = req[u].answer
  OBVIOUS
<1>4. Stored(y, a) => Stored(y, a)'
  BY StoredGrows DEF IInv
<1>5. /\ \A z \in Parts(y) : copies[y][z] > 0 => copies'[y][z] > 0
      /\ skipped[y] \subseteq skipped'[y]
  BY GrowsFacts DEF IInv
<1> QED BY <1>1, <1>2, <1>3, <1>4, <1>5 DEF Sound, Stored, Done, BuildKey, Endpoint

LEMMA SameGrows ==
  ASSUME TypeOK, UNCHANGED <<copies, skipped>>
  PROVE  Grows
BY DEF TypeOK, Grows

(* The client receives an answer that is right, or none. *)
LEMMA RespondFacts ==
  ASSUME IInv, NEW x \in Txns, NEW a \in Answers, Proper(x, a), Respond(x, a),
         UNCHANGED <<copies, skipped>>
  PROVE  /\ answered' \in [Txns -> SUBSET Answers] /\ faults' \in 0 .. MaxFaults
         /\ AnswerHasItsWork'
<1>1. /\ answered' \in [Txns -> SUBSET Answers]
      /\ \A y \in Txns : \A b \in answered'[y] : b \in answered[y] \/ (y = x /\ b = a)
  BY DEF IInv, TypeOK, Respond
<1>2. faults' \in 0 .. MaxFaults
  BY TransactionsAssumption DEF IInv, TypeOK, Respond
<1>3. AnswerHasItsWork'
  <2> SUFFICES ASSUME NEW y \in Txns, NEW b \in answered'[y] PROVE Proper(y, b)'
    BY DEF AnswerHasItsWork, Proper
  <2>1. Proper(y, b)
    BY <1>1 DEF IInv, AnswerHasItsWork, Proper
  <2> QED BY <2>1, StoredGrows, SameGrows DEF IInv
<1> QED BY <1>1, <1>2, <1>3

-----------------------------------------------------------------------------
(* One lemma per action. *)

LEMMA HitStep ==
  ASSUME IInv, NEW x \in Txns, Hit(x)
  PROVE  IInv'
<1> DEFINE key == BuildKey(token, x)
<1>1. /\ tries[x] < MaxTries /\ key \in DOMAIN cache /\ begun' = begun \cup {x}
      /\ tries' = [tries EXCEPT ![x] = @ + 1] /\ Respond(x, cache[key])
      /\ UNCHANGED <<cache, redis, token, req, copies, skipped, causes>>
  BY DEF Hit, Try, Send, Get
<1>2. token \in Tokens /\ tries \in [Txns -> 0 .. MaxTries] /\ MaxTries \in Nat
  BY TransactionsAssumption DEF IInv, TypeOK
<1>3. Proper(x, cache[key]) /\ cache[key] \in Answers
  BY <1>1, <1>2 DEF IInv, TypeOK, CacheSound, Range
<1>4. PICK a \in Answers : a = cache[key]
  BY <1>3
<1>5. /\ answered' \in [Txns -> SUBSET Answers] /\ faults' \in 0 .. MaxFaults
      /\ AnswerHasItsWork'
  BY <1>1, <1>3, <1>4, RespondFacts
<1>6. tries' \in [Txns -> 0 .. MaxTries] /\ \A y \in Txns : tries'[y] >= tries[y]
  BY <1>1, <1>2
<1>7. TypeOK'
  BY <1>1, <1>5, <1>6 DEF IInv, TypeOK
<1>8. RequestsSound'
  BY <1>1, SameGrows, SoundKept DEF IInv, RequestsSound
<1>9. CacheSound'
  BY <1>1 DEF IInv, CacheSound, Proper, Done
<1>10. \A y, p : Work(y, p)' = Work(y, p)
  BY <1>1 DEF Work, Serving
<1>11. TriesCount'
  <2> SUFFICES ASSUME NEW y \in Txns, NEW p \in Parts(y)
               PROVE  copies'[y][p] + Cardinality(Work(y, p)') <= tries'[y]
    BY DEF TriesCount
  <2>1. copies[y][p] + Cardinality(Work(y, p)) <= tries[y]
    BY DEF IInv, TriesCount
  <2>2. copies[y][p] \in Nat /\ Cardinality(Work(y, p)) \in Nat
    BY TxnFacts, WorkFinite DEF IInv, TypeOK
  <2> QED BY <1>1, <1>2, <1>6, <1>10, <2>1, <2>2
<1>12. CausesCount' /\ SkipCount'
  <2>1. \A y : Current(y)' <=> Current(y)
    BY <1>1 DEF Current, Serving
  <2> QED BY <1>1, <1>10, <2>1 DEF IInv, CausesCount, SkipCount, Serving, Enough
<1> QED BY <1>5, <1>7, <1>8, <1>9, <1>11, <1>12 DEF IInv

(* A further cause counts, or enough of them were counted. *)
LEMMA AnotherFacts ==
  ASSUME NEW n \in Nat
  PROVE  /\ Another(n) \in Nat /\ Another(n) >= n
         /\ Another(n) = n + 1 \/ MaxTries <= Another(n) + 1
BY TransactionsAssumption DEF Another

(* What is counted, as numbers. *)
LEMMA CountFacts ==
  ASSUME IInv, NEW x \in Txns, NEW p \in Parts(x)
  PROVE  /\ p \in AllParts /\ copies[x][p] \in Nat /\ Cardinality(Work(x, p)) \in Nat
         /\ tries[x] \in 0 .. MaxTries /\ causes[x] \in Nat /\ MaxTries \in Nat
         /\ copies[x][p] + Cardinality(Work(x, p)) <= tries[x]
         /\ copies[x][p] + Cardinality(Work(x, p)) <= causes[x] + 1
         /\ \/ MaxTries <= causes[x] + 1
            \/ Current(x)
            \/ copies[x][p] + Cardinality(Work(x, p)) <= causes[x]
         /\ \A t \in Threads : Serving(t, x) /\ p \in req[t].skip =>
              \/ MaxTries <= causes[x] + 1
              \/ copies[x][p] + Cardinality(Work(x, p)) <= causes[x]
<1>1. /\ p \in AllParts /\ copies[x][p] \in Nat /\ Cardinality(Work(x, p)) \in Nat
      /\ tries[x] \in 0 .. MaxTries /\ causes[x] \in Nat /\ MaxTries \in Nat
  BY TxnFacts, WorkFinite, TransactionsAssumption DEF IInv, TypeOK
<1>2. copies[x][p] + Cardinality(Work(x, p)) <= tries[x]
  BY DEF IInv, TriesCount
<1>3. \/ MaxTries <= causes[x] + 1
      \/ copies[x][p] + Cardinality(Work(x, p)) <= causes[x]
      \/ Current(x) /\ copies[x][p] + Cardinality(Work(x, p)) <= causes[x] + 1
  BY DEF IInv, CausesCount, Enough
<1>4. \A t \in Threads : Serving(t, x) /\ p \in req[t].skip =>
        \/ MaxTries <= causes[x] + 1
        \/ copies[x][p] + Cardinality(Work(x, p)) <= causes[x]
  BY DEF IInv, SkipCount, Enough
<1> QED BY <1>1, <1>2, <1>3, <1>4

LEMMA MissStep ==
  ASSUME IInv, NEW t \in Threads, NEW x \in Txns, Miss(t, x)
  PROVE  IInv'
<1>0. PICK S \in Expansions(x) : Begin(t, x, S)
  BY DEF Miss
<1> DEFINE key == BuildKey(token, x)
           q == IF Parts(x) \ S = {} THEN "set" ELSE "send"
           r == [Idle EXCEPT !.pc = q, !.txn = x, !.key = key, !.skip = S,
                             !.todo = Parts(x) \ S, !.answer = Answer(x, 0)]
           known == key \in DOMAIN cache \/ \E u \in Threads : Serving(u, x)
<1>1. /\ req[t].pc = "idle" /\ tries[x] < MaxTries /\ begun' = begun \cup {x}
      /\ tries' = [tries EXCEPT ![x] = @ + 1] /\ Enter(t, r)
      /\ skipped' = [skipped EXCEPT ![x] = @ \cup S]
      /\ UNCHANGED <<cache, redis, token, copies, answered, faults>>
  BY <1>0 DEF Miss, Try, Send, Begin
<1>2. (known /\ causes' = [causes EXCEPT ![x] = Another(@)]) \/ (~known /\ causes' = causes)
  BY DEF Miss, Cause
<1>3. /\ token \in Tokens /\ key \in Keys /\ Parts(x) \subseteq AllParts
      /\ Answer(x, 0) \in Answers /\ S \subseteq Wild
      /\ x.kind = "event" => Parts(x) \ S # {}
  <2>1. token \in Tokens /\ 0 \in 0 .. MaxTries
    BY TransactionsAssumption DEF IInv, TypeOK
  <2>2. S \subseteq Wild /\ (x.kind = "event" => S = {})
    BY DEF Expansions
  <2>3. x.kind = "event" => Parts(x) = {"room"}
    BY TxnFacts
  <2> QED BY <2>1, <2>2, <2>3, TxnFacts
<1>4. q \in {"send", "set"} /\ (q = "set" <=> Parts(x) \ S = {})
  OBVIOUS
<1> HIDE DEF q, key
<1>5. /\ r \in Request /\ r.pc = q /\ r.txn = x /\ r.key = key /\ r.skip = S
      /\ r.todo = Parts(x) \ S /\ r.answer = Answer(x, 0)
  BY <1>3, <1>4, IdleFacts DEF Request
<1> HIDE DEF r
<1>6. /\ req' \in [Threads -> Request] /\ req'[t] = r
      /\ \A u \in Threads \ {t} : req'[u] = req[u]
  BY <1>1, <1>5 DEF IInv, TypeOK, Enter
<1>7. /\ causes' \in [Txns -> Nat] /\ tries' \in [Txns -> 0 .. MaxTries]
      /\ tries'[x] = tries[x] + 1 /\ \A y \in Txns \ {x} : tries'[y] = tries[y]
      /\ \A y \in Txns \ {x} : causes'[y] = causes[y]
  BY <1>1, <1>2, AnotherFacts, TransactionsAssumption DEF IInv, TypeOK
<1>8. /\ skipped' \in [Txns -> SUBSET Wild] /\ S \subseteq skipped'[x]
      /\ \A y \in Txns : skipped[y] \subseteq skipped'[y]
  BY <1>1, <1>3 DEF IInv, TypeOK
<1>9. TypeOK'
  <2>1. \A u \in Threads : /\ req'[u].pc = "send" => req'[u].todo # {}
                           /\ req'[u].pc = "set" => req'[u].todo = {}
    BY <1>4, <1>5, <1>6 DEF IInv, TypeOK
  <2> QED BY <1>1, <1>6, <1>7, <1>8, <2>1 DEF IInv, TypeOK
<1>10. Grows
  BY <1>1, <1>8 DEF IInv, TypeOK, Grows
<1>11. AnswerHasItsWork' /\ CacheSound'
  BY <1>1, <1>10, AnswersKept
<1>12. RequestsSound'
  <2> SUFFICES ASSUME NEW u \in Threads PROVE Sound(req[u])'
    BY DEF RequestsSound
  <2>1. CASE u = t
    <3>1. \E k \in Tokens : r.key = BuildKey(k, x)
      BY <1>3, <1>5 DEF key
    <3>2. r.todo \subseteq Parts(x) /\ Parts(x) \ (r.todo \cup r.skip) = {}
      BY <1>5
    <3>3. r.pc = "set" => x.kind # "event" /\ Parts(x) \subseteq skipped'[x]
      BY <1>3, <1>4, <1>5, <1>8
    <3> QED BY <1>5, <1>6, <1>8, <2>1, <3>1, <3>2, <3>3 DEF Sound, Stored, Done
  <2>2. CASE u # t
    BY <1>6, <1>10, <2>2, SoundKept
  <2> QED BY <2>1, <2>2
<1>13. ASSUME NEW y \in Txns, NEW p \in Parts(y)
       PROVE  /\ Cardinality(Work(y, p)') \in Nat
              /\ Cardinality(Work(y, p)') <= Cardinality(Work(y, p)) + 1
              /\ y # x \/ p \in S => Cardinality(Work(y, p)') = Cardinality(Work(y, p))
  <2>1. ~(Serving(t, y) /\ p \in req[t].todo)
    BY <1>1 DEF Serving
  <2>2. Cardinality(Work(y, p)) \in Nat
    BY WorkFinite
  <2>3. CASE y = x /\ p \notin S
    <3>1. Cardinality(Work(y, p)') = Cardinality(Work(y, p)) + 1
      BY <1>1, <1>4, <1>5, <2>1, <2>3, EnterWork DEF IInv
    <3> QED BY <2>2, <2>3, <3>1
  <2>4. CASE y # x \/ p \in S
    <3>1. Work(y, p)' = Work(y, p)
      BY <1>1, <1>5, <2>1, <2>4, EnterWork DEF IInv
    <3> QED BY <2>2, <3>1
  <2> QED BY <2>3, <2>4
<1>14. TriesCount'
  <2> SUFFICES ASSUME NEW y \in Txns, NEW p \in Parts(y)
               PROVE  copies'[y][p] + Cardinality(Work(y, p)') <= tries'[y]
    BY DEF TriesCount
  <2> QED BY <1>1, <1>7, <1>13, CountFacts
<1>15. /\ causes'[x] \in Nat /\ causes'[x] >= causes[x]
       /\ known => causes'[x] = causes[x] + 1 \/ MaxTries <= causes'[x] + 1
  BY <1>2, AnotherFacts DEF IInv, TypeOK
<1>16. ~known => ~Current(x)
  BY DEF Current, key
<1>17. CausesCount'
  <2>1. ASSUME NEW y \in Txns \ {x} PROVE Current(y)' <=> Current(y)
    BY <1>1, <1>5, <1>6 DEF Current, Serving, BuildKey, Endpoint
  <2>2. Current(x)'
    BY <1>1, <1>4, <1>5, <1>6 DEF Current, Serving, key, BuildKey, Endpoint
  <2>3. ASSUME NEW y \in Txns, NEW p \in Parts(y)
        PROVE  \/ MaxTries <= causes'[y] + 1
               \/ copies'[y][p] + Cardinality(Work(y, p)') <= causes'[y]
               \/ Current(y)' /\ copies'[y][p] + Cardinality(Work(y, p)') <= causes'[y] + 1
    <3> HIDE DEF known
    <3>1. CASE y # x
      BY <1>1, <1>7, <1>13, <2>1, <3>1, CountFacts
    <3>2. CASE y = x
      BY <1>1, <1>13, <1>15, <1>16, <2>2, <3>2, CountFacts
    <3> QED BY <3>1, <3>2
  <2> QED BY <2>3 DEF CausesCount, Enough
<1>18. SkipCount'
  <2> SUFFICES ASSUME NEW u \in Threads, NEW y \in Txns, NEW p \in Parts(y),
                      Serving(u, y)', p \in req'[u].skip
               PROVE  \/ MaxTries <= causes'[y] + 1
                      \/ copies'[y][p] + Cardinality(Work(y, p)') <= causes'[y]
    BY DEF SkipCount, Enough
  <2>1. CASE u = t
    <3>1. y = x /\ p \in S
      BY <1>5, <1>6, <2>1 DEF Serving
    <3> HIDE DEF known
    <3> QED BY <1>1, <1>13, <1>15, <1>16, <3>1, CountFacts
  <2>2. CASE u # t
    <3>1. Serving(u, y) /\ p \in req[u].skip
      BY <1>6, <2>2 DEF Serving
    <3>2. CASE y # x
      BY <1>1, <1>7, <1>13, <3>1, <3>2, CountFacts
    <3>3. CASE y = x
      <4>1. causes'[x] = causes[x] + 1 \/ MaxTries <= causes'[x] + 1
        BY <1>15, <3>1, <3>3
      <4> QED BY <1>1, <1>13, <3>1, <3>3, <4>1, CountFacts
    <3> QED BY <3>2, <3>3
  <2> QED BY <2>1, <2>2
<1> QED BY <1>9, <1>11, <1>12, <1>14, <1>17, <1>18 DEF IInv

(* A request that does no work begins or ends. *)
LEMMA QuietKeeps ==
  ASSUME IInv, NEW t \in Threads, NEW r \in Request, Enter(t, r),
         req[t].pc \notin {"send", "set"}, r.pc \notin {"send", "set"},
         begun' \subseteq Txns,
         UNCHANGED <<cache, redis, token, copies, skipped, answered, tries, faults, causes>>
  PROVE  IInv'
<1>1. /\ req' \in [Threads -> Request] /\ req'[t] = r
      /\ \A u \in Threads \ {t} : req'[u] = req[u]
  BY DEF IInv, TypeOK, Enter
<1>2. TypeOK'
  BY <1>1 DEF IInv, TypeOK
<1>3. Grows
  BY SameGrows DEF IInv
<1>4. AnswerHasItsWork' /\ CacheSound'
  BY <1>3, AnswersKept
<1>5. RequestsSound'
  <2> SUFFICES ASSUME NEW u \in Threads PROVE Sound(req[u])'
    BY DEF RequestsSound
  <2>1. CASE u = t
    BY <1>1, <2>1 DEF Sound
  <2>2. CASE u # t
    BY <1>1, <1>3, <2>2, SoundKept
  <2> QED BY <2>1, <2>2
<1>6. \A u \in Threads, y \in Txns : Serving(u, y)' <=> Serving(u, y)
  BY <1>1 DEF Serving
<1>7. \A u \in Threads, y \in Txns : Serving(u, y) => req'[u] = req[u]
  BY <1>1 DEF Serving
<1>8. \A y \in Txns, p \in AllParts : Work(y, p)' = Work(y, p)
  BY <1>6, <1>7 DEF Work
<1>9. \A y \in Txns : Parts(y) \subseteq AllParts
  BY TxnFacts
<1>10. \A y \in Txns : Current(y)' <=> Current(y)
  BY <1>6, <1>7 DEF Current, BuildKey, Endpoint
<1>11. TriesCount' /\ CausesCount' /\ SkipCount'
  BY <1>6, <1>7, <1>8, <1>9, <1>10 DEF IInv, TriesCount, CausesCount, SkipCount, Enough
<1> QED BY <1>2, <1>4, <1>5, <1>11 DEF IInv

(* The lookup outlasts the deadline: nothing is done. *)
LEMMA StallStep ==
  ASSUME IInv, NEW t \in Threads,
         (\E x \in Events : Stall(t, x)) \/ DeadlinePasses(t)
  PROVE  IInv'
<1>1. ASSUME NEW x \in Events, Stall(t, x) PROVE IInv'
  <2> DEFINE r == [Idle EXCEPT !.pc = "stalled", !.txn = x]
  <2>1. /\ req[t].pc = "idle" /\ Enter(t, r) /\ begun' = begun \cup {x}
        /\ UNCHANGED <<cache, redis, token, copies, skipped, answered, tries, faults, causes>>
    BY <1>1 DEF Stall, Send
  <2>2. r \in Request /\ r.pc = "stalled" /\ x \in Txns
    BY IdleFacts DEF Request, Txns
  <2>3. begun' \subseteq Txns
    BY <2>1, <2>2 DEF IInv, TypeOK
  <2> HIDE DEF r
  <2> QED BY <2>1, <2>2, <2>3, QuietKeeps
<1>2. CASE DeadlinePasses(t)
  <2>1. /\ req[t].pc = "stalled" /\ Enter(t, Idle) /\ begun' \subseteq Txns
        /\ UNCHANGED <<cache, redis, token, copies, skipped, answered, tries, faults, causes>>
    BY <1>2 DEF DeadlinePasses, IInv, TypeOK
  <2> QED BY <2>1, IdleFacts, QuietKeeps
<1> QED BY <1>1, <1>2

(* One more part is stored, and owed no longer. *)
LEMMA InsertStep ==
  ASSUME IInv, NEW t \in Threads, NEW p \in req[t].todo, InsertPart(t, p)
  PROVE  IInv'
<1>1. PICK x : x = req[t].txn
  OBVIOUS
<1> DEFINE n == copies[x][p] + 1
           r == [req[t] EXCEPT !.todo = @ \ {p}, !.answer = Answer(x, n),
                               !.pc = IF req[t].todo = {p} THEN "set" ELSE "send"]
<1>2. /\ req[t].pc = "send" /\ copies' = [copies EXCEPT ![x][p] = n] /\ Enter(t, r)
      /\ UNCHANGED <<cache, redis, token, skipped, answered, begun, tries, faults, causes>>
  BY <1>1 DEF InsertPart
<1>3. /\ x \in Txns /\ req[t] \in Request /\ req[t].todo \subseteq Parts(x) /\ p \in Parts(x)
      /\ req[t].skip \subseteq skipped[x]
      /\ \A q \in Parts(x) \ (req[t].todo \cup req[t].skip) : copies[x][q] > 0
      /\ \E k \in Tokens : req[t].key = BuildKey(k, x)
  BY <1>1, <1>2, RequestFacts DEF IInv, RequestsSound, Sound
<1>4. /\ p \in AllParts /\ copies[x][p] \in Nat /\ Cardinality(Work(x, p)) \in Nat
      /\ tries[x] \in 0 .. MaxTries /\ MaxTries \in Nat
      /\ copies[x][p] + Cardinality(Work(x, p)) <= tries[x]
  BY <1>3, CountFacts
<1>5. Cardinality(Work(x, p)) >= 1
  <2>1. t \in Work(x, p)
    BY <1>1, <1>2 DEF Work, Serving
  <2> QED BY <1>4, <2>1, WorkFinite, FS_EmptySet
<1>6. n \in 0 .. MaxTries /\ Answer(x, n) \in Answers /\ n > 0
  BY <1>3, <1>4, <1>5, TxnFacts
<1> DEFINE q == IF req[t].todo = {p} THEN "set" ELSE "send"
<1>7. q \in {"send", "set"} /\ (q = "set" <=> req[t].todo \ {p} = {})
  OBVIOUS
<1>8. r = [req[t] EXCEPT !.todo = req[t].todo \ {p}, !.answer = Answer(x, n), !.pc = q]
  OBVIOUS
<1> HIDE DEF q, r
<1>9. /\ r \in Request /\ r.pc = q /\ r.txn = x /\ r.key = req[t].key
      /\ r.todo = req[t].todo \ {p} /\ r.skip = req[t].skip /\ r.answer = Answer(x, n)
  BY <1>1, <1>3, <1>6, <1>7, <1>8 DEF Request
<1> HIDE DEF n
<1>10. /\ req' \in [Threads -> Request] /\ req'[t] = r
       /\ \A u \in Threads \ {t} : req'[u] = req[u]
  BY <1>2, <1>9 DEF IInv, TypeOK, Enter
<1>11. /\ copies' \in [Txns -> [AllParts -> Nat]] /\ copies'[x][p] = n
       /\ \A z \in AllParts \ {p} : copies'[x][z] = copies[x][z]
       /\ \A y \in Txns \ {x} : copies'[y] = copies[y]
  BY <1>2, <1>3, <1>4, <1>6 DEF IInv, TypeOK
<1>12. \A y \in Txns, z \in AllParts : copies'[y][z] \in Nat /\ copies'[y][z] >= copies[y][z]
  <2> SUFFICES ASSUME NEW y \in Txns, NEW z \in AllParts
               PROVE  copies'[y][z] \in Nat /\ copies'[y][z] >= copies[y][z]
    OBVIOUS
  <2>1. copies[y][z] \in Nat
    BY DEF IInv, TypeOK
  <2>2. CASE y = x /\ z = p
    BY <1>4, <1>11, <2>2 DEF n
  <2>3. CASE ~(y = x /\ z = p)
    <3>1. copies'[y][z] = copies[y][z]
      BY <1>11, <2>3
    <3> QED BY <2>1, <3>1
  <2> QED BY <2>2, <2>3
<1>13. Grows
  BY <1>2, <1>12 DEF Grows
<1>14. TypeOK'
  <2>1. \A u \in Threads : /\ req'[u].pc = "send" => req'[u].todo # {}
                           /\ req'[u].pc = "set" => req'[u].todo = {}
    BY <1>7, <1>9, <1>10 DEF IInv, TypeOK
  <2> QED BY <1>2, <1>10, <1>11, <2>1 DEF IInv, TypeOK
<1>15. AnswerHasItsWork' /\ CacheSound'
  BY <1>2, <1>13, AnswersKept
<1>17. RequestsSound'
  <2> SUFFICES ASSUME NEW u \in Threads PROVE Sound(req[u])'
    BY DEF RequestsSound
  <2>1. CASE u = t
    <3>1. \A z \in Parts(x) \ (r.todo \cup r.skip) : copies'[x][z] > 0
      <4> SUFFICES ASSUME NEW z \in Parts(x) \ (r.todo \cup r.skip) PROVE copies'[x][z] > 0
        OBVIOUS
      <4>1. z = p => copies'[x][z] > 0
        BY <1>6, <1>11
      <4>2. z # p => copies[x][z] > 0 /\ z \in AllParts
        BY <1>3, <1>9, TxnFacts
      <4> QED BY <1>11, <4>1, <4>2
    <3>2. x.kind = "event" => p = "room"
      BY <1>3 DEF Parts
    <3>3. PICK m, a : m = n /\ a = Answer(x, m)
      OBVIOUS
    <3> DEFINE stored == /\ \A z \in Parts(x) : copies'[x][z] > 0 \/ z \in skipped'[x]
                         /\ x.kind = "event" =>
                              \E j \in 1 .. copies'[x]["room"] : a = Answer(x, j)
    <3>5. r.pc = "set" => stored
      <4> SUFFICES ASSUME r.pc = "set" PROVE stored
        OBVIOUS
      <4>1. r.todo = {}
        BY <1>7, <1>9
      <4>2. p = "room" => m \in 1 .. copies'[x]["room"]
        BY <1>6, <1>11, <3>3
      <4> QED BY <1>2, <1>3, <1>9, <3>1, <3>2, <3>3, <4>1, <4>2
    <3>6. req'[t].answer = a
      BY <1>9, <1>10, <3>3
    <3>4. r.todo \subseteq Parts(x) /\ r.skip \subseteq skipped'[x] /\ \E k \in Tokens : r.key = BuildKey(k, x)
      BY <1>2, <1>3, <1>9
    <3> QED BY <1>9, <1>10, <2>1, <3>1, <3>4, <3>5, <3>6 DEF Sound, Stored, Done
  <2>2. CASE u # t
    BY <1>10, <1>13, <2>2, SoundKept
  <2> QED BY <2>1, <2>2
<1>18. ASSUME NEW y \in Txns, NEW z \in Parts(y)
       PROVE  copies'[y][z] + Cardinality(Work(y, z)') =
                copies[y][z] + Cardinality(Work(y, z))
  <2>1. z \in AllParts /\ copies[y][z] \in Nat /\ Cardinality(Work(y, z)) \in Nat
    BY CountFacts
  <2>2. CASE y = x /\ z = p
    <3>1. Serving(t, y) /\ z \in req[t].todo /\ z \notin r.todo
      BY <1>1, <1>2, <1>9, <2>2 DEF Serving
    <3>2. Cardinality(Work(y, z)') = Cardinality(Work(y, z)) - 1
      BY <1>2, <3>1, EnterWork DEF IInv
    <3> QED BY <1>11, <2>1, <2>2, <3>2 DEF n
  <2>3. CASE ~(y = x /\ z = p)
    <3>1. (Serving(t, y) /\ z \in req[t].todo) <=>
            (r.pc \in {"send", "set"} /\ r.txn = y /\ z \in r.todo)
      BY <1>1, <1>2, <1>7, <1>9, <2>3 DEF Serving
    <3>2. Work(y, z)' = Work(y, z)
      BY <1>2, <3>1, EnterWork DEF IInv
    <3>3. copies'[y][z] = copies[y][z]
      BY <1>11, <2>1, <2>3
    <3> QED BY <3>2, <3>3
  <2> QED BY <2>2, <2>3
<1>19. TriesCount'
  BY <1>2, <1>18 DEF IInv, TriesCount
<1>20. ASSUME NEW y \in Txns PROVE Current(y)' <=> Current(y)
  <2>1. \A u \in Threads : (Serving(u, y) /\ req[u].key = BuildKey(token, y))'
                             <=> (Serving(u, y) /\ req[u].key = BuildKey(token, y))
    BY <1>1, <1>2, <1>7, <1>9, <1>10 DEF Serving, BuildKey, Endpoint
  <2> QED BY <1>2, <2>1 DEF Current, BuildKey, Endpoint
<1>21. CausesCount'
  BY <1>2, <1>18, <1>20 DEF IInv, CausesCount, Enough
<1>22. SkipCount'
  <2>1. \A u \in Threads, y \in Txns : /\ Serving(u, y)' <=> Serving(u, y)
                                      /\ req'[u].skip = req[u].skip
    BY <1>1, <1>2, <1>7, <1>9, <1>10 DEF Serving
  <2> QED BY <1>2, <1>18, <2>1 DEF IInv, SkipCount, Enough
<1> QED BY <1>14, <1>15, <1>17, <1>19, <1>21, <1>22 DEF IInv

(***************************************************************************)
(* A request ends, with its answer in Redis (under a key of its own        *)
(* transaction), with a cause, or without having stored anything.          *)
(***************************************************************************)
LEMMA EndKeeps ==
  ASSUME IInv, NEW t \in Threads, NEW x \in Txns, Serving(t, x), Enter(t, Idle),
         UNCHANGED <<redis, token, copies, skipped, begun, tries>>,
         answered' \in [Txns -> SUBSET Answers], faults' \in 0 .. MaxFaults,
         AnswerHasItsWork',
         DOMAIN cache' \subseteq Keys, Range(cache') \subseteq Answers,
         DOMAIN cache \subseteq DOMAIN cache', CacheSound',
         \/ causes' = [causes EXCEPT ![x] = Another(@)]
         \/ causes' = causes /\ req[t].key \in DOMAIN cache'
         \/ causes' = causes /\ req[t].todo = Parts(x) \ req[t].skip
  PROVE  IInv'
<1>1. /\ req' \in [Threads -> Request] /\ req'[t] = Idle
      /\ \A u \in Threads \ {t} : req'[u] = req[u]
  BY IdleFacts DEF IInv, TypeOK, Enter
<1>2. /\ causes' \in [Txns -> Nat] /\ \A y \in Txns \ {x} : causes'[y] = causes[y]
      /\ \A y \in Txns : causes'[y] >= causes[y]
  BY AnotherFacts DEF IInv, TypeOK
<1>3. TypeOK'
  BY <1>1, <1>2, IdleFacts DEF IInv, TypeOK
<1>4. RequestsSound'
  <2> SUFFICES ASSUME NEW u \in Threads PROVE Sound(req[u])'
    BY DEF RequestsSound
  <2>1. CASE u = t
    BY <1>1, <2>1, IdleFacts DEF Sound
  <2>2. CASE u # t
    BY <1>1, <2>2, SameGrows, SoundKept DEF IInv
  <2> QED BY <2>1, <2>2
<1>5. ASSUME NEW y \in Txns, NEW p \in Parts(y)
      PROVE  /\ Cardinality(Work(y, p)') \in Nat
             /\ Cardinality(Work(y, p)') <= Cardinality(Work(y, p))
             /\ y = x /\ p \in req[t].todo =>
                  Cardinality(Work(y, p)') = Cardinality(Work(y, p)) - 1
  <2>1. Cardinality(Work(y, p)) \in Nat
    BY WorkFinite
  <2>2. Idle.pc = "idle"
    BY IdleFacts
  <2>3. CASE Serving(t, y) /\ p \in req[t].todo
    <3>1. Cardinality(Work(y, p)') = Cardinality(Work(y, p)) - 1
      BY <2>2, <2>3, EnterWork DEF IInv
    <3>2. t \in Work(y, p)
      BY <2>3 DEF Work
    <3>3. Cardinality(Work(y, p)) # 0
      BY <3>2, WorkFinite, FS_EmptySet
    <3> QED BY <2>1, <3>1, <3>3
  <2>4. CASE ~(Serving(t, y) /\ p \in req[t].todo)
    <3>1. Work(y, p)' = Work(y, p)
      BY <2>2, <2>4, EnterWork DEF IInv
    <3>2. ~(y = x /\ p \in req[t].todo)
      BY <2>4
    <3> QED BY <2>1, <3>1, <3>2
  <2> QED BY <2>3, <2>4
<1>6. TriesCount'
  <2> SUFFICES ASSUME NEW y \in Txns, NEW p \in Parts(y)
               PROVE  copies'[y][p] + Cardinality(Work(y, p)') <= tries'[y]
    BY DEF TriesCount
  <2> QED BY <1>5, CountFacts
<1>7. \A y \in Txns \ {x} : Current(y) => Current(y)'
  BY <1>1 DEF Current, Serving, BuildKey, Endpoint
<1>8. req[t].key \in DOMAIN cache' => (Current(x) => Current(x)')
  BY <1>1 DEF Current, Serving, BuildKey, Endpoint
<1>9. CausesCount'
  <2> SUFFICES ASSUME NEW y \in Txns, NEW p \in Parts(y)
               PROVE  \/ MaxTries <= causes'[y] + 1
                      \/ copies'[y][p] + Cardinality(Work(y, p)') <= causes'[y]
                      \/ /\ Current(y)'
                         /\ copies'[y][p] + Cardinality(Work(y, p)') <= causes'[y] + 1
    BY DEF CausesCount, Enough
  <2>1. CASE y # x
    BY <1>2, <1>5, <1>7, <2>1, CountFacts
  <2>2. CASE y = x /\ causes' = [causes EXCEPT ![x] = Another(@)]
    <3>1. causes'[y] = causes[y] + 1 \/ MaxTries <= causes'[y] + 1
      BY <2>2, AnotherFacts DEF IInv, TypeOK
    <3> QED BY <1>5, <3>1, CountFacts
  <2>3. CASE y = x /\ causes' = causes /\ req[t].key \in DOMAIN cache'
    BY <1>5, <1>8, <2>3, CountFacts
  <2>4. CASE y = x /\ causes' = causes /\ req[t].todo = Parts(x) \ req[t].skip
    <3>1. CASE p \in req[t].todo
      BY <1>5, <2>4, <3>1, CountFacts
    <3>2. CASE p \in req[t].skip
      BY <1>5, <2>4, <3>2, CountFacts
    <3> QED BY <2>4, <3>1, <3>2
  <2> QED BY <2>1, <2>2, <2>3, <2>4
<1>10. SkipCount'
  <2> SUFFICES ASSUME NEW u \in Threads, NEW y \in Txns, NEW p \in Parts(y),
                      Serving(u, y)', p \in req'[u].skip
               PROVE  \/ MaxTries <= causes'[y] + 1
                      \/ copies'[y][p] + Cardinality(Work(y, p)') <= causes'[y]
    BY DEF SkipCount, Enough
  <2>1. Serving(u, y) /\ p \in req[u].skip
    BY <1>1, IdleFacts DEF Serving
  <2>2. causes'[y] >= causes[y] /\ causes'[y] \in Nat /\ causes[y] \in Nat
    BY <1>2 DEF IInv, TypeOK
  <2> QED BY <1>5, <2>1, <2>2, CountFacts
<1> QED BY <1>3, <1>4, <1>6, <1>9, <1>10 DEF IInv

LEMMA SetStep ==
  ASSUME IInv, NEW t \in Threads, Set(t)
  PROVE  IInv'
<1>1. PICK x : x = req[t].txn
  OBVIOUS
<1>2. PICK a : a = req[t].answer
  OBVIOUS
<1>3. PICK key : key = req[t].key
  OBVIOUS
<1>4. /\ req[t].pc = "set" /\ Respond(x, a) /\ Enter(t, Idle)
      /\ UNCHANGED <<redis, token, copies, skipped, begun, tries>>
  BY <1>1, <1>2 DEF Set
<1>5. /\ x \in Txns /\ a \in Answers /\ key \in Keys /\ Serving(t, x) /\ Stored(x, a)
  BY <1>1, <1>2, <1>3, <1>4, RequestFacts DEF IInv, RequestsSound, Sound, Serving
<1>6. PICK k \in Tokens : key = BuildKey(k, x)
  BY <1>1, <1>3, <1>4 DEF IInv, RequestsSound, Sound
<1>7. /\ answered' \in [Txns -> SUBSET Answers] /\ faults' \in 0 .. MaxFaults
      /\ AnswerHasItsWork'
  <2>1. Proper(x, a)
    BY <1>5 DEF Stored, Proper
  <2> QED BY <1>4, <1>5, <2>1, RespondFacts
<1>8. CASE redis = "up"
  <2>1. /\ cache' = [z \in DOMAIN cache \cup {key} |-> IF z = key THEN a ELSE cache[z]]
        /\ causes' = causes
    BY <1>2, <1>3, <1>8 DEF Set
  <2>2. /\ DOMAIN cache' = DOMAIN cache \cup {key} /\ cache'[key] = a
        /\ \A z \in DOMAIN cache \ {key} : cache'[z] = cache[z]
    BY <2>1
  <2>3. DOMAIN cache' \subseteq Keys /\ Range(cache') \subseteq Answers
    BY <1>5, <2>2 DEF IInv, TypeOK, Range
  <2>4. CacheSound'
    <3> SUFFICES ASSUME NEW y \in Txns, NEW l \in Tokens, BuildKey(l, y) \in DOMAIN cache'
                 PROVE  Proper(y, cache[BuildKey(l, y)])'
      BY DEF CacheSound
    <3>1. CASE BuildKey(l, y) = key
      <4>1. /\ Endpoint(x) = Endpoint(y) /\ x.id = y.id
            /\ y.kind = "event" => x = y
        BY <1>5, <1>6, <3>1, KeyFacts
      <4>2. Proper(y, a)
        BY <1>5, <4>1 DEF Stored, Proper
      <4> QED BY <1>4, <2>2, <3>1, <4>2 DEF Proper, Done, BuildKey, Endpoint
    <3>2. CASE BuildKey(l, y) # key
      <4>1. Proper(y, cache[BuildKey(l, y)]) /\ cache'[BuildKey(l, y)] = cache[BuildKey(l, y)]
        BY <2>2, <3>2 DEF IInv, CacheSound
      <4> QED BY <1>4, <4>1 DEF Proper, Done, BuildKey, Endpoint
    <3> QED BY <3>1, <3>2
  <2> QED BY <1>3, <1>4, <1>5, <1>7, <2>1, <2>2, <2>3, <2>4, EndKeeps
<1>9. CASE redis # "up"
  <2>1. cache' = cache /\ causes' = [causes EXCEPT ![x] = Another(@)]
    BY <1>1, <1>9 DEF Set, Cause
  <2>2. DOMAIN cache' \subseteq Keys /\ Range(cache') \subseteq Answers
    BY <2>1 DEF IInv, TypeOK
  <2>3. CacheSound'
    BY <1>4, <2>1 DEF IInv, CacheSound, Proper, Done, BuildKey, Endpoint
  <2> QED BY <1>4, <1>5, <1>7, <2>1, <2>2, <2>3, EndKeeps
<1> QED BY <1>8, <1>9

LEMMA FailStep ==
  ASSUME IInv, NEW t \in Threads, Fail(t)
  PROVE  IInv'
<1>1. PICK x : x = req[t].txn
  OBVIOUS
<1>2. /\ Serving(t, x) /\ faults < MaxFaults /\ faults' = faults + 1 /\ Enter(t, Idle)
      /\ UNCHANGED <<cache, redis, token, copies, skipped, answered, begun, tries>>
  BY <1>1 DEF Fail
<1>3. \/ causes' = [causes EXCEPT ![x] = Another(@)]
      \/ causes' = causes /\ req[t].todo = Parts(x) \ req[t].skip
  BY <1>1 DEF Fail, Cause
<1>4. x \in Txns /\ Serving(t, x)
  BY <1>1, <1>2, RequestFacts DEF IInv, Serving
<1>5. answered' \in [Txns -> SUBSET Answers] /\ faults' \in 0 .. MaxFaults
  BY <1>2, TransactionsAssumption DEF IInv, TypeOK
<1>6. AnswerHasItsWork' /\ CacheSound'
  BY <1>2, SameGrows, AnswersKept DEF IInv
<1>7. DOMAIN cache' \subseteq Keys /\ Range(cache') \subseteq Answers
  BY <1>2 DEF IInv, TypeOK
<1> QED BY <1>2, <1>3, <1>4, <1>5, <1>6, <1>7, EndKeeps

(***************************************************************************)
(* The answers are lost to the client: a cause for every transaction that  *)
(* had one under its present key.                                          *)
(***************************************************************************)
LEMMA LossKeeps ==
  ASSUME IInv, UNCHANGED <<req, copies, skipped, answered, begun, tries, faults>>,
         redis' \in {"up", "down", "hangs"}, token' \in Tokens,
         DOMAIN cache' \subseteq DOMAIN cache,
         \A z \in DOMAIN cache' : cache'[z] = cache[z],
         causes' \in [Txns -> Nat],
         \A x \in Txns : causes'[x] >= causes[x],
         \A x \in Txns : Current(x) => \/ Current(x)' \/ causes'[x] >= causes[x] + 1
                                       \/ MaxTries <= causes'[x] + 1
  PROVE  IInv'
<1>1. DOMAIN cache' \subseteq Keys /\ Range(cache') \subseteq Answers
  BY DEF IInv, TypeOK, Range
<1>2. TypeOK'
  BY <1>1 DEF IInv, TypeOK
<1>3. RequestsSound'
  BY SameGrows, SoundKept DEF IInv, RequestsSound
<1>4. AnswerHasItsWork' /\ CacheSound'
  BY SameGrows, AnswersKept DEF IInv
<1>5. \A y, p : Work(y, p)' = Work(y, p)
  BY DEF Work, Serving
<1>6. TriesCount'
  BY <1>5 DEF IInv, TriesCount
<1>7. CausesCount'
  <2> SUFFICES ASSUME NEW y \in Txns, NEW p \in Parts(y)
               PROVE  \/ MaxTries <= causes'[y] + 1
                      \/ copies'[y][p] + Cardinality(Work(y, p)') <= causes'[y]
                      \/ /\ Current(y)'
                         /\ copies'[y][p] + Cardinality(Work(y, p)') <= causes'[y] + 1
    BY DEF CausesCount, Enough
  <2>1. causes'[y] \in Nat
    OBVIOUS
  <2> QED BY <1>5, <2>1, CountFacts
<1>8. SkipCount'
  <2> SUFFICES ASSUME NEW u \in Threads, NEW y \in Txns, NEW p \in Parts(y),
                      Serving(u, y), p \in req[u].skip
               PROVE  \/ MaxTries <= causes'[y] + 1
                      \/ copies'[y][p] + Cardinality(Work(y, p)') <= causes'[y]
    BY DEF SkipCount, Serving, Enough
  <2>1. causes'[y] \in Nat
    OBVIOUS
  <2> QED BY <1>5, <2>1, CountFacts
<1> QED BY <1>2, <1>3, <1>4, <1>6, <1>7, <1>8 DEF IInv

LEMMA ExpireStep ==
  ASSUME IInv, NEW x \in Txns, Expire(x)
  PROVE  IInv'
<1> DEFINE key == BuildKey(token, x)
<1>1. /\ cache' = [z \in DOMAIN cache \ {key} |-> cache[z]]
      /\ causes' = [y \in Txns |->
                      IF BuildKey(token, y) = key THEN Another(causes[y]) ELSE causes[y]]
      /\ UNCHANGED <<redis, token, req, copies, skipped, answered, begun, tries, faults>>
  BY DEF Expire
<1>2. /\ causes' \in [Txns -> Nat] /\ redis' \in {"up", "down", "hangs"} /\ token' \in Tokens
      /\ \A y \in Txns : causes[y] \in Nat
  BY <1>1, AnotherFacts DEF IInv, TypeOK
<1>3. \A y \in Txns : causes'[y] >= causes[y]
  BY <1>1, <1>2, AnotherFacts
<1>5. \A y \in Txns : Current(y) => \/ Current(y)' \/ causes'[y] >= causes[y] + 1
                                    \/ MaxTries <= causes'[y] + 1
  <2> SUFFICES ASSUME NEW y \in Txns
               PROVE  Current(y) => \/ Current(y)' \/ causes'[y] >= causes[y] + 1
                                    \/ MaxTries <= causes'[y] + 1
    OBVIOUS
  <2>1. CASE BuildKey(token, y) = key
    <3>1. causes'[y] = Another(causes[y])
      BY <1>1, <2>1
    <3>2. causes'[y] >= causes[y] + 1 \/ MaxTries <= causes'[y] + 1
      BY <1>2, <3>1, AnotherFacts
    <3> QED BY <3>2
  <2>2. CASE BuildKey(token, y) # key
    <3>1. BuildKey(token, y) \in DOMAIN cache => BuildKey(token, y) \in DOMAIN cache'
      BY <1>1, <2>2
    <3>2. BuildKey(token, y)' = BuildKey(token, y)
      BY <1>1 DEF BuildKey, Endpoint
    <3>3. \A u \in Threads : Serving(u, y)' <=> Serving(u, y)
      BY <1>1 DEF Serving
    <3> QED BY <1>1, <3>1, <3>2, <3>3 DEF Current
  <2> QED BY <2>1, <2>2
<1>6. DOMAIN cache' \subseteq DOMAIN cache /\ \A z \in DOMAIN cache' : cache'[z] = cache[z]
  BY <1>1
<1> QED BY <1>1, <1>2, <1>3, <1>5, <1>6, LossKeeps

LEMMA RedisStep ==
  ASSUME IInv, RedisChanges
  PROVE  IInv'
<1>1. /\ redis' \in {"up", "down", "hangs"}
      /\ UNCHANGED <<cache, token, req, copies, skipped, answered, begun, tries, faults,
                     causes>>
  BY DEF RedisChanges
<1>2. causes' \in [Txns -> Nat] /\ token' \in Tokens /\ \A x \in Txns : causes'[x] >= causes[x]
  BY <1>1 DEF IInv, TypeOK
<1>3. \A x \in Txns : Current(x) => Current(x)'
  BY <1>1 DEF Current, Serving, BuildKey, Endpoint
<1> QED BY <1>1, <1>2, <1>3, LossKeeps

LEMMA RefreshStep ==
  ASSUME IInv, RefreshToken
  PROVE  IInv'
<1> DEFINE lost(x) == BuildKey(token, x) \in DOMAIN cache
                        \/ \E t \in Threads : Serving(t, x)
<1>1. /\ token < MaxTokens /\ token' = token + 1
      /\ causes' = [x \in Txns |-> IF lost(x) THEN Another(causes[x]) ELSE causes[x]]
      /\ UNCHANGED <<cache, redis, req, copies, skipped, answered, begun, tries, faults>>
  BY DEF RefreshToken
<1>2. token' \in Tokens /\ redis' \in {"up", "down", "hangs"}
  BY <1>1, TransactionsAssumption DEF IInv, TypeOK, Tokens
<1>3. \A x \in Txns : Current(x) => lost(x)
  BY DEF Current
<1> HIDE DEF lost
<1>4. /\ causes' \in [Txns -> Nat] /\ \A x \in Txns : causes'[x] >= causes[x]
      /\ \A x \in Txns : lost(x) => \/ causes'[x] >= causes[x] + 1
                                    \/ MaxTries <= causes'[x] + 1
  BY <1>1, AnotherFacts DEF IInv, TypeOK
<1> QED BY <1>1, <1>2, <1>3, <1>4, LossKeeps

-----------------------------------------------------------------------------
LEMMA InitHolds ==
  ASSUME Init
  PROVE  IInv
<1>1. /\ DOMAIN cache = {} /\ Range(cache) = {} /\ \A t \in Threads : req[t] = Idle
      /\ \A x \in Txns : /\ answered[x] = {} /\ tries[x] = 0 /\ causes[x] = 0
                         /\ \A p \in AllParts : copies[x][p] = 0
  BY DEF Init, Range
<1>2. TypeOK
  <2>1. token \in Tokens /\ faults \in 0 .. MaxFaults /\ 0 \in 0 .. MaxTries
    BY TransactionsAssumption DEF Init, Tokens
  <2> QED BY <1>1, <2>1, IdleFacts DEF Init, TypeOK
<1>3. AnswerHasItsWork /\ RequestsSound /\ CacheSound
  BY <1>1, IdleFacts DEF AnswerHasItsWork, RequestsSound, Sound, CacheSound
<1>4. \A x, p : Work(x, p) = {}
  BY <1>1, IdleFacts DEF Work, Serving
<1>5. Cardinality({}) = 0
  BY FS_EmptySet
<1>6. ASSUME NEW x \in Txns, NEW p \in Parts(x)
      PROVE  copies[x][p] + Cardinality(Work(x, p)) = 0
  <2>1. p \in AllParts
    BY TxnFacts
  <2>2. Cardinality(Work(x, p)) = 0
    BY <1>4, <1>5
  <2> QED BY <1>1, <2>1, <2>2
<1>7. TriesCount /\ CausesCount /\ SkipCount
  BY <1>1, <1>6 DEF TriesCount, CausesCount, SkipCount
<1> QED BY <1>2, <1>3, <1>7 DEF IInv

LEMMA StutterHolds ==
  ASSUME IInv, UNCHANGED vars
  PROVE  IInv'
<1>1. redis' \in {"up", "down", "hangs"} /\ token' \in Tokens /\ causes' \in [Txns -> Nat]
  BY DEF IInv, TypeOK, vars
<1>2. UNCHANGED <<req, copies, skipped, answered, begun, tries, faults, cache, token, causes>>
  BY DEF vars
<1>3. \A x \in Txns : causes'[x] >= causes[x]
  BY <1>1, <1>2
<1>4. \A x \in Txns : Current(x) => Current(x)'
  BY <1>2 DEF Current, Serving, BuildKey, Endpoint
<1> QED BY <1>1, <1>2, <1>3, <1>4, LossKeeps

LEMMA NextHolds ==
  ASSUME IInv, [Next]_vars
  PROVE  IInv'
<1>1. ASSUME NEW t \in Threads, putSendEvent(t) \/ sendToDevice(t) PROVE IInv'
  BY <1>1, HitStep, MissStep, StallStep DEF putSendEvent, sendToDevice, Txns
<1>2. ASSUME NEW t \in Threads, Serve(t) \/ Fail(t) PROVE IInv'
  BY <1>2, InsertStep, SetStep, StallStep, FailStep DEF Serve
<1>3. ASSUME NEW x \in Txns, Expire(x) PROVE IInv'
  BY <1>3, ExpireStep
<1>4. CASE RedisChanges \/ RefreshToken
  BY <1>4, RedisStep, RefreshStep
<1>5. CASE UNCHANGED vars
  BY <1>5, StutterHolds
<1> QED BY <1>1, <1>2, <1>3, <1>4, <1>5 DEF Next

(***************************************************************************)
(* The counts hold in every reachable state, for any number of requests at *)
(* a time, faults of Redis and lost answers.                               *)
(***************************************************************************)
THEOREM Invariance == Spec => []IInv
<1>1. Init => IInv
  BY InitHolds
<1>2. IInv /\ [Next]_vars => IInv'
  BY NextHolds
<1> QED BY <1>1, <1>2, PTL DEF Spec

(***************************************************************************)
(* The cache, the requests and the counters keep their types; no event is  *)
(* stored more often than it was asked for (its answer is in Answers).     *)
(***************************************************************************)
THEOREM TypeCorrect == Spec => []TypeOK
<1>1. IInv => TypeOK
  BY DEF IInv
<1> QED BY <1>1, Invariance, PTL

(***************************************************************************)
(* What putSendEvent answers, from Redis or not, is the id of a stored     *)
(* event of its own transaction.  What sendToDevice answers stands for the *)
(* work of a transaction with the same id (of the same type or another:    *)
(* the key does not tell), all of it done but for failed expansions.       *)
(***************************************************************************)
THEOREM AnswersAreTrue == Spec => []AnswerHasItsWork
<1>1. IInv => AnswerHasItsWork
  BY DEF IInv
<1> QED BY <1>1, Invariance, PTL

(***************************************************************************)
(* Between the lookup and the Set of an answer anything may happen; every  *)
(* copy beyond the first is paid for by one cause.                         *)
(***************************************************************************)
THEOREM CopiesHaveCauses == Spec => []EveryCopyHasACause
<1>1. IInv => EveryCopyHasACause
  <2> SUFFICES ASSUME IInv, NEW x \in Txns, NEW p \in Parts(x)
               PROVE  copies[x][p] <= 1 + causes[x]
    BY DEF EveryCopyHasACause
  <2> QED BY CountFacts
<1> QED BY <1>1, Invariance, PTL

=============================================================================
