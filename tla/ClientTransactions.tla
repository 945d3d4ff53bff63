------------------------- MODULE ClientTransactions -------------------------
(***************************************************************************)
(* Requests with a transaction id: PUT .../send/{eventType}/{txnId} and    *)
(* PUT /sendToDevice/{eventType}/{txnId}.  A client repeats such a request *)
(* until it has an answer, also while an earlier one is still served.      *)
(*                                                                         *)
(* The server looks the transaction id up in Redis, does the work and then *)
(* stores the answer in Redis: three steps, with other requests, faults of *)
(* Redis and failures in between.  Redis may be down at any time, without  *)
(* an end; the requests then go on without it.  It may also hang: then a   *)
(* lookup outlasts the deadline that an event shares with it.              *)
(***************************************************************************)
EXTENDS Naturals, FiniteSets, Functions

CONSTANTS
  Paths,      \* request paths of events: a room and an event type
  Types,      \* event types of sendToDevice requests
  TxnIds,     \* transaction ids of the client
  Devices,    \* the local devices a sendToDevice request is for
  Wild,       \* those that it names by a "*", each of a user of its own
  Servers,    \* the remote servers with recipients of it
  Threads,    \* concurrent HTTP requests
  MaxTokens,  \* bound: access tokens of the client are 1 .. MaxTokens
  MaxBegun,   \* bound: transactions that the client begins
  MaxTries,   \* bound: requests per transaction that Redis lets through
  MaxFaults   \* bound: failed requests and lost answers

ASSUME TransactionsAssumption ==
  /\ "sendToDevice" \notin Paths
  /\ Paths \cup Types # {} /\ TxnIds # {}
  /\ Wild \subseteq Devices /\ Devices \cap Servers = {}
  /\ IsFiniteSet(Threads)
  /\ MaxTokens \in Nat \ {0}
  /\ MaxBegun \in Nat
  /\ MaxTries \in Nat
  /\ MaxFaults \in Nat
  /\ MaxFaults < MaxTries

(***************************************************************************)
(* A transaction of the client: an event for a room, or messages of a type *)
(* to devices.  Its work comes in parts: one event, or a message for each  *)
(* local device and a call to each remote server.                          *)
(***************************************************************************)
Events   == [kind : {"event"}, path : Paths, id : TxnIds]
Messages == [kind : {"device"}, path : Types, id : TxnIds]
Txns     == Events \cup Messages

Parts(x) == IF x.kind = "event" THEN {"room"} ELSE Devices \cup Servers
AllParts == {"room"} \cup Devices \cup Servers

Tokens == 1 .. MaxTokens

(* The answer to a request: the id of the n-th event of transaction x, or   *)
(* "ok", which names no transaction.                                       *)
Answer(x, n) ==
  IF x.kind = "event" THEN <<x.path, x.id, n>> ELSE <<"sendToDevice", "ok", 0>>
Answers == {Answer(x, n) : x \in Txns, n \in 0 .. MaxTries}

VARIABLES
  cache,     \* Redis: key -> the answer
  redis,     \* does Redis answer, refuse or hang?
  token,     \* the access token of the client
  req,       \* thread -> the request it serves
  copies,    \* transaction -> part -> how often it is stored, or its call made
  skipped,   \* history: transaction -> devices some request has left out
  answered,  \* transaction -> the answers the client has received
  begun,     \* transactions the client has begun
  tries,     \* transaction -> requests sent that did not stall
  faults,    \* failed requests and lost answers
  causes     \* history: transaction -> how often something may have made it
             \* run again; MaxTries - 1 stands for that and more

vars == <<cache, redis, token, req, copies, skipped, answered, begun, tries,
          faults, causes>>

(***************************************************************************)
(* What a request carries: its transaction, the key it looked up, the      *)
(* parts it left out and those it has still to do, and its answer.         *)
(***************************************************************************)
Keys == Tokens \X (Paths \cup {"sendToDevice"}) \X TxnIds

Request == [pc : {"idle", "stalled", "send", "set"}, txn : Txns, key : Keys,
            skip : SUBSET Wild, todo : SUBSET AllParts, answer : Answers]

Serving(t, x) == req[t].pc \in {"send", "set"} /\ req[t].txn = x

Idle == CHOOSE r \in Request : r.pc = "idle"

TypeOK ==
  /\ DOMAIN cache \subseteq Keys
  /\ Range(cache) \subseteq Answers
  /\ redis \in {"up", "down", "hangs"}
  /\ token \in Tokens
  /\ req \in [Threads -> Request]
  /\ \A t \in Threads : /\ req[t].pc = "send" => req[t].todo # {}
                        /\ req[t].pc = "set" => req[t].todo = {}
  /\ copies \in [Txns -> [AllParts -> Nat]]
  /\ skipped \in [Txns -> SUBSET Wild]
  /\ answered \in [Txns -> SUBSET Answers]
  /\ begun \subseteq Txns
  /\ tries \in [Txns -> 0 .. MaxTries]
  /\ faults \in 0 .. MaxFaults
  /\ causes \in [Txns -> Nat]

-----------------------------------------------------------------------------
Enter(t, r) == req' = [req EXCEPT ![t] = r]

Another(n) == IF n + 1 < MaxTries THEN n + 1 ELSE n

Cause(x) == causes' = [causes EXCEPT ![x] = Another(@)]

(* The answer reaches the client, or it is lost. *)
Respond(x, a) ==
  \/ /\ answered' = [answered EXCEPT ![x] = @ \cup {a}]
     /\ UNCHANGED faults
  \/ /\ faults < MaxFaults
     /\ faults' = faults + 1
     /\ UNCHANGED answered

(* Mutant: the endpoint is not part of the key. *)
MutNoEndpoint(k, x) == <<k, "sendToDevice", x.id>>

(* The URL of an event; a constant for messages, whatever their type. *)
Endpoint(x) == IF x.kind = "event" THEN x.path ELSE "sendToDevice"

BuildKey(k, x) == <<k, Endpoint(x), x.id>>

(* Get: an error of Redis is a miss. *)
Get(key) == redis = "up" /\ key \in DOMAIN cache

(* The client sends x, for the first time or again. *)
Send(x) ==
  /\ answered[x] = {}
  /\ begun' = begun \cup {x}
  /\ Cardinality(begun') <= MaxBegun

(* A request that Redis lets through. *)
Try(x) ==
  /\ Send(x)
  /\ tries[x] < MaxTries
  /\ tries' = [tries EXCEPT ![x] = @ + 1]

(* A cache hit ends the request. *)
Hit(x) ==
  LET key == BuildKey(token, x)
  IN  /\ Try(x)
      /\ Get(key)
      /\ Respond(x, cache[key])
      /\ UNCHANGED <<cache, redis, token, req, copies, skipped, causes>>

(***************************************************************************)
(* The work on x begins, but for the devices S whose "*" could not be      *)
(* expanded: that error is logged and the answer is the same.              *)
(***************************************************************************)
Begin(t, x, S) ==
  LET todo == Parts(x) \ S
  IN  /\ req[t].pc = "idle"
      /\ Enter(t, [Idle EXCEPT !.pc = IF todo = {} THEN "set" ELSE "send",
                               !.txn = x, !.key = BuildKey(token, x),
                               !.skip = S, !.todo = todo, !.answer = Answer(x, 0)])
      /\ skipped' = [skipped EXCEPT ![x] = @ \cup S]

Expansions(x) == IF x.kind = "event" THEN {{}} ELSE SUBSET Wild

(* Mutant: no answer of Redis, no service. *)
MutFailClosed(t, x) ==
  LET key == BuildKey(token, x)
  IN  /\ Try(x)
      /\ redis = "up"
      /\ ~Get(key)
      /\ \E S \in Expansions(x) : Begin(t, x, S)
      /\ IF \E u \in Threads : Serving(u, x) THEN Cause(x) ELSE UNCHANGED causes
      /\ UNCHANGED <<cache, redis, token, copies, answered, faults>>

(* Otherwise the work is done, whatever other requests are doing. *)
Miss(t, x) ==
  LET key == BuildKey(token, x)
  IN  /\ Try(x)
      /\ ~Get(key)
      /\ x.kind = "event" => redis # "hangs"
      /\ \E S \in Expansions(x) : Begin(t, x, S)
      /\ IF key \in DOMAIN cache \/ \E u \in Threads : Serving(u, x)
           THEN Cause(x) ELSE UNCHANGED causes
      /\ UNCHANGED <<cache, redis, token, copies, answered, faults>>

(***************************************************************************)
(* Redis hangs: Get returns after the deadline of putSendEvent, so the     *)
(* context that SendEvent is given has expired and it stores nothing.      *)
(* (sendToDevice sets no deadline: it waits and goes on.)                  *)
(***************************************************************************)
Stall(t, x) ==
  /\ x.kind = "event"
  /\ redis = "hangs"
  /\ Send(x)
  /\ req[t].pc = "idle"
  /\ Enter(t, [Idle EXCEPT !.pc = "stalled", !.txn = x])
  /\ UNCHANGED <<cache, redis, token, copies, skipped, answered, tries, faults, causes>>

DeadlinePasses(t) ==
  /\ req[t].pc = "stalled"
  /\ Enter(t, Idle)
  /\ UNCHANGED <<cache, redis, token, copies, skipped, answered, begun, tries,
                 faults, causes>>

(* PUT .../send/{eventType}/{txnId} and PUT /sendToDevice/{eventType}/{txnId} *)
putSendEvent(t) == \E x \in Events : Hit(x) \/ Miss(t, x) \/ Stall(t, x)
sendToDevice(t) == \E x \in Messages : Hit(x) \/ Miss(t, x)

(* A server is called only when every local message is stored. *)
Ready(t, p) == p \in req[t].todo /\ (p \in Servers => req[t].todo \subseteq Servers)

(* Mutant: the loop over the messages returns after the first. *)
MutFirstOnly(t, p) ==
  LET x == req[t].txn
      n == copies[x][p] + 1
  IN  /\ req[t].pc = "send"
      /\ Ready(t, p)
      /\ copies' = [copies EXCEPT ![x][p] = n]
      /\ Enter(t, [req[t] EXCEPT !.todo = @ \ {p}, !.answer = Answer(x, n), !.pc = "set"])
      /\ UNCHANGED <<cache, redis, token, skipped, answered, begun, tries, faults, causes>>

(***************************************************************************)
(* The work: SendEvent stores one event in a transaction; Send stores the  *)
(* messages one by one, each of them for good, in the order of a Go map,   *)
(* and then starts the calls to the servers, which nobody waits for.       *)
(***************************************************************************)
InsertPart(t, p) ==
  LET x == req[t].txn
      n == copies[x][p] + 1
  IN  /\ req[t].pc = "send"
      /\ Ready(t, p)
      /\ copies' = [copies EXCEPT ![x][p] = n]
      /\ Enter(t, [req[t] EXCEPT !.todo = @ \ {p}, !.answer = Answer(x, n),
                                 !.pc = IF req[t].todo = {p} THEN "set" ELSE "send"])
      /\ UNCHANGED <<cache, redis, token, skipped, answered, begun, tries, faults, causes>>

(* Mutant: the answer is not stored. *)
MutNoSet(t) ==
  /\ req[t].pc = "set"
  /\ Respond(req[t].txn, req[t].answer)
  /\ Enter(t, Idle)
  /\ UNCHANGED <<cache, redis, token, copies, skipped, begun, tries, causes>>

(* Set, whose error is ignored, and the answer. *)
Set(t) ==
  LET key == req[t].key
  IN  /\ req[t].pc = "set"
      /\ IF redis = "up"
           THEN /\ cache' = [k \in DOMAIN cache \cup {key} |->
                               IF k = key THEN req[t].answer ELSE cache[k]]
                /\ UNCHANGED causes
           ELSE UNCHANGED cache /\ Cause(req[t].txn)
      /\ Respond(req[t].txn, req[t].answer)
      /\ Enter(t, Idle)
      /\ UNCHANGED <<redis, token, copies, skipped, begun, tries>>

(* An error, a deadline or a crash; messages that were stored stay. *)
Fail(t) ==
  LET x == req[t].txn
  IN  /\ Serving(t, x)
      /\ faults < MaxFaults
      /\ faults' = faults + 1
      /\ IF req[t].todo # Parts(x) \ req[t].skip THEN Cause(x) ELSE UNCHANGED causes
      /\ Enter(t, Idle)
      /\ UNCHANGED <<cache, redis, token, copies, skipped, answered, begun, tries>>

(* 24 hours have passed. *)
Expire(x) ==
  LET key == BuildKey(token, x)
  IN  /\ key \in DOMAIN cache
      /\ cache' = [k \in DOMAIN cache \ {key} |-> cache[k]]
      /\ causes' = [y \in Txns |->
                      IF BuildKey(token, y) = key THEN Another(causes[y]) ELSE causes[y]]
      /\ UNCHANGED <<redis, token, req, copies, skipped, answered, begun, tries, faults>>

(* Redis answers, refuses (down) or keeps its clients waiting (hangs). *)
RedisChanges ==
  /\ redis' \in {"up", "down", "hangs"} \ {redis}
  /\ UNCHANGED <<cache, token, req, copies, skipped, answered, begun, tries, faults,
                 causes>>

(* The client refreshes its access token: every key is another one now. *)
RefreshToken ==
  /\ token < MaxTokens
  /\ token' = token + 1
  /\ causes' = [x \in Txns |->
                  IF \/ BuildKey(token, x) \in DOMAIN cache
                     \/ \E t \in Threads : Serving(t, x)
                  THEN Another(causes[x]) ELSE causes[x]]
  /\ UNCHANGED <<cache, redis, req, copies, skipped, answered, begun, tries, faults>>

Init ==
  /\ cache = [k \in {} |-> 0]
  /\ redis = "up"
  /\ token = 1
  /\ req = [t \in Threads |-> Idle]
  /\ copies = [x \in Txns |-> [p \in AllParts |-> 0]]
  /\ skipped = [x \in Txns |-> {}]
  /\ answered = [x \in Txns |-> {}]
  /\ begun = {}
  /\ tries = [x \in Txns |-> 0]
  /\ faults = 0
  /\ causes = [x \in Txns |-> 0]

Serve(t) == (\E p \in req[t].todo : InsertPart(t, p)) \/ Set(t) \/ DeadlinePasses(t)

Next ==
  \/ \E t \in Threads : putSendEvent(t) \/ sendToDevice(t) \/ Serve(t) \/ Fail(t)
  \/ \E x \in Txns : Expire(x)
  \/ RedisChanges \/ RefreshToken

(***************************************************************************)
(* A request that began goes on, and a client repeats a request that it    *)
(* began until it has an answer.  Redis need not come back.                *)
(***************************************************************************)
Retry(x) ==
  /\ x \in begun
  /\ Hit(x) \/ \E t \in Threads : Miss(t, x) \/ Stall(t, x)

Fairness ==
  /\ \A t \in Threads : WF_vars(Serve(t))
  /\ \A x \in Txns : SF_vars(Retry(x))

Spec == Init /\ [][Next]_vars /\ Fairness

-----------------------------------------------------------------------------
(* Properties. *)

(* Every part of y is stored, or a request on y left it out. *)
Done(y) == \A p \in Parts(y) : copies[y][p] > 0 \/ p \in skipped[y]

(***************************************************************************)
(* No answer without work: the client is given the id of a stored event of *)
(* its own transaction, or {} after the messages of some transaction with  *)
(* its id were stored and sent on, but for those of a failed expansion.    *)
(***************************************************************************)
AnswerHasItsWork ==
  \A x \in Txns : \A a \in answered[x] :
    /\ \E y \in Txns : Endpoint(y) = Endpoint(x) /\ y.id = x.id /\ Done(y)
    /\ x.kind = "event" => \E n \in 1 .. copies[x]["room"] : a = Answer(x, n)

(***************************************************************************)
(* Repeating a request repeats its effect only for a cause, one for each   *)
(* copy: an overlapping request, work without a stored answer, a fault of  *)
(* Redis, an expired answer or another access token.  A lost answer is     *)
(* none of them, nor is a request that stalled.                            *)
(***************************************************************************)
EveryCopyHasACause ==
  \A x \in Txns : \A p \in Parts(x) : copies[x][p] <= 1 + causes[x]

(***************************************************************************)
(* Redis that is down fails open: a client that repeats its request gets   *)
(* an answer at last, also when Redis never answers again, provided that   *)
(* it does not go on keeping its clients waiting.  (Nothing is unanswered  *)
(* time and again: begun and answered only grow.)                          *)
(***************************************************************************)
EventuallyAnswered ==
  <>[](redis # "hangs") => []<>(\A x \in begun : answered[x] # {})

=============================================================================
