-------------------------- MODULE DeviceKeysProofs --------------------------
(***************************************************************************)
(* Proofs about DeviceKeys, for any keys, signers and concurrent requests. *)
(*                                                                         *)
(* Claims and merges are made of two statements.  IInv adds to the         *)
(* properties what a request may rely on between them: its locked row is   *)
(* its own, and what it read of a row belongs to the key it signs.         *)
(***************************************************************************)
EXTENDS DeviceKeys, FiniteSetTheorems, WellFoundedInduction, TLAPS

CrossKeys == {CrossKey(x, g) : x \in Usages, g \in Generations}

(* SKIP LOCKED: no row is locked by two claims. *)
LocksDisjoint ==
  \A t, u \in Threads :
    req[t].pc = "locked" /\ req[u].pc = "locked" /\ req[t].id = req[u].id => t = u

(* A key_id is in the table at most once. *)
KeyIdsUnique ==
  \A i, j \in DOMAIN usoUnico : usoUnico[i] = usoUnico[j] => i = j

(* What is left to store are cross-signing keys. *)
TodoCross == \A t \in Threads : req[t].todo \subseteq CrossKeys

(* A signature is on its way to a row that exists. *)
SignsRow ==
  \A t \in Threads : req[t].pc \in {"sign", "merge"} =>
    req[t].row \in DOMAIN chave /\ req[t].sig # {}

(* The signatures read of a cross-signing key are over the key to be signed. *)
ReadMatches ==
  \A t \in Threads : req[t].pc = "merge" /\ req[t].row \in Usages =>
    \A s \in req[t].sig, r \in req[t].read : r.over = s.over

(* What a merge has read is not older than the last write, or it is stale. *)
ReadCurrent ==
  \A t \in Threads : req[t].pc = "merge" /\ ~req[t].stale =>
    merged[req[t].row] \subseteq req[t].read

IInv ==
  /\ TypeOK /\ OneClaimPerInsert /\ CrossSignaturesMatch /\ SignaturesKept
  /\ LocksDisjoint /\ KeyIdsUnique
  /\ TodoCross /\ SignsRow /\ ReadMatches /\ ReadCurrent

-----------------------------------------------------------------------------
(* Facts about the helpers. *)

(* A set of naturals has a minimum. *)
LEMMA MinExists ==
  ASSUME NEW D, D \subseteq Nat, D # {}
  PROVE  Min(D) \in D
<1>1. PICK d \in D : TRUE
  OBVIOUS
<1>2. PICK m \in D : \A y \in D : <<y, m>> \notin OpToRel(<, Nat)
  BY <1>1, NatLessThanWellFounded, WFMin
<1>3. ASSUME NEW y \in D PROVE m =< y
  <2>1. ~(y < m)
    BY <1>2 DEF OpToRel
  <2>2. y \in Nat /\ m \in Nat
    BY <1>2
  <2> QED BY <2>1, <2>2
<1> QED BY <1>2, <1>3 DEF Min

LEMMA Rows ==
  /\ "device" \in SignedRows /\ "device" \notin Usages
  /\ \A k \in CrossKeys : k \in PublicKeys /\ k[1] \in Usages
  /\ \A x \in Usages : x \in SignedRows
BY KeysAssumption DEF SignedRows, CrossKeys, CrossKey, PublicKeys, Order

LEMMA IdleFacts ==
  /\ Idle \in Request /\ Idle.pc = "idle" /\ Idle.todo = {}
BY Rows DEF Idle, Request, Steps

LEMMA EnterFacts ==
  ASSUME TypeOK, NEW t \in Threads, NEW r \in Request, Enter(t, r)
  PROVE  /\ req' \in [Threads -> Request]
         /\ req'[t] = r
         /\ \A u \in Threads \ {t} : req'[u] = req[u]
BY DEF TypeOK, Enter

(***************************************************************************)
(* A step that ends or begins a request and writes nothing: the parts of   *)
(* IInv about the tables stay, those about t follow from its new request.  *)
(***************************************************************************)
LEMMA EnterKeeps ==
  ASSUME IInv, NEW t \in Threads, NEW r \in Request, Enter(t, r),
         UNCHANGED <<usoUnico, fallback, chave, nextRow, history>>,
         r.pc = "locked" => r.id \in DOMAIN usoUnico \ Locked,
         r.todo \subseteq CrossKeys,
         r.pc \in {"sign", "merge"} => r.row \in DOMAIN chave /\ r.sig # {},
         r.pc = "merge" /\ r.row \in Usages =>
           \A s \in r.sig, x \in r.read : x.over = s.over,
         r.pc = "merge" /\ ~r.stale => merged[r.row] \subseteq r.read
  PROVE  IInv'
<1>1. /\ req' \in [Threads -> Request]
      /\ req'[t] = r
      /\ \A u \in Threads \ {t} : req'[u] = req[u]
  BY EnterFacts DEF IInv
<1>2. TypeOK'
  BY <1>1 DEF IInv, TypeOK, history
<1>3. OneClaimPerInsert' /\ CrossSignaturesMatch' /\ SignaturesKept' /\ KeyIdsUnique'
  BY DEF IInv, OneClaimPerInsert, CrossSignaturesMatch, SignaturesKept, KeyIdsUnique,
         InTable, history
<1>4. LocksDisjoint'
  BY <1>1 DEF IInv, LocksDisjoint, Locked
<1>5. TodoCross' /\ SignsRow'
  BY <1>1 DEF IInv, TodoCross, SignsRow
<1>6. ReadMatches'
  BY <1>1 DEF IInv, ReadMatches
<1>7. ReadCurrent'
  BY <1>1 DEF IInv, ReadCurrent, history
<1> QED BY <1>2, <1>3, <1>4, <1>5, <1>6, <1>7 DEF IInv

-----------------------------------------------------------------------------
(* Requests that begin, read or end. *)

LEMMA IdleKeeps ==
  ASSUME IInv, NEW t \in Threads, Enter(t, Idle),
         UNCHANGED <<usoUnico, fallback, chave, nextRow, history>>
  PROVE  IInv'
BY EnterKeeps, IdleFacts

LEMMA LockStep ==
  ASSUME IInv, NEW t \in Threads, LockOneTimeKey(t)
  PROVE  IInv'
<1> DEFINE D == DOMAIN usoUnico \ Locked
           r == [Idle EXCEPT !.pc = "locked", !.id = Min(D)]
<1>1. D \subseteq Nat /\ D # {}
  BY DEF IInv, TypeOK, LockOneTimeKey
<1>2. Min(D) \in D
  BY <1>1, MinExists
<1>3. /\ r \in Request /\ r.pc = "locked" /\ r.id = Min(D) /\ r.todo = {}
  BY <1>1, <1>2, Rows DEF Idle, Request, Steps
<1>4. Enter(t, r) /\ UNCHANGED <<usoUnico, fallback, chave, nextRow, history>>
  BY DEF LockOneTimeKey
<1> HIDE DEF r
<1> QED BY <1>2, <1>3, <1>4, EnterKeeps

LEMMA NoOneTimeKeyStep ==
  ASSUME IInv, NEW t \in Threads, NoOneTimeKey(t)
  PROVE  IInv'
<1> DEFINE r == [Idle EXCEPT !.pc = "fallback"]
<1>1. r \in Request /\ r.pc = "fallback" /\ r.todo = {}
  BY Rows DEF Idle, Request, Steps
<1>2. Enter(t, r) /\ UNCHANGED <<usoUnico, fallback, chave, nextRow, history>>
  BY DEF NoOneTimeKey
<1> HIDE DEF r
<1> QED BY <1>1, <1>2, EnterKeeps

LEMMA UploadCrossSigningKeysStep ==
  ASSUME IInv, NEW t \in Threads, NEW g \in Generations, NEW X \in SUBSET Usages,
         UploadCrossSigningKeys(t, g, X)
  PROVE  IInv'
<1> DEFINE K == {CrossKey(x, g) : x \in X}
           r == [Idle EXCEPT !.pc = "cross", !.todo = K]
<1>1. K \subseteq CrossKeys
  BY DEF CrossKeys
<1>2. K \subseteq PublicKeys
  BY <1>1, Rows
<1>3. Enter(t, r) /\ UNCHANGED <<usoUnico, fallback, chave, nextRow, history>>
  BY DEF UploadCrossSigningKeys
<1> HIDE DEF K
<1>4. r \in Request /\ r.pc = "cross" /\ r.todo = K
  BY <1>2, Rows DEF Idle, Request, Steps
<1> HIDE DEF r
<1> QED BY <1>1, <1>3, <1>4, EnterKeeps

LEMMA UploadSignaturesStep ==
  ASSUME IInv, NEW t \in Threads, NEW x \in SignedRows, NEW s \in Signers,
         UploadSignatures(t, x, s)
  PROVE  IInv'
<1> DEFINE S == {[signer |-> s, over |-> chave[x].key]}
           r == [Idle EXCEPT !.pc = "sign", !.row = x, !.sig = S]
<1>1. x \in DOMAIN chave /\ chave[x].key \in PublicKeys
  BY DEF UploadSignatures, IInv, TypeOK
<1>2. S \subseteq Signature /\ S # {}
  BY <1>1 DEF Signature
<1>3. Enter(t, r) /\ UNCHANGED <<usoUnico, fallback, chave, nextRow, history>>
  BY DEF UploadSignatures
<1> HIDE DEF S
<1>4. r \in Request /\ r.pc = "sign" /\ r.todo = {} /\ r.row = x /\ r.sig = S
  BY <1>2, Rows DEF Idle, Request, Steps
<1> HIDE DEF r
<1> QED BY <1>1, <1>2, <1>3, <1>4, EnterKeeps

(* The signatures read of a cross-signing row are over its key, as is t's. *)
LEMMA ReadSignaturesStep ==
  ASSUME IInv, NEW t \in Threads, ReadSignatures(t)
  PROVE  IInv'
<1> DEFINE x == req[t].row
           r == [req[t] EXCEPT !.pc = "merge", !.read = chave[x].sigs]
<1>1. req[t] \in Request /\ req[t].pc = "sign"
  BY DEF ReadSignatures, IInv, TypeOK
<1>2. x \in DOMAIN chave /\ req[t].sig # {}
  BY <1>1 DEF IInv, SignsRow
<1>3. chave[x].sigs \subseteq Signature
  BY <1>2 DEF IInv, TypeOK
<1>4. UNCHANGED <<usoUnico, fallback, chave, nextRow, history>>
  BY DEF ReadSignatures
<1>5. ASSUME x = "device" \/ ForKey(t, x) PROVE IInv'
  <2>1. Enter(t, r)
    BY <1>5 DEF ReadSignatures
  <2>2. /\ r \in Request /\ r.pc = "merge" /\ r.row = x /\ r.sig = req[t].sig
        /\ r.read = chave[x].sigs /\ r.todo = req[t].todo
    BY <1>1, <1>3 DEF Request, Steps
  <2>3. r.todo \subseteq CrossKeys
    BY <2>2 DEF IInv, TodoCross
  <2>4. x \in Usages => \A s \in req[t].sig, y \in chave[x].sigs : y.over = s.over
    BY <1>2, <1>5, Rows DEF IInv, CrossSignaturesMatch, ForKey
  <2>5. merged[x] \subseteq chave[x].sigs
    BY <1>2 DEF IInv, SignaturesKept
  <2> HIDE DEF r
  <2> QED BY <1>2, <1>4, <2>1, <2>2, <2>3, <2>4, <2>5, EnterKeeps
<1>6. ASSUME ~(x = "device" \/ ForKey(t, x)) PROVE IInv'
  BY <1>4, <1>6, IdleKeeps DEF ReadSignatures
<1> QED BY <1>5, <1>6

LEMMA AbortStep ==
  ASSUME IInv, NEW t \in Threads, Abort(t)
  PROVE  IInv'
BY IdleKeeps DEF Abort

LEMMA ClaimFallbackKeyStep ==
  ASSUME IInv, NEW t \in Threads, ClaimFallbackKey(t)
  PROVE  IInv'
<1>1. /\ req' \in [Threads -> Request] /\ req'[t] = Idle
      /\ \A u \in Threads \ {t} : req'[u] = req[u]
  BY EnterFacts, IdleFacts DEF IInv, ClaimFallbackKey
<1>2. UNCHANGED <<usoUnico, chave, nextRow, history>>
  BY DEF ClaimFallbackKey
<1>3. fallback' \in [key : Fallbacks \cup {"none"}, usada : BOOLEAN]
  BY DEF IInv, TypeOK, ClaimFallbackKey
<1>4. TypeOK'
  BY <1>1, <1>2, <1>3, IdleFacts DEF IInv, TypeOK, history
<1>5. OneClaimPerInsert' /\ CrossSignaturesMatch' /\ SignaturesKept' /\ KeyIdsUnique'
  BY <1>2 DEF IInv, OneClaimPerInsert, CrossSignaturesMatch, SignaturesKept,
              KeyIdsUnique, InTable, history
<1>6. LocksDisjoint' /\ TodoCross' /\ SignsRow' /\ ReadMatches' /\ ReadCurrent'
  BY <1>1, <1>2, IdleFacts
     DEF IInv, LocksDisjoint, TodoCross, SignsRow, ReadMatches, ReadCurrent, history
<1> QED BY <1>4, <1>5, <1>6 DEF IInv

-----------------------------------------------------------------------------
(* One-time keys. *)

(* The claim deletes the row it had locked, and no other claim had it. *)
LEMMA ClaimOneTimeKeyStep ==
  ASSUME IInv, NEW t \in Threads, ClaimOneTimeKey(t)
  PROVE  IInv'
<1>2. PICK i \in DOMAIN usoUnico : req[t].id = i
  BY DEF ClaimOneTimeKey, IInv, TypeOK
<1>k. PICK k \in KeyIds : usoUnico[i] = k
  BY DEF IInv, TypeOK
<1>1. /\ req[t].pc = "locked"
      /\ usoUnico' = [j \in DOMAIN usoUnico \ {i} |-> usoUnico[j]]
      /\ handed' = [handed EXCEPT ![k] = @ + 1]
      /\ Enter(t, Idle)
      /\ UNCHANGED <<fallback, chave, nextRow, inserted, merged>>
  BY <1>2, <1>k DEF ClaimOneTimeKey
<1>3. /\ req' \in [Threads -> Request] /\ req'[t] = Idle
      /\ \A u \in Threads \ {t} : req'[u] = req[u]
  BY <1>1, EnterFacts, IdleFacts DEF IInv
<1>4. /\ DOMAIN usoUnico' = DOMAIN usoUnico \ {i}
      /\ \A j \in DOMAIN usoUnico \ {i} : usoUnico'[j] = usoUnico[j]
  BY <1>1
<1>5. /\ handed' \in [KeyIds -> Nat] /\ handed'[k] = handed[k] + 1
      /\ \A x \in KeyIds \ {k} : handed'[x] = handed[x]
  BY <1>1 DEF IInv, TypeOK
<1>6. \A u \in Threads : req'[u].pc = "locked" => req'[u].id \in DOMAIN usoUnico'
  BY <1>1, <1>2, <1>3, <1>4, IdleFacts DEF IInv, TypeOK, LocksDisjoint
<1>7. TypeOK'
  BY <1>1, <1>3, <1>4, <1>5, <1>6 DEF IInv, TypeOK
<1>8. OneClaimPerInsert'
  <2>1. KeyIdsUnique'
    BY <1>4 DEF IInv, KeyIdsUnique
  <2>2. ~InTable(k)' /\ InTable(k)
    BY <1>k, <1>4 DEF IInv, KeyIdsUnique, InTable
  <2>3. \A x \in KeyIds \ {k} : InTable(x)' <=> InTable(x)
    BY <1>k, <1>4 DEF InTable
  <2>4. ASSUME NEW x \in KeyIds
        PROVE  inserted'[x] = handed'[x] + (IF InTable(x)' THEN 1 ELSE 0)
    <3>1. inserted[x] = handed[x] + (IF InTable(x) THEN 1 ELSE 0)
      BY DEF IInv, OneClaimPerInsert
    <3>2. handed[x] \in Nat /\ inserted'[x] = inserted[x]
      BY <1>1 DEF IInv, TypeOK
    <3>3. CASE x = k
      BY <2>2, <3>1, <3>2, <3>3, <1>5
    <3>4. CASE x # k
      BY <2>3, <3>1, <3>2, <3>4, <1>5
    <3> QED BY <3>3, <3>4
  <2> QED BY <2>4 DEF OneClaimPerInsert
<1>9. CrossSignaturesMatch' /\ SignaturesKept'
  BY <1>1 DEF IInv, CrossSignaturesMatch, SignaturesKept
<1>10. KeyIdsUnique'
  BY <1>4 DEF IInv, KeyIdsUnique
<1>11. LocksDisjoint' /\ TodoCross' /\ SignsRow' /\ ReadMatches' /\ ReadCurrent'
  BY <1>1, <1>3, IdleFacts
     DEF IInv, LocksDisjoint, TodoCross, SignsRow, ReadMatches, ReadCurrent
<1> QED BY <1>7, <1>8, <1>9, <1>10, <1>11 DEF IInv

(* New key_ids get new rows, one each; those in the table stay as they are. *)
LEMMA UpsertOneTimeKeysFacts ==
  ASSUME IInv, NEW K \in SUBSET KeyIds, UpsertOneTimeKeys(K)
  PROVE  /\ nextRow' \in Nat \ {0} /\ DOMAIN usoUnico' \subseteq 1 .. (nextRow' - 1)
         /\ \A i \in DOMAIN usoUnico' : usoUnico'[i] \in KeyIds
         /\ DOMAIN usoUnico \subseteq DOMAIN usoUnico'
         /\ inserted' \in [KeyIds -> Nat]
         /\ KeyIdsUnique'
         /\ \A x \in KeyIds :
              inserted'[x] = handed[x] + (IF InTable(x)' THEN 1 ELSE 0)
<1> DEFINE new == K \ Range(usoUnico)
           c == Cardinality(new)
           ids == nextRow .. (nextRow + c - 1)
<1>1. IsFiniteSet(new)
  BY KeysAssumption, FS_Subset
<1>2. c \in Nat
  BY <1>1, FS_CardinalityType
<1>3. PICK f \in Bijection(ids, new) :
        usoUnico' = [i \in DOMAIN usoUnico \cup ids |->
                       IF i \in ids THEN f[i] ELSE usoUnico[i]]
  BY DEF UpsertOneTimeKeys
<1>4. /\ nextRow' = nextRow + c
      /\ inserted' = [x \in KeyIds |-> inserted[x] + (IF x \in new THEN 1 ELSE 0)]
  BY DEF UpsertOneTimeKeys
<1>5. /\ f \in [ids -> new]
      /\ \A i, j \in ids : f[i] = f[j] => i = j
      /\ \A x \in new : \E i \in ids : f[i] = x
  BY <1>3 DEF Bijection, Injection, Surjection, IsInjective
<1>6. new \subseteq KeyIds /\ \A i \in DOMAIN usoUnico : usoUnico[i] \notin new
  BY DEF Range
<1>7. /\ nextRow \in Nat \ {0} /\ DOMAIN usoUnico \subseteq 1 .. (nextRow - 1)
      /\ inserted \in [KeyIds -> Nat] /\ handed \in [KeyIds -> Nat]
      /\ \A i \in DOMAIN usoUnico : usoUnico[i] \in KeyIds
  BY DEF IInv, TypeOK
<1>7a. \A x \in KeyIds : inserted[x] \in Nat /\ handed[x] \in Nat
  BY <1>7
<1> HIDE DEF new, c
<1>8. /\ DOMAIN usoUnico' = DOMAIN usoUnico \cup ids
      /\ \A i \in ids : usoUnico'[i] = f[i] /\ f[i] \in new
      /\ \A i \in DOMAIN usoUnico : usoUnico'[i] = usoUnico[i]
  <2>1. \A i \in DOMAIN usoUnico : i \notin ids
    BY <1>2, <1>7
  <2> HIDE DEF ids
  <2> QED BY <1>3, <1>5, <2>1
<1>9. nextRow' \in Nat \ {0} /\ DOMAIN usoUnico' \subseteq 1 .. (nextRow' - 1)
  <2>1. ids \subseteq 1 .. (nextRow' - 1)
    BY <1>2, <1>4, <1>7
  <2>2. 1 .. (nextRow - 1) \subseteq 1 .. (nextRow' - 1)
    BY <1>2, <1>4, <1>7
  <2> QED BY <1>2, <1>4, <1>7, <1>8, <2>1, <2>2
<1> HIDE DEF ids
<1>10. \A i \in DOMAIN usoUnico' : usoUnico'[i] \in KeyIds
  BY <1>6, <1>7, <1>8
<1>11. KeyIdsUnique'
  BY <1>5, <1>6, <1>8 DEF IInv, KeyIdsUnique
<1>12. \A x : InTable(x)' <=> InTable(x) \/ x \in new
  BY <1>5, <1>8 DEF InTable
<1>13. inserted' \in [KeyIds -> Nat]
  BY <1>4, <1>7a
<1>14. ASSUME NEW x \in KeyIds
       PROVE  inserted'[x] = handed[x] + (IF InTable(x)' THEN 1 ELSE 0)
  <2>1. inserted[x] = handed[x] + (IF InTable(x) THEN 1 ELSE 0)
    BY DEF IInv, OneClaimPerInsert
  <2>2. inserted'[x] = inserted[x] + (IF x \in new THEN 1 ELSE 0)
    BY <1>4
  <2>3. x \in new => ~InTable(x)
    BY <1>6 DEF InTable
  <2>4. InTable(x)' <=> InTable(x) \/ x \in new
    BY <1>12
  <2>5. CASE x \in new
    BY <2>1, <2>2, <2>3, <2>4, <2>5, <1>7a
  <2>6. CASE x \notin new
    BY <2>1, <2>2, <2>4, <2>6, <1>7a
  <2> QED BY <2>5, <2>6
<1> QED BY <1>8, <1>9, <1>10, <1>11, <1>13, <1>14

-----------------------------------------------------------------------------
(* Identity and cross-signing keys, and their signatures. *)

(* The part of IInv about the rows that carry signatures. *)
ChaveGood ==
  /\ DOMAIN chave \subseteq SignedRows
  /\ \A x \in DOMAIN chave :
       chave[x] \in [key : PublicKeys, sigs : SUBSET Signature]
  /\ merged \in [SignedRows -> SUBSET Signature]
  /\ CrossSignaturesMatch /\ SignaturesKept

(* An upload stores a key without signatures. *)
LEMMA KeyStored ==
  ASSUME IInv, NEW x \in SignedRows, NEW k \in PublicKeys,
         chave' = Stored(x, k, {}), merged' = [merged EXCEPT ![x] = {}]
  PROVE  /\ ChaveGood'
         /\ DOMAIN chave \subseteq DOMAIN chave'
         /\ \A y \in SignedRows : merged'[y] \subseteq merged[y]
<1>1. /\ DOMAIN chave' = DOMAIN chave \cup {x}
      /\ chave'[x] = [key |-> k, sigs |-> {}]
      /\ \A y \in DOMAIN chave \ {x} : chave'[y] = chave[y]
  BY DEF Stored
<1>2. /\ merged' \in [SignedRows -> SUBSET Signature] /\ merged'[x] = {}
      /\ \A y \in SignedRows \ {x} : merged'[y] = merged[y]
  BY DEF IInv, TypeOK
<1>3. DOMAIN chave \subseteq SignedRows
  BY DEF IInv, TypeOK
<1>4. \A y \in DOMAIN chave' : chave'[y] \in [key : PublicKeys, sigs : SUBSET Signature]
  BY <1>1 DEF IInv, TypeOK
<1>5. CrossSignaturesMatch'
  BY <1>1 DEF IInv, CrossSignaturesMatch
<1>6. SignaturesKept'
  BY <1>1, <1>2, <1>3 DEF IInv, SignaturesKept
<1> QED BY <1>1, <1>2, <1>3, <1>4, <1>5, <1>6 DEF ChaveGood

LEMMA UploadKeysStep ==
  ASSUME IInv, NEW k \in Identities \cup {"none"}, NEW K \in SUBSET KeyIds,
         NEW fb \in Fallbacks \cup {"none"}, UploadKeys(k, K, fb)
  PROVE  IInv'
<1>1. UpsertOneTimeKeys(K) /\ UNCHANGED <<req, handed>>
  BY DEF UploadKeys
<1>2. /\ nextRow' \in Nat \ {0} /\ DOMAIN usoUnico' \subseteq 1 .. (nextRow' - 1)
      /\ \A i \in DOMAIN usoUnico' : usoUnico'[i] \in KeyIds
      /\ DOMAIN usoUnico \subseteq DOMAIN usoUnico'
      /\ inserted' \in [KeyIds -> Nat]
      /\ KeyIdsUnique'
      /\ OneClaimPerInsert'
  BY <1>1, UpsertOneTimeKeysFacts DEF OneClaimPerInsert
<1>3. /\ ChaveGood'
      /\ DOMAIN chave \subseteq DOMAIN chave'
      /\ \A y \in SignedRows : merged'[y] \subseteq merged[y]
  <2>1. CASE k = "none"
    <3>1. UNCHANGED <<chave, merged>>
      BY <2>1 DEF UploadKeys
    <3> QED BY <3>1 DEF IInv, TypeOK, ChaveGood, CrossSignaturesMatch, SignaturesKept
  <2>2. CASE k # "none"
    <3>1. /\ chave' = Stored("device", k, {})
          /\ merged' = [merged EXCEPT !["device"] = {}]
      BY <2>2 DEF UploadKeys, UpsertDeviceKeys
    <3>2. k \in PublicKeys
      BY <2>2 DEF PublicKeys
    <3> QED BY <3>1, <3>2, Rows, KeyStored
  <2> QED BY <2>1, <2>2
<1>4. fallback' \in [key : Fallbacks \cup {"none"}, usada : BOOLEAN]
  <2>1. CASE fb = "none"
    BY <2>1 DEF UploadKeys, IInv, TypeOK
  <2>2. CASE fb # "none"
    <3>1. fallback' = [key |-> fb, usada |-> FALSE]
      BY <2>2 DEF UploadKeys, UpsertFallbackKey
    <3> QED BY <3>1
  <2> QED BY <2>1, <2>2
<1>5. TypeOK'
  BY <1>1, <1>2, <1>3, <1>4 DEF IInv, TypeOK, ChaveGood
<1>6. LocksDisjoint' /\ TodoCross' /\ SignsRow' /\ ReadMatches'
  BY <1>1, <1>3 DEF IInv, LocksDisjoint, TodoCross, SignsRow, ReadMatches
<1>7. ReadCurrent'
  <2>1. \A t \in Threads : req[t].row \in SignedRows
    BY DEF IInv, TypeOK, Request
  <2> QED BY <1>1, <1>3, <2>1 DEF IInv, ReadCurrent
<1> QED BY <1>2, <1>3, <1>5, <1>6, <1>7 DEF IInv, ChaveGood

LEMMA UpsertCrossSigningKeyStep ==
  ASSUME IInv, NEW t \in Threads, NEW k \in req[t].todo, UpsertCrossSigningKey(t, k)
  PROVE  IInv'
<1> DEFINE r == IF req[t].todo = {k} THEN Idle
                ELSE [req[t] EXCEPT !.todo = @ \ {k}]
<1>1. req[t] \in Request /\ req[t].pc = "cross" /\ req[t].todo \subseteq CrossKeys
  BY DEF IInv, TypeOK, TodoCross, UpsertCrossSigningKey
<1>2. k \in PublicKeys /\ k[1] \in SignedRows
  BY <1>1, Rows
<1>3. /\ ChaveGood'
      /\ DOMAIN chave \subseteq DOMAIN chave'
      /\ \A y \in SignedRows : merged'[y] \subseteq merged[y]
  BY <1>2, KeyStored DEF UpsertCrossSigningKey
<1>4. Enter(t, r) /\ UNCHANGED <<usoUnico, fallback, nextRow, inserted, handed>>
  BY DEF UpsertCrossSigningKey
<1>5. r \in Request /\ r.pc \in {"idle", "cross"} /\ r.todo \subseteq CrossKeys
  BY <1>1, IdleFacts DEF Request
<1> HIDE DEF r
<1>6. /\ req' \in [Threads -> Request] /\ req'[t] = r
      /\ \A u \in Threads \ {t} : req'[u] = req[u]
  BY <1>4, <1>5, EnterFacts DEF IInv
<1>7. TypeOK'
  BY <1>3, <1>4, <1>5, <1>6 DEF IInv, TypeOK, ChaveGood
<1>8. OneClaimPerInsert' /\ KeyIdsUnique'
  BY <1>4 DEF IInv, OneClaimPerInsert, KeyIdsUnique, InTable
<1>9. LocksDisjoint' /\ TodoCross' /\ SignsRow' /\ ReadMatches'
  BY <1>3, <1>5, <1>6 DEF IInv, LocksDisjoint, TodoCross, SignsRow, ReadMatches
<1>10. ReadCurrent'
  <2>1. \A u \in Threads : req[u].row \in SignedRows
    BY DEF IInv, TypeOK, Request
  <2> QED BY <1>3, <1>5, <1>6, <2>1 DEF IInv, ReadCurrent
<1> QED BY <1>3, <1>7, <1>8, <1>9, <1>10 DEF IInv, ChaveGood

(* Only the mark of the merges that have read the row changes. *)
LEMMA LeaveStaleFacts ==
  ASSUME IInv, NEW t \in Threads, NEW x, LeaveStale(t, x)
  PROVE  /\ req' \in [Threads -> Request] /\ req'[t] = Idle
         /\ \A u \in Threads \ {t} :
              /\ req'[u].pc = req[u].pc /\ req'[u].id = req[u].id
              /\ req'[u].todo = req[u].todo /\ req'[u].row = req[u].row
              /\ req'[u].sig = req[u].sig /\ req'[u].read = req[u].read
              /\ req'[u].stale =
                   (req[u].stale \/ (req[u].pc = "merge" /\ req[u].row = x))
<1>1. /\ DOMAIN req' = Threads /\ req'[t] = Idle
      /\ \A u \in Threads \ {t} : req'[u] =
           [req[u] EXCEPT !.stale = @ \/ (req[u].pc = "merge" /\ req[u].row = x)]
      /\ req' = [u \in Threads |-> req'[u]]
  BY DEF LeaveStale
<1>2. ASSUME NEW u \in Threads \ {t}
      PROVE  /\ req'[u] \in Request
             /\ req'[u].pc = req[u].pc /\ req'[u].id = req[u].id
             /\ req'[u].todo = req[u].todo /\ req'[u].row = req[u].row
             /\ req'[u].sig = req[u].sig /\ req'[u].read = req[u].read
             /\ req'[u].stale =
                  (req[u].stale \/ (req[u].pc = "merge" /\ req[u].row = x))
  <2> DEFINE b == req[u].stale \/ (req[u].pc = "merge" /\ req[u].row = x)
  <2>1. b \in BOOLEAN
    OBVIOUS
  <2>2. req'[u] = [req[u] EXCEPT !.stale = b]
    BY <1>1
  <2> HIDE DEF b
  <2>3. req[u] \in Request
    BY DEF IInv, TypeOK
  <2>4. /\ req'[u] \in Request
        /\ req'[u].pc = req[u].pc /\ req'[u].id = req[u].id
        /\ req'[u].todo = req[u].todo /\ req'[u].row = req[u].row
        /\ req'[u].sig = req[u].sig /\ req'[u].read = req[u].read
        /\ req'[u].stale = b
    BY <2>1, <2>2, <2>3 DEF Request
  <2> QED BY <2>4 DEF b
<1>3. \A u \in Threads : req'[u] \in Request
  BY <1>1, <1>2, IdleFacts
<1>4. req' \in [Threads -> Request]
  BY <1>1, <1>3
<1> QED BY <1>1, <1>2, <1>4

LEMMA UpdateSignaturesStep ==
  ASSUME IInv, NEW t \in Threads, UpdateSignatures(t)
  PROVE  IInv'
<1>0. PICK x \in SignedRows : req[t].row = x
  BY DEF IInv, TypeOK, Request
<1>1. PICK S \in SUBSET Signature, R \in SUBSET Signature :
        req[t].sig = S /\ req[t].read = R
  BY DEF IInv, TypeOK, Request
<1>2. /\ req[t].pc = "merge" /\ x \in DOMAIN chave /\ S # {}
      /\ UNCHANGED <<usoUnico, fallback, nextRow, inserted, handed>>
  BY <1>0, <1>1 DEF UpdateSignatures, IInv, SignsRow
<1>3. ASSUME ~RowMatches(t) PROVE IInv'
  <2>1. UNCHANGED <<chave, merged>> /\ Enter(t, Idle)
    BY <1>3 DEF UpdateSignatures
  <2> QED BY <1>2, <2>1, IdleKeeps DEF history
<1>4. ASSUME RowMatches(t) PROVE IInv'
  <2> DEFINE k == chave[x].key
             old == IF req[t].stale THEN {} ELSE merged[x]
  <2>1. /\ chave' = Stored(x, k, R \cup S)
        /\ merged' = [merged EXCEPT ![x] = old \cup S]
        /\ LeaveStale(t, x)
    BY <1>0, <1>1, <1>4 DEF UpdateSignatures, MergeSignatures
  <2>2. k \in PublicKeys
    BY <1>2 DEF IInv, TypeOK
  <2>3. old \subseteq R /\ old \subseteq Signature
    BY <1>0, <1>1, <1>2 DEF IInv, ReadCurrent
  <2>4. x \in Usages => \A s \in R \cup S : s.over = k
    <3>1. x \in Usages => x # "device"
      BY Rows
    <3>2. x \in Usages => \A s \in S : s.over = k
      BY <1>0, <1>1, <1>4, <3>1 DEF RowMatches, ForKey
    <3>3. x \in Usages => \A s \in S, r \in R : r.over = s.over
      BY <1>0, <1>1, <1>2 DEF IInv, ReadMatches
    <3> QED BY <1>2, <3>2, <3>3
  <2>5. /\ DOMAIN chave' = DOMAIN chave
        /\ chave'[x] = [key |-> k, sigs |-> R \cup S]
        /\ \A y \in DOMAIN chave \ {x} : chave'[y] = chave[y]
    BY <1>2, <2>1 DEF Stored
  <2>6. /\ merged' \in [SignedRows -> SUBSET Signature] /\ merged'[x] = old \cup S
        /\ \A y \in SignedRows \ {x} : merged'[y] = merged[y]
    BY <2>1, <2>3 DEF IInv, TypeOK
  <2> HIDE DEF old
  <2>7. CrossSignaturesMatch'
    <3>1. ASSUME NEW y \in DOMAIN chave' \cap Usages, NEW s \in chave'[y].sigs
          PROVE  s.over = chave'[y].key
      <4>1. CASE y = x
        BY <2>4, <2>5, <4>1
      <4>2. CASE y # x
        BY <2>5, <4>2 DEF IInv, CrossSignaturesMatch
      <4> QED BY <4>1, <4>2
    <3> QED BY <3>1 DEF CrossSignaturesMatch
  <2> DEFINE row == [key |-> k, sigs |-> R \cup S]
  <2>8. row \in [key : PublicKeys, sigs : SUBSET Signature]
    BY <2>2
  <2> HIDE DEF k
  <2>9. SignaturesKept'
    <3>1. DOMAIN chave \subseteq SignedRows
      BY DEF IInv, TypeOK
    <3> QED BY <2>3, <2>5, <2>6, <3>1 DEF IInv, SignaturesKept
  <2> HIDE DEF row
  <2>10. /\ req' \in [Threads -> Request] /\ req'[t] = Idle
         /\ \A u \in Threads \ {t} :
              /\ req'[u].pc = req[u].pc /\ req'[u].id = req[u].id
              /\ req'[u].todo = req[u].todo /\ req'[u].row = req[u].row
              /\ req'[u].sig = req[u].sig /\ req'[u].read = req[u].read
              /\ req'[u].stale =
                   (req[u].stale \/ (req[u].pc = "merge" /\ req[u].row = x))
    BY <2>1, LeaveStaleFacts
  <2>11. \A y \in DOMAIN chave' :
           chave'[y] \in [key : PublicKeys, sigs : SUBSET Signature]
    BY <2>5, <2>8 DEF IInv, TypeOK, row
  <2>12. TypeOK'
    BY <1>2, <2>5, <2>6, <2>10, <2>11, IdleFacts DEF IInv, TypeOK
  <2>13. OneClaimPerInsert' /\ KeyIdsUnique'
    BY <1>2 DEF IInv, OneClaimPerInsert, KeyIdsUnique, InTable
  <2>14. LocksDisjoint' /\ TodoCross' /\ SignsRow' /\ ReadMatches'
    BY <2>5, <2>10, IdleFacts DEF IInv, LocksDisjoint, TodoCross, SignsRow, ReadMatches
  <2>15. ReadCurrent'
    <3>1. ASSUME NEW u \in Threads, req'[u].pc = "merge", ~req'[u].stale
          PROVE  merged'[req'[u].row] \subseteq req'[u].read
      <4>1. u # t
        BY <2>10, <3>1, IdleFacts
      <4>2. ~req[u].stale /\ req[u].row # x /\ req[u].pc = "merge"
        BY <2>10, <3>1, <4>1
      <4>3. req[u].row \in SignedRows
        BY DEF IInv, TypeOK, Request
      <4> QED BY <2>6, <2>10, <4>1, <4>2, <4>3 DEF IInv, ReadCurrent
    <3> QED BY <3>1 DEF ReadCurrent
  <2> QED BY <2>7, <2>9, <2>12, <2>13, <2>14, <2>15 DEF IInv
<1> QED BY <1>3, <1>4

-----------------------------------------------------------------------------
LEMMA InitIInv == Init => IInv
<1> SUFFICES ASSUME Init PROVE IInv
  OBVIOUS
<1>1. TypeOK
  BY IdleFacts DEF Init, TypeOK
<1>2. OneClaimPerInsert /\ CrossSignaturesMatch /\ SignaturesKept /\ KeyIdsUnique
  BY DEF Init, OneClaimPerInsert, CrossSignaturesMatch, SignaturesKept, KeyIdsUnique,
         InTable
<1>3. LocksDisjoint /\ TodoCross /\ SignsRow /\ ReadMatches /\ ReadCurrent
  BY IdleFacts
     DEF Init, LocksDisjoint, TodoCross, SignsRow, ReadMatches, ReadCurrent
<1> QED BY <1>1, <1>2, <1>3 DEF IInv

LEMMA StutterIInv == IInv /\ UNCHANGED vars => IInv'
BY DEF IInv, TypeOK, OneClaimPerInsert, CrossSignaturesMatch, SignaturesKept,
       KeyIdsUnique, InTable, LocksDisjoint, TodoCross, SignsRow, ReadMatches,
       ReadCurrent, vars, history

LEMMA NextIInv == IInv /\ [Next]_vars => IInv'
<1> SUFFICES ASSUME IInv, Next PROVE IInv'
  BY StutterIInv
<1>1. CASE uploadKeys
  BY <1>1, UploadKeysStep DEF uploadKeys
<1>2. ASSUME NEW t \in Threads,
             claimKeys(t) \/ ClaimOneTimeKey(t) \/ ClaimFallbackKey(t)
      PROVE  IInv'
  BY <1>2, LockStep, NoOneTimeKeyStep, ClaimOneTimeKeyStep, ClaimFallbackKeyStep
     DEF claimKeys
<1>3. ASSUME NEW t \in Threads,
             \/ uploadCrossSigningKeys(t)
             \/ \E k \in req[t].todo : UpsertCrossSigningKey(t, k)
      PROVE  IInv'
  BY <1>3, UploadCrossSigningKeysStep, UpsertCrossSigningKeyStep
     DEF uploadCrossSigningKeys
<1>4. ASSUME NEW t \in Threads,
             uploadSignatures(t) \/ ReadSignatures(t) \/ UpdateSignatures(t)
      PROVE  IInv'
  BY <1>4, UploadSignaturesStep, ReadSignaturesStep, UpdateSignaturesStep
     DEF uploadSignatures
<1>5. ASSUME NEW t \in Threads, Abort(t) PROVE IInv'
  BY <1>5, AbortStep
<1> QED BY <1>1, <1>2, <1>3, <1>4, <1>5 DEF Next

(* The inductive invariant, for every instance. *)
THEOREM Invariance == Spec => []IInv
BY InitIInv, NextIInv, PTL DEF Spec

(***************************************************************************)
(* Rows, locks and what requests carry keep their types: a locked row is   *)
(* in the table until its own claim deletes it (ClaimOneTimeKey).          *)
(***************************************************************************)
THEOREM TypeCorrect == Spec => []TypeOK
<1>1. IInv => TypeOK
  BY DEF IInv
<1> QED BY <1>1, Invariance, PTL

(***************************************************************************)
(* Each insert of a one-time key answers at most one claim and is never    *)
(* lost, for any number of overlapping claims and uploads.                 *)
(***************************************************************************)
THEOREM ClaimsAreUnique == Spec => []OneClaimPerInsert
<1>1. IInv => OneClaimPerInsert
  BY DEF IInv
<1> QED BY <1>1, Invariance, PTL

(***************************************************************************)
(* MergeCrossSigningSignatures never puts a signature on a key that        *)
(* replaced the one it was made over.                                      *)
(***************************************************************************)
THEOREM SignaturesMatchKeys == Spec => []CrossSignaturesMatch
<1>1. IInv => CrossSignaturesMatch
  BY DEF IInv
<1> QED BY <1>1, Invariance, PTL

(***************************************************************************)
(* A merged signature stays until the key is uploaded again or until two   *)
(* merges of its row overlap.                                              *)
(***************************************************************************)
THEOREM SignaturesStay == Spec => []SignaturesKept
<1>1. IInv => SignaturesKept
  BY DEF IInv
<1> QED BY <1>1, Invariance, PTL
=============================================================================
