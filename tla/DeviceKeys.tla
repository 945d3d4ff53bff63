----------------------------- MODULE DeviceKeys -----------------------------
(***************************************************************************)
(* End-to-end keys as the server keeps them: identity keys of a device     *)
(* (Chave_Dispositivo), one-time keys (Chave_Uso_Unico), a fallback key    *)
(* (Chave_Fallback) and a user's cross-signing keys (Chave_Cross_Signing). *)
(*                                                                         *)
(* UploadKeys is one transaction.  ClaimKeys, UploadCrossSigningKeys and   *)
(* UploadSignatures run statement by statement: a claim locks a row before *)
(* it deletes it, cross-signing keys are stored one by one, and signatures *)
(* are merged by a read and a later write, with other requests in between. *)
(*                                                                         *)
(* The tables of one user with one device are modelled, for one algorithm: *)
(* no statement touches the rows of two devices.                           *)
(***************************************************************************)
EXTENDS Naturals, FiniteSets, Functions, FiniteSetsExt

CONSTANTS
  KeyIds,       \* key_ids of one-time keys
  Fallbacks,    \* key_ids of fallback keys
  Identities,   \* identity keys the device may publish
  Usages,       \* the usages of cross-signing keys in the instance
  Generations,  \* a client's sets of cross-signing keys, one key per usage
  Signers,      \* keys whose signatures are uploaded
  Threads,      \* concurrent HTTP requests
  MaxRows       \* bound: ids of Chave_Uso_Unico are 1 .. MaxRows

(* The order in which UploadCrossSigningKeys stores the keys. *)
Order == [master |-> 1, self_signing |-> 2, user_signing |-> 3]

ASSUME KeysAssumption ==
  /\ Usages \subseteq DOMAIN Order
  /\ IsFiniteSet(KeyIds)
  /\ MaxRows \in Nat

(* The rows that carry signatures, and the public keys in them. *)
SignedRows == {"device"} \cup Usages
CrossKey(x, g) == <<x, g>>
PublicKeys == Identities \cup {CrossKey(x, g) : x \in Usages, g \in Generations}

(* A signature names its signer and the key it was made over.  Those that   *)
(* come with an uploaded key itself are left out.                           *)
Signature == [signer : Signers, over : PublicKeys]

VARIABLES
  usoUnico,   \* Chave_Uso_Unico: id -> key_id
  fallback,   \* Chave_Fallback: [key, usada], key "none" when there is no row
  chave,      \* Chave_Dispositivo, Chave_Cross_Signing: row -> [key, sigs]
  nextRow,    \* the BIGSERIAL of Chave_Uso_Unico
  req,        \* thread -> the request it serves
  inserted,   \* history: key_id -> how often UploadKeys inserted it
  handed,     \* history: key_id -> how often a claim was given it
  merged      \* history: row -> signatures merged since its last upload or
              \* since a merge that had read outdated ones wrote it

history == <<inserted, handed, merged>>
vars == <<usoUnico, fallback, chave, nextRow, req, history>>

Steps == {"idle", "locked", "fallback", "cross", "sign", "merge"}

(***************************************************************************)
(* What a request carries: the id it locked, the cross-signing keys it has *)
(* still to store, or the signature with the row and what was read of it.  *)
(* "stale" is history: another merge has written the row since then.       *)
(***************************************************************************)
Request == [pc : Steps, id : Nat, todo : SUBSET PublicKeys,
            row : SignedRows, sig : SUBSET Signature, read : SUBSET Signature,
            stale : BOOLEAN]

Idle == [pc |-> "idle", id |-> 0, todo |-> {}, row |-> "device", sig |-> {},
         read |-> {}, stale |-> FALSE]

TypeOK ==
  /\ DOMAIN usoUnico \subseteq 1 .. (nextRow - 1)
  /\ \A i \in DOMAIN usoUnico : usoUnico[i] \in KeyIds
  /\ fallback \in [key : Fallbacks \cup {"none"}, usada : BOOLEAN]
  /\ DOMAIN chave \subseteq SignedRows
  /\ \A x \in DOMAIN chave :
       chave[x] \in [key : PublicKeys, sigs : SUBSET Signature]
  /\ nextRow \in Nat \ {0}
  /\ req \in [Threads -> Request]
  /\ \A t \in Threads : req[t].pc = "locked" => req[t].id \in DOMAIN usoUnico
  /\ inserted \in [KeyIds -> Nat]
  /\ handed \in [KeyIds -> Nat]
  /\ merged \in [SignedRows -> SUBSET Signature]

-----------------------------------------------------------------------------
Enter(t, r) == req' = [req EXCEPT ![t] = r]

Locked == {req[t].id : t \in {u \in Threads : req[u].pc = "locked"}}

(* The row x of chave with the key k and the signatures s. *)
Stored(x, k, s) ==
  [y \in DOMAIN chave \cup {x} |->
     IF y = x THEN [key |-> k, sigs |-> s] ELSE chave[y]]

(* Identity keys replace the row with all signatures merged into it. *)
UpsertDeviceKeys(k) ==
  /\ chave' = Stored("device", k, {})
  /\ merged' = [merged EXCEPT !["device"] = {}]

(***************************************************************************)
(* One-time keys whose key_id is in the table are ignored.  An insert with *)
(* the key_id of a row that a claim has locked waits for that claim.       *)
(***************************************************************************)
UpsertOneTimeKeys(K) ==
  LET new == K \ Range(usoUnico)
      ids == nextRow .. (nextRow + Cardinality(new) - 1)
  IN  /\ nextRow + Cardinality(new) <= MaxRows + 1
      /\ \A i \in Locked : usoUnico[i] \notin K
      /\ \E f \in Bijection(ids, new) :
           usoUnico' = [i \in DOMAIN usoUnico \cup ids |->
                          IF i \in ids THEN f[i] ELSE usoUnico[i]]
      /\ nextRow' = nextRow + Cardinality(new)
      /\ inserted' = [x \in KeyIds |-> inserted[x] + (IF x \in new THEN 1 ELSE 0)]

(* A fallback key replaces the last one and is unused. *)
UpsertFallbackKey(fb) == fallback' = [key |-> fb, usada |-> FALSE]

(* One transaction; "none" and {} are what a request leaves out. *)
UploadKeys(k, K, fb) ==
  /\ IF k = "none" THEN UNCHANGED <<chave, merged>> ELSE UpsertDeviceKeys(k)
  /\ UpsertOneTimeKeys(K)
  /\ IF fb = "none" THEN UNCHANGED fallback ELSE UpsertFallbackKey(fb)
  /\ UNCHANGED <<req, handed>>

-----------------------------------------------------------------------------
(* ClaimKeys. *)

(* Mutant: the subquery without FOR UPDATE SKIP LOCKED. *)
MutNoSkipLocked(t) ==
  /\ req[t].pc = "idle"
  /\ DOMAIN usoUnico # {}
  /\ Enter(t, [Idle EXCEPT !.pc = "locked", !.id = Min(DOMAIN usoUnico)])
  /\ UNCHANGED <<usoUnico, fallback, chave, nextRow, history>>

(* ORDER BY id LIMIT 1 FOR UPDATE SKIP LOCKED *)
LockOneTimeKey(t) ==
  /\ req[t].pc = "idle"
  /\ DOMAIN usoUnico \ Locked # {}
  /\ Enter(t, [Idle EXCEPT !.pc = "locked", !.id = Min(DOMAIN usoUnico \ Locked)])
  /\ UNCHANGED <<usoUnico, fallback, chave, nextRow, history>>

(* Mutant: the row is read and left in the table. *)
MutNoDelete(t) ==
  /\ req[t].pc = "locked"
  /\ handed' = [handed EXCEPT ![usoUnico[req[t].id]] = @ + 1]
  /\ Enter(t, Idle)
  /\ UNCHANGED <<usoUnico, fallback, chave, nextRow, inserted, merged>>

(* DELETE ... RETURNING: the row goes and its key is the answer. *)
ClaimOneTimeKey(t) ==
  LET i == req[t].id
  IN  /\ req[t].pc = "locked"
      /\ usoUnico' = [j \in DOMAIN usoUnico \ {i} |-> usoUnico[j]]
      /\ handed' = [handed EXCEPT ![usoUnico[i]] = @ + 1]
      /\ Enter(t, Idle)
      /\ UNCHANGED <<fallback, chave, nextRow, inserted, merged>>

(* No unlocked row is left: the next statement asks for the fallback key. *)
NoOneTimeKey(t) ==
  /\ req[t].pc = "idle"
  /\ DOMAIN usoUnico \ Locked = {}
  /\ Enter(t, [Idle EXCEPT !.pc = "fallback"])
  /\ UNCHANGED <<usoUnico, fallback, chave, nextRow, history>>

ClaimFallbackKey(t) ==
  /\ req[t].pc = "fallback"
  /\ fallback' = IF fallback.key = "none" THEN fallback
                 ELSE [fallback EXCEPT !.usada = TRUE]
  /\ Enter(t, Idle)
  /\ UNCHANGED <<usoUnico, chave, nextRow, history>>

-----------------------------------------------------------------------------
(* Cross-signing keys and signatures. *)

(* A request brings a new generation of keys, of some or all usages. *)
UploadCrossSigningKeys(t, g, X) ==
  /\ req[t].pc = "idle"
  /\ X # {}
  /\ Enter(t, [Idle EXCEPT !.pc = "cross", !.todo = {CrossKey(x, g) : x \in X}])
  /\ UNCHANGED <<usoUnico, fallback, chave, nextRow, history>>

(* The next statement: the first key, in Order, that is left. *)
UpsertCrossSigningKey(t, k) ==
  /\ req[t].pc = "cross"
  /\ k \in req[t].todo
  /\ \A y \in req[t].todo : Order[k[1]] <= Order[y[1]]
  /\ chave' = Stored(k[1], k, {})
  /\ merged' = [merged EXCEPT ![k[1]] = {}]
  /\ Enter(t, IF req[t].todo = {k} THEN Idle
              ELSE [req[t] EXCEPT !.todo = @ \ {k}])
  /\ UNCHANGED <<usoUnico, fallback, nextRow, inserted, handed>>

(* A client uploads a signature over the key it has seen in row x. *)
UploadSignatures(t, x, s) ==
  /\ req[t].pc = "idle"
  /\ x \in DOMAIN chave
  /\ Enter(t, [Idle EXCEPT !.pc = "sign", !.row = x,
                 !.sig = {[signer |-> s, over |-> chave[x].key]}])
  /\ UNCHANGED <<usoUnico, fallback, chave, nextRow, history>>

(* Is the signature of t for the key that row x holds now? *)
ForKey(t, x) == \A s \in req[t].sig : s.over = chave[x].key

(***************************************************************************)
(* SELECT signatures ... FOR UPDATE, whose lock ends with the statement.   *)
(* The row of the device is found by the id of the device, a cross-signing *)
(* row by its key; a key that was replaced is not found.                   *)
(***************************************************************************)
ReadSignatures(t) ==
  LET x == req[t].row
  IN  /\ req[t].pc = "sign"
      /\ Enter(t, IF x = "device" \/ ForKey(t, x)
                    THEN [req[t] EXCEPT !.pc = "merge", !.read = chave[x].sigs]
                    ELSE Idle)
      /\ UNCHANGED <<usoUnico, fallback, chave, nextRow, history>>

(* Mutant: the incoming signatures replace the stored ones. *)
MutReplace(current, incoming) == incoming

MergeSignatures(current, incoming) == current \cup incoming

(* Mutant: UPDATE ... WHERE fk_id_usuario, without the key_id. *)
MutAnyKey(t) == TRUE

(* The WHERE clauses of the two UPDATEs. *)
RowMatches(t) == req[t].row = "device" \/ ForKey(t, req[t].row)

(* The signatures that others have read of row x are out of date. *)
LeaveStale(t, x) ==
  req' = [u \in Threads |->
            IF u = t THEN Idle
            ELSE [req[u] EXCEPT !.stale = @ \/ (req[u].pc = "merge" /\ req[u].row = x)]]

UpdateSignatures(t) ==
  LET x == req[t].row
  IN  /\ req[t].pc = "merge"
      /\ IF RowMatches(t)
           THEN /\ chave' = Stored(x, chave[x].key,
                                   MergeSignatures(req[t].read, req[t].sig))
                /\ merged' = [merged EXCEPT ![x] =
                     (IF req[t].stale THEN {} ELSE @) \cup req[t].sig]
                /\ LeaveStale(t, x)
           ELSE UNCHANGED <<chave, merged>> /\ Enter(t, Idle)
      /\ UNCHANGED <<usoUnico, fallback, nextRow, inserted, handed>>

-----------------------------------------------------------------------------
(* The endpoints. *)

(* POST /keys/upload *)
uploadKeys ==
  \E k \in Identities \cup {"none"}, K \in SUBSET KeyIds,
     fb \in Fallbacks \cup {"none"} : UploadKeys(k, K, fb)

(* POST /keys/claim; ClaimKeys asks for the fallback key when there is no other. *)
claimKeys(t) == LockOneTimeKey(t) \/ NoOneTimeKey(t)

(* POST /keys/device_signing/upload *)
uploadCrossSigningKeys(t) ==
  \E g \in Generations, X \in SUBSET Usages : UploadCrossSigningKeys(t, g, X)

(* POST /keys/signatures/upload *)
uploadSignatures(t) ==
  \E x \in SignedRows, s \in Signers : UploadSignatures(t, x, s)

(* A deadline, an error or a crash; what was stored before it stays. *)
Abort(t) ==
  /\ req[t].pc # "idle"
  /\ Enter(t, Idle)
  /\ UNCHANGED <<usoUnico, fallback, chave, nextRow, history>>

Init ==
  /\ usoUnico = [i \in {} |-> 0]
  /\ fallback = [key |-> "none", usada |-> FALSE]
  /\ chave = [x \in {} |-> 0]
  /\ nextRow = 1
  /\ req = [t \in Threads |-> Idle]
  /\ inserted = [k \in KeyIds |-> 0]
  /\ handed = [k \in KeyIds |-> 0]
  /\ merged = [x \in SignedRows |-> {}]

Next ==
  \/ uploadKeys
  \/ \E t \in Threads :
       \/ claimKeys(t) \/ ClaimOneTimeKey(t) \/ ClaimFallbackKey(t)
       \/ uploadCrossSigningKeys(t)
       \/ \E k \in req[t].todo : UpsertCrossSigningKey(t, k)
       \/ uploadSignatures(t) \/ ReadSignatures(t) \/ UpdateSignatures(t)
       \/ Abort(t)

Spec == Init /\ [][Next]_vars

-----------------------------------------------------------------------------
(* Properties. *)

InTable(k) == \E i \in DOMAIN usoUnico : usoUnico[i] = k

(***************************************************************************)
(* No one-time key is handed out twice or lost: every insert of a key_id   *)
(* is either still in the table or was the answer to exactly one claim,    *)
(* however claims, failing claims and repeated uploads interleave.         *)
(***************************************************************************)
OneClaimPerInsert ==
  \A k \in KeyIds : inserted[k] = handed[k] + (IF InTable(k) THEN 1 ELSE 0)

(***************************************************************************)
(* A signature never ends up on a cross-signing key it was not made over,  *)
(* although the key may be replaced between the read and the write of      *)
(* MergeCrossSigningSignatures.                                            *)
(***************************************************************************)
CrossSignaturesMatch ==
  \A x \in DOMAIN chave \cap Usages : \A s \in chave[x].sigs : s.over = chave[x].key

(***************************************************************************)
(* New signatures are merged into the stored ones: what an upload stored   *)
(* is still there until the key itself is uploaded again, unless two       *)
(* merges of one row overlapped (the FOR UPDATE lock ends with its         *)
(* statement, so the later write may go by what it read before the other). *)
(***************************************************************************)
SignaturesKept ==
  \A x \in DOMAIN chave : merged[x] \subseteq chave[x].sigs
=============================================================================
