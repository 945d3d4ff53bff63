----------------------------- MODULE KeyBackup -----------------------------
(***************************************************************************)
(* The server-side backup of a user's room keys: versions (VersaoBackup)   *)
(* and the keys stored in each (ChaveBackup).                              *)
(*                                                                         *)
(* PutRoomKeys and DeleteRoomKeys are transactions at READ COMMITTED: each *)
(* statement sees what was committed when it began and what its own        *)
(* transaction wrote, and waits for rows that another open transaction has *)
(* written.  The version check of PutRoomKeys comes before its transaction *)
(* begins.  One user is modelled: no statement touches rows of two users.  *)
(***************************************************************************)
EXTENDS Naturals, FiniteSets, Sequences, SequencesExt, FiniteSetsExt

CONSTANTS
  Keys,         \* (id_canal, id_sessao) of the keys that are backed up
  Threads,      \* concurrent HTTP requests
  MaxVersions,  \* bound: id_versao is in 1 .. MaxVersions
  MaxChanges    \* bound: transactions that may commit

ASSUME BackupAssumption ==
  /\ IsFiniteSet(Keys)
  /\ MaxVersions \in Nat \ {0}
  /\ MaxChanges \in Nat

VARIABLES
  latest,   \* the greatest id_versao, 0 before the first
  keys,     \* ChaveBackup: version -> the keys committed in it
  count,    \* VersaoBackup.count
  etag,     \* VersaoBackup.etag
  txn,      \* thread -> the transaction it runs
  changes,  \* history: version -> how many transactions committed in it
  exact,    \* history: versions whose last commit counted up-to-date rows
  late      \* history: threads whose put began before their version was
            \* superseded

history == <<changes, exact, late>>
vars == <<latest, keys, count, etag, txn, history>>

Versions == 1 .. MaxVersions

Steps == {"idle", "put", "delete", "update", "commit"}

(***************************************************************************)
(* A transaction: what it does, in which version, the keys it has still to *)
(* write, those it wrote (and holds locked), the count and etag it is to   *)
(* store.  "stale" is history: another one committed since the rows were   *)
(* read.                                                                   *)
(***************************************************************************)
Txn == [pc : Steps, op : {"put", "delete"}, version : Versions,
        todo : Seq(Keys), wrote : SUBSET Keys, total : Nat, etag : Nat,
        stale : BOOLEAN]

Open == {t \in DOMAIN txn : txn[t].pc # "idle"}
OpenIn(v) == {t \in Open : txn[t].version = v}

Idle == [pc |-> "idle", op |-> "put", version |-> 1, todo |-> <<>>,
         wrote |-> {}, total |-> 0, etag |-> 0, stale |-> FALSE]

TypeOK ==
  /\ latest \in 0 .. MaxVersions
  /\ keys \in [Versions -> SUBSET Keys]
  /\ count \in [Versions -> Nat]
  /\ etag \in [Versions -> Nat]
  /\ txn \in [Threads -> Txn]
  /\ \A t \in Open : txn[t].version <= latest
  /\ changes \in [Versions -> Nat]
  /\ exact \subseteq Versions
  /\ late \subseteq Open

-----------------------------------------------------------------------------
Enter(t, x) == txn' = [txn EXCEPT ![t] = x]

(* The bound on the transactions of all versions. *)
HasRoom ==
  MapThenSumSet(LAMBDA v : changes[v], Versions) + Cardinality(Open) < MaxChanges

(* SELECT ... ORDER BY id_versao DESC LIMIT 1, and the row of one version. *)
GetLatestBackupVersion == latest
GetBackupVersionByID(v) == v <= latest

(***************************************************************************)
(* A new version has no keys and etag 0; the old ones stay as they are.    *)
(***************************************************************************)
CreateBackupVersion ==
  /\ latest < MaxVersions
  /\ latest' = latest + 1
  /\ late' = late \cup {t \in OpenIn(latest) : txn[t].op = "put"}
  /\ UNCHANGED <<keys, count, etag, txn, changes, exact>>

(* The body of a request is a Go map: its keys come in any order. *)
FlattenRoomKeys(K) == SetToSeqs(K)

(* Mutant: any version of the user will do. *)
MutAnyVersion(t, v, K) ==
  /\ txn[t].pc = "idle"
  /\ HasRoom
  /\ GetBackupVersionByID(v)
  /\ \E s \in FlattenRoomKeys(K) :
       Enter(t, [Idle EXCEPT !.pc = "put", !.version = v, !.todo = s])
  /\ UNCHANGED <<latest, keys, count, etag, history>>

(* The version must be the latest one, as read before the transaction. *)
PutRoomKeys(t, v, K) ==
  /\ txn[t].pc = "idle"
  /\ HasRoom
  /\ GetLatestBackupVersion = v
  /\ \E s \in FlattenRoomKeys(K) :
       Enter(t, [Idle EXCEPT !.pc = "put", !.version = v, !.todo = s])
  /\ UNCHANGED <<latest, keys, count, etag, history>>

(* Mutant: the version is not looked up. *)
MutNoLookup(t, v) ==
  /\ txn[t].pc = "idle"
  /\ HasRoom
  /\ Enter(t, [Idle EXCEPT !.pc = "delete", !.op = "delete", !.version = v])
  /\ UNCHANGED <<latest, keys, count, etag, history>>

(* DELETE FROM ChaveBackup: the committed rows, in the order of the scan. *)
DeleteRoomKeys(t, v) ==
  /\ txn[t].pc = "idle"
  /\ HasRoom
  /\ GetBackupVersionByID(v)
  /\ \E s \in SetToSeqs(keys[v]) :
       Enter(t, [Idle EXCEPT !.pc = "delete", !.op = "delete", !.version = v,
                             !.todo = s])
  /\ UNCHANGED <<latest, keys, count, etag, history>>

(* The threads whose uncommitted rows t must wait for. *)
RowHolders(t) ==
  IF txn[t].todo = <<>> THEN {}
  ELSE {u \in OpenIn(txn[t].version) \ {t} : Head(txn[t].todo) \in txn[u].wrote}
VersionHolders(t) ==
  {u \in OpenIn(txn[t].version) \ {t} : txn[u].pc = "commit"}

(* INSERT ... ON CONFLICT DO UPDATE of the next key. *)
UpsertKey(t) ==
  /\ txn[t].pc = "put"
  /\ txn[t].todo # <<>>
  /\ RowHolders(t) = {}
  /\ Enter(t, [txn[t] EXCEPT !.todo = Tail(@), !.wrote = @ \cup {Head(txn[t].todo)}])
  /\ UNCHANGED <<latest, keys, count, etag, history>>

(* The next row of the DELETE; one that is gone by now is skipped. *)
DeleteKey(t) ==
  /\ txn[t].pc = "delete"
  /\ txn[t].todo # <<>>
  /\ RowHolders(t) = {}
  /\ Enter(t, [txn[t] EXCEPT !.todo = Tail(@),
                 !.wrote = @ \cup ({Head(txn[t].todo)} \cap keys[txn[t].version])])
  /\ UNCHANGED <<latest, keys, count, etag, history>>

(* Mutant: the keys of the request are added to the count. *)
MutIncrement(t) == count[txn[t].version] + Cardinality(txn[t].wrote)

(* contagem: the rows the statement sees when it begins; 0 for a delete. *)
Contagem(t) ==
  IF txn[t].op = "put" THEN Cardinality(keys[txn[t].version] \cup txn[t].wrote)
  ELSE 0

CountKeys(t) ==
  /\ txn[t].pc \in {"put", "delete"}
  /\ txn[t].todo = <<>>
  /\ Enter(t, [txn[t] EXCEPT !.pc = "update", !.total = Contagem(t)])
  /\ UNCHANGED <<latest, keys, count, etag, history>>

(* Mutant: the etag is read without the lock of the row. *)
MutNoRowLock(t) ==
  /\ txn[t].pc = "update"
  /\ Enter(t, [txn[t] EXCEPT !.pc = "commit", !.etag = etag[txn[t].version] + 1])
  /\ UNCHANGED <<latest, keys, count, etag, history>>

(***************************************************************************)
(* UPDATE VersaoBackup waits for the row, then takes the etag from it as   *)
(* it is now; the count is the one that was made before the wait.          *)
(***************************************************************************)
UpdateVersion(t) ==
  /\ txn[t].pc = "update"
  /\ VersionHolders(t) = {}
  /\ Enter(t, [txn[t] EXCEPT !.pc = "commit", !.etag = etag[txn[t].version] + 1])
  /\ UNCHANGED <<latest, keys, count, etag, history>>

(* The rows that others have read of version v are out of date. *)
Invalidate(t, v) ==
  txn' = [u \in Threads |->
            IF u = t THEN Idle
            ELSE [txn[u] EXCEPT !.stale =
                    @ \/ (txn[u].version = v /\ txn[u].pc \in {"delete", "update"})]]

Commit(t) ==
  LET v == txn[t].version
  IN  /\ txn[t].pc = "commit"
      /\ keys' = [keys EXCEPT ![v] = IF txn[t].op = "put" THEN @ \cup txn[t].wrote
                                     ELSE @ \ txn[t].wrote]
      /\ count' = [count EXCEPT ![v] = txn[t].total]
      /\ etag' = [etag EXCEPT ![v] = txn[t].etag]
      /\ changes' = [changes EXCEPT ![v] = @ + 1]
      /\ exact' = IF txn[t].stale THEN exact \ {v} ELSE exact \cup {v}
      /\ late' = late \ {t}
      /\ Invalidate(t, v)
      /\ UNCHANGED latest

(* Mutant: an error leaves the transaction open. *)
MutNoRollback(t) ==
  /\ txn[t].pc = "idle"
  /\ UNCHANGED vars

(* The deferred Rollback of Execute: the rows are as before, and unlocked. *)
Rollback(t) ==
  /\ txn[t].pc # "idle"
  /\ Enter(t, Idle)
  /\ late' = late \ {t}
  /\ UNCHANGED <<latest, keys, count, etag, changes, exact>>

(***************************************************************************)
(* PostgreSQL ends one of the transactions that wait in a circle: every    *)
(* thread of W waits for one of W and is waited for by one of W.           *)
(***************************************************************************)
Waiting(t) ==
  CASE txn[t].pc \in {"put", "delete"} -> RowHolders(t)
    [] txn[t].pc = "update" -> VersionHolders(t)
    [] OTHER -> {}

InCircle(t) ==
  \E W \in SUBSET Open :
    /\ t \in W
    /\ \A u \in W : /\ Waiting(u) \cap W # {}
                    /\ \E x \in W : u \in Waiting(x)

DeadlockVictim(t) == InCircle(t) /\ Rollback(t)

-----------------------------------------------------------------------------
(* POST room_keys/version *)
createVersion == CreateBackupVersion

(* PUT room_keys/keys *)
putRoomKeys(t) == \E v \in Versions, K \in SUBSET Keys : PutRoomKeys(t, v, K)

(* DELETE room_keys/keys *)
deleteRoomKeys(t) == \E v \in Versions : DeleteRoomKeys(t, v)

Init ==
  /\ latest = 0
  /\ keys = [v \in Versions |-> {}]
  /\ count = [v \in Versions |-> 0]
  /\ etag = [v \in Versions |-> 0]
  /\ txn = [t \in Threads |-> Idle]
  /\ changes = [v \in Versions |-> 0]
  /\ exact = Versions
  /\ late = {}

Statement(t) ==
  UpsertKey(t) \/ DeleteKey(t) \/ CountKeys(t) \/ UpdateVersion(t) \/ Commit(t)

Next ==
  \/ createVersion
  \/ \E t \in Threads :
       \/ putRoomKeys(t) \/ deleteRoomKeys(t)
       \/ Statement(t) \/ Rollback(t) \/ DeadlockVictim(t)

(***************************************************************************)
(* A request that began goes on; locks are granted in the order in which   *)
(* they were asked for, hence strong fairness.  PostgreSQL looks for       *)
(* circles (deadlock_timeout).  Nothing makes a client send a request, and *)
(* an error that is not a deadlock need not happen.                        *)
(***************************************************************************)
Fairness ==
  \A t \in Threads : SF_vars(Statement(t)) /\ WF_vars(DeadlockVictim(t))

Spec == Init /\ [][Next]_vars /\ Fairness

-----------------------------------------------------------------------------
(* Properties. *)

(***************************************************************************)
(* Every change of a version has an etag of its own: concurrent puts and   *)
(* deletes never store the same etag, and a rolled back one uses none up.  *)
(***************************************************************************)
EtagCountsCommits == \A v \in Versions : etag[v] = changes[v]

(***************************************************************************)
(* The stored count is the number of keys of the version, unless another   *)
(* transaction committed between the count and the commit that stored it:  *)
(* a wrong count is put right by the next request that runs alone.         *)
(***************************************************************************)
CountExact == \A v \in exact : count[v] = Cardinality(keys[v])

(***************************************************************************)
(* A version that is not the latest gains no key, but from requests that   *)
(* had passed the version check before the new version was created.        *)
(***************************************************************************)
OldVersionsShrink ==
  [][\A v \in 1 .. (latest - 1) :
       \/ keys'[v] \subseteq keys[v]
       \/ \E t \in late : txn[t].version = v]_vars

(***************************************************************************)
(* Every request comes to an end, although two of them may hold the rows   *)
(* that the other needs: flattenRoomKeys gives the keys in any order.      *)
(***************************************************************************)
RequestsEnd == \A t \in Threads : t \in Open ~> t \notin Open

=============================================================================
