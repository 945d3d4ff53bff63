-------------------------- MODULE KeyBackupProofs ---------------------------
(***************************************************************************)
(* Proofs about KeyBackup, for any keys, versions and transactions.        *)
(*                                                                         *)
(* A transaction computes from what it saw and stores it when it commits.  *)
(* IInv says what is still true, at each of its statements, of the values  *)
(* that it carries.                                                        *)
(***************************************************************************)
EXTENDS KeyBackup, SequenceTheorems, FiniteSetTheorems, TLAPS

(* What a transaction x carries and the committed rows. *)
Sound(x) ==
  /\ x.pc # "idle" => x.version <= latest
  /\ x.pc = "put" => x.op = "put"
  /\ x.pc = "delete" => x.op = "delete"
  /\ x.pc = "commit" => x.etag = etag[x.version] + 1
  /\ x.pc = "delete" /\ ~x.stale => keys[x.version] \subseteq x.wrote \cup Range(x.todo)
  /\ x.pc \in {"update", "commit"} /\ ~x.stale /\ x.op = "put" =>
       x.total = Cardinality(keys[x.version] \cup x.wrote)
  /\ x.pc \in {"update", "commit"} /\ ~x.stale /\ x.op = "delete" =>
       x.total = 0 /\ keys[x.version] \subseteq x.wrote

TxnsSound == \A t \in Threads : Sound(txn[t])

(* The UPDATE of VersaoBackup locks the row of the version. *)
OneUpdater ==
  \A t, u \in Threads :
    txn[t].pc = "commit" /\ txn[u].pc = "commit" /\ txn[t].version = txn[u].version
      => t = u

(* A put in a version that is no longer the latest is late. *)
LateMarked ==
  \A t \in Threads :
    txn[t].pc # "idle" /\ txn[t].op = "put" /\ txn[t].version < latest => t \in late

IInv ==
  /\ TypeOK /\ EtagCountsCommits /\ CountExact
  /\ TxnsSound /\ OneUpdater /\ LateMarked

-----------------------------------------------------------------------------
(* Facts about the helpers. *)

(* A sequence of SetToSeqs(K) has every element of K. *)
LEMMA SetToSeqsFacts ==
  ASSUME NEW K \in SUBSET Keys, NEW s \in SetToSeqs(K)
  PROVE  s \in Seq(Keys) /\ Range(s) = K
<1> DEFINE n == Cardinality(K)
<1>1. IsFiniteSet(K)
  BY BackupAssumption, FS_Subset
<1>2. n \in Nat
  BY <1>1, FS_CardinalityType
<1>3. s \in [1 .. n -> K] /\ \A i, j \in 1 .. n : i # j => s[i] # s[j]
  BY DEF SetToSeqs
<1>4. s \in Injection(1 .. n, K)
  BY <1>3 DEF Injection, IsInjective
<1>5. Cardinality(1 .. n) = n
  BY <1>2, FS_Interval
<1>6. s \in Surjection(1 .. n, K)
  BY <1>1, <1>4, <1>5, FS_Injection
<1>7. Range(s) = K
  BY <1>3, <1>6 DEF Surjection, Range
<1>8. s \in Seq(K)
  BY <1>2, <1>3
<1> QED BY <1>7, <1>8, SeqMonotonic

LEMMA TailRange ==
  ASSUME NEW s \in Seq(Keys), s # <<>>
  PROVE  /\ Head(s) \in Keys /\ Tail(s) \in Seq(Keys)
         /\ Range(s) = {Head(s)} \cup Range(Tail(s))
<1>1. /\ Head(s) \in Keys /\ Tail(s) \in Seq(Keys)
      /\ Len(Tail(s)) = Len(s) - 1
      /\ \A i \in 1 .. Len(Tail(s)) : Tail(s)[i] = s[i + 1]
  BY HeadTailProperties
<1>2. Len(s) \in Nat \ {0} /\ DOMAIN s = 1 .. Len(s)
  BY EmptySeq, LenProperties
<1>3. DOMAIN Tail(s) = 1 .. Len(s) - 1
  BY <1>1, LenProperties
<1>4. Head(s) = s[1]
  OBVIOUS
<1>5. \A i \in DOMAIN s : i = 1 \/ (i - 1 \in DOMAIN Tail(s) /\ Tail(s)[i - 1] = s[i])
  BY <1>1, <1>2, <1>3
<1>6. \A i \in DOMAIN Tail(s) : i + 1 \in DOMAIN s /\ Tail(s)[i] = s[i + 1]
  BY <1>1, <1>2, <1>3
<1>7. Range(s) \subseteq {Head(s)} \cup Range(Tail(s))
  <2> SUFFICES ASSUME NEW i \in DOMAIN s PROVE s[i] \in {Head(s)} \cup Range(Tail(s))
    BY DEF Range
  <2> QED BY <1>4, <1>5 DEF Range
<1>8. {Head(s)} \cup Range(Tail(s)) \subseteq Range(s)
  <2>1. Head(s) \in Range(s)
    BY <1>2, <1>4 DEF Range
  <2>2. ASSUME NEW i \in DOMAIN Tail(s) PROVE Tail(s)[i] \in Range(s)
    BY <1>6 DEF Range
  <2> QED BY <2>1, <2>2 DEF Range
<1> QED BY <1>1, <1>7, <1>8

LEMMA CardinalityNat ==
  ASSUME NEW K \in SUBSET Keys
  PROVE  Cardinality(K) \in Nat
BY BackupAssumption, FS_Subset, FS_CardinalityType

LEMMA IdleFacts ==
  Idle \in Txn /\ Idle.pc = "idle"
BY BackupAssumption, EmptySeq DEF Idle, Txn, Steps, Versions

LEMMA OpenFacts ==
  ASSUME TypeOK
  PROVE  /\ Open = {t \in Threads : txn[t].pc # "idle"}
         /\ \A v : OpenIn(v) = {t \in Threads : txn[t].pc # "idle" /\ txn[t].version = v}
BY DEF TypeOK, Open, OpenIn

(***************************************************************************)
(* A statement that commits nothing: the new record of t decides.          *)
(***************************************************************************)
LEMMA EnterKeeps ==
  ASSUME IInv, NEW t \in Threads, NEW x \in Txn, Enter(t, x),
         UNCHANGED <<latest, keys, count, etag, changes, exact>>,
         late' = late \/ (late' = late \ {t} /\ x.pc = "idle"),
         t \in late' => x.pc # "idle",
         Sound(x),
         x.pc = "commit" =>
           \A u \in Threads \ {t} : txn[u].pc = "commit" => txn[u].version # x.version,
         x.pc # "idle" /\ x.op = "put" /\ x.version < latest => t \in late
  PROVE  IInv'
<1>1. /\ txn' \in [Threads -> Txn] /\ txn'[t] = x
      /\ \A u \in Threads \ {t} : txn'[u] = txn[u]
  BY DEF IInv, TypeOK, Enter
<1>2. late' \subseteq Threads /\ \A u \in late' : txn'[u].pc # "idle"
  BY <1>1, OpenFacts DEF IInv, TypeOK
<1>3. Open' = {u \in Threads : txn'[u].pc # "idle"}
  BY <1>1 DEF Open
<1>4. \A u \in Open' : txn'[u].version <= latest'
  BY <1>1, <1>3, OpenFacts DEF IInv, TypeOK, Sound
<1>5. TypeOK'
  BY <1>1, <1>2, <1>3, <1>4 DEF IInv, TypeOK
<1>6. EtagCountsCommits' /\ CountExact'
  BY DEF IInv, EtagCountsCommits, CountExact
<1>7. TxnsSound'
  <2> SUFFICES ASSUME NEW u \in Threads PROVE Sound(txn[u])'
    BY DEF TxnsSound
  <2>1. CASE u = t
    BY <1>1, <2>1 DEF Sound
  <2>2. CASE u # t
    <3>1. txn'[u] = txn[u] /\ Sound(txn[u])
      BY <1>1, <2>2 DEF IInv, TxnsSound
    <3> QED BY <3>1 DEF Sound
  <2> QED BY <2>1, <2>2
<1>8. OneUpdater'
  BY <1>1 DEF IInv, OneUpdater
<1>9. LateMarked'
  BY <1>1 DEF IInv, LateMarked
<1> QED BY <1>5, <1>6, <1>7, <1>8, <1>9 DEF IInv

-----------------------------------------------------------------------------
(* One lemma per action. *)

LEMMA CreateStep ==
  ASSUME IInv, CreateBackupVersion
  PROVE  IInv'
<1>1. /\ latest < MaxVersions /\ latest' = latest + 1
      /\ late' = late \cup {t \in OpenIn(latest) : txn[t].op = "put"}
      /\ UNCHANGED <<keys, count, etag, txn, changes, exact>>
  BY DEF CreateBackupVersion
<1>2. latest \in 0 .. MaxVersions /\ MaxVersions \in Nat
  BY BackupAssumption DEF IInv, TypeOK
<1>3. \A t \in Threads : txn[t].version \in Nat
  BY <1>2 DEF IInv, TypeOK, Txn, Versions
<1>4. Open' = Open /\ \A t \in Open : t \in Threads /\ txn[t].version <= latest
  BY <1>1 DEF IInv, TypeOK, Open
<1>5. late' \subseteq Open
  BY <1>1 DEF IInv, TypeOK, OpenIn
<1>6. TypeOK'
  BY <1>1, <1>2, <1>3, <1>4, <1>5 DEF IInv, TypeOK
<1>7. EtagCountsCommits' /\ CountExact' /\ OneUpdater'
  BY <1>1 DEF IInv, EtagCountsCommits, CountExact, OneUpdater
<1>8. TxnsSound'
  <2> SUFFICES ASSUME NEW t \in Threads PROVE Sound(txn[t])'
    BY DEF TxnsSound
  <2>1. Sound(txn[t])
    BY DEF IInv, TxnsSound
  <2> QED BY <1>1, <1>2, <1>3, <2>1 DEF Sound
<1>9. LateMarked'
  <2> SUFFICES ASSUME NEW t \in Threads, txn[t].pc # "idle", txn[t].op = "put",
                      txn[t].version < latest + 1
               PROVE  t \in late'
    BY <1>1 DEF LateMarked
  <2>1. CASE txn[t].version = latest
    BY <1>1, <2>1, OpenFacts DEF IInv
  <2>2. CASE txn[t].version # latest
    BY <1>1, <1>2, <1>3, <2>2 DEF IInv, LateMarked
  <2> QED BY <2>1, <2>2
<1> QED BY <1>6, <1>7, <1>8, <1>9 DEF IInv

LEMMA PutStep ==
  ASSUME IInv, NEW t \in Threads, NEW v \in Versions, NEW K \in SUBSET Keys,
         PutRoomKeys(t, v, K)
  PROVE  IInv'
<1>1. PICK s \in SetToSeqs(K) :
        Enter(t, [Idle EXCEPT !.pc = "put", !.version = v, !.todo = s])
  BY DEF PutRoomKeys, FlattenRoomKeys
<1> DEFINE x == [Idle EXCEPT !.pc = "put", !.version = v, !.todo = s]
<1>2. s \in Seq(Keys)
  BY SetToSeqsFacts
<1>3. /\ x \in Txn /\ x.pc = "put" /\ x.op = "put" /\ x.version = v
  BY <1>2 DEF Idle, Txn, Steps
<1>4. txn[t].pc = "idle" /\ latest = v /\ UNCHANGED <<latest, keys, count, etag, history>>
  BY DEF PutRoomKeys, GetLatestBackupVersion
<1>5. latest \in Nat
  BY BackupAssumption DEF IInv, TypeOK
<1>6. Enter(t, x)
  BY <1>1
<1> HIDE DEF x
<1>7. Sound(x)
  BY <1>3, <1>4, <1>5 DEF Sound
<1>8. ~(v < latest) /\ x.pc # "commit" /\ late' = late
  BY <1>3, <1>4, <1>5 DEF history
<1>9. UNCHANGED <<latest, keys, count, etag, changes, exact>>
  BY <1>4 DEF history
<1> QED BY <1>3, <1>6, <1>7, <1>8, <1>9, EnterKeeps

LEMMA DeleteStep ==
  ASSUME IInv, NEW t \in Threads, NEW v \in Versions, DeleteRoomKeys(t, v)
  PROVE  IInv'
<1>0. keys[v] \in SUBSET Keys
  BY DEF IInv, TypeOK
<1>1. PICK s \in SetToSeqs(keys[v]) :
        Enter(t, [Idle EXCEPT !.pc = "delete", !.op = "delete", !.version = v,
                              !.todo = s])
  BY DEF DeleteRoomKeys
<1> DEFINE x == [Idle EXCEPT !.pc = "delete", !.op = "delete", !.version = v, !.todo = s]
<1>2. s \in Seq(Keys) /\ Range(s) = keys[v]
  BY <1>0, SetToSeqsFacts
<1>3. /\ x \in Txn /\ x.pc = "delete" /\ x.op = "delete" /\ x.version = v /\ x.todo = s
  BY <1>2 DEF Idle, Txn, Steps
<1>4. /\ txn[t].pc = "idle" /\ v <= latest
      /\ UNCHANGED <<latest, keys, count, etag, history>>
  BY DEF DeleteRoomKeys, GetBackupVersionByID
<1>5. Enter(t, x)
  BY <1>1
<1> HIDE DEF x
<1>6. Sound(x)
  BY <1>2, <1>3, <1>4 DEF Sound
<1>7. UNCHANGED <<latest, keys, count, etag, changes, exact, late>>
  BY <1>4 DEF history
<1> QED BY <1>3, <1>5, <1>6, <1>7, EnterKeeps

(* What the lemmas about one statement of t start from. *)
LEMMA StatementFacts ==
  ASSUME IInv, NEW t \in Threads
  PROVE  /\ txn[t] \in Txn /\ Sound(txn[t])
         /\ keys[txn[t].version] \in SUBSET Keys
         /\ txn[t].wrote \in SUBSET Keys
         /\ txn[t].version \in Versions
         /\ etag[txn[t].version] \in Nat
         /\ txn[t].pc # "idle" /\ txn[t].op = "put" /\ txn[t].version < latest => t \in late
BY DEF IInv, TypeOK, TxnsSound, LateMarked, Txn

LEMMA UpsertStep ==
  ASSUME IInv, NEW t \in Threads, UpsertKey(t)
  PROVE  IInv'
<1> DEFINE x == [txn[t] EXCEPT !.todo = Tail(@), !.wrote = @ \cup {Head(txn[t].todo)}]
<1>1. /\ txn[t].pc = "put" /\ txn[t].todo # <<>> /\ Enter(t, x)
      /\ UNCHANGED <<latest, keys, count, etag, changes, exact, late>>
  BY DEF UpsertKey, history
<1>2. txn[t] \in Txn /\ txn[t].todo \in Seq(Keys)
  BY StatementFacts DEF Txn
<1>3. Head(txn[t].todo) \in Keys /\ Tail(txn[t].todo) \in Seq(Keys)
  BY <1>1, <1>2, TailRange
<1>4. /\ x \in Txn /\ x.pc = "put" /\ x.op = txn[t].op /\ x.version = txn[t].version
  BY <1>1, <1>2, <1>3 DEF Txn
<1> HIDE DEF x
<1>5. Sound(x)
  BY <1>1, <1>4, StatementFacts DEF Sound
<1>6. x.version < latest /\ x.op = "put" => t \in late
  BY <1>1, <1>4, StatementFacts
<1> QED BY <1>1, <1>4, <1>5, <1>6, EnterKeeps

LEMMA DeleteKeyStep ==
  ASSUME IInv, NEW t \in Threads, DeleteKey(t)
  PROVE  IInv'
<1> DEFINE v == txn[t].version
           w == txn[t].wrote \cup ({Head(txn[t].todo)} \cap keys[v])
           x == [txn[t] EXCEPT !.todo = Tail(@),
                   !.wrote = @ \cup ({Head(txn[t].todo)} \cap keys[txn[t].version])]
<1>1. /\ txn[t].pc = "delete" /\ txn[t].todo # <<>> /\ Enter(t, x)
      /\ UNCHANGED <<latest, keys, count, etag, changes, exact, late>>
  BY DEF DeleteKey, history
<1>2. txn[t] \in Txn /\ txn[t].todo \in Seq(Keys)
  BY StatementFacts DEF Txn
<1>3. /\ Head(txn[t].todo) \in Keys /\ Tail(txn[t].todo) \in Seq(Keys)
      /\ Range(txn[t].todo) = {Head(txn[t].todo)} \cup Range(Tail(txn[t].todo))
  BY <1>1, <1>2, TailRange
<1>4. w \in SUBSET Keys
  BY <1>3, StatementFacts
<1>5. /\ x \in Txn /\ x.pc = "delete" /\ x.op = txn[t].op /\ x.version = v
      /\ x.todo = Tail(txn[t].todo) /\ x.wrote = w /\ x.stale = txn[t].stale
  BY <1>1, <1>2, <1>3, <1>4 DEF Txn
<1>6. ~txn[t].stale => keys[v] \subseteq w \cup Range(Tail(txn[t].todo))
  BY <1>1, <1>3, StatementFacts DEF Sound
<1> HIDE DEF x, w
<1>7. Sound(x)
  BY <1>1, <1>5, <1>6, StatementFacts DEF Sound
<1>8. x.version < latest /\ x.op = "put" => t \in late
  BY <1>1, <1>5, StatementFacts
<1> QED BY <1>1, <1>5, <1>7, <1>8, EnterKeeps

LEMMA CountStep ==
  ASSUME IInv, NEW t \in Threads, CountKeys(t)
  PROVE  IInv'
<1> DEFINE v == txn[t].version
           c == Contagem(t)
           x == [txn[t] EXCEPT !.pc = "update", !.total = c]
<1>1. /\ txn[t].pc \in {"put", "delete"} /\ txn[t].todo = <<>> /\ Enter(t, x)
      /\ UNCHANGED <<latest, keys, count, etag, changes, exact, late>>
  BY DEF CountKeys, history
<1>2. txn[t] \in Txn /\ keys[v] \cup txn[t].wrote \in SUBSET Keys
  BY StatementFacts
<1>3. /\ txn[t].op = "put" => c = Cardinality(keys[v] \cup txn[t].wrote)
      /\ txn[t].op = "delete" => c = 0
  BY DEF Contagem
<1>4. c \in Nat
  BY <1>2, CardinalityNat DEF Contagem
<1> HIDE DEF c
<1>5. /\ x \in Txn /\ x.pc = "update" /\ x.op = txn[t].op /\ x.version = v
      /\ x.total = c /\ x.wrote = txn[t].wrote /\ x.stale = txn[t].stale
  BY <1>2, <1>4 DEF Txn, Steps
<1>6. Range(txn[t].todo) = {}
  BY <1>1 DEF Range
<1>7. txn[t].op = "delete" /\ ~txn[t].stale => keys[v] \subseteq txn[t].wrote
  BY <1>1, <1>6, StatementFacts DEF Sound
<1> HIDE DEF x
<1>8. Sound(x)
  BY <1>1, <1>3, <1>5, <1>7, StatementFacts DEF Sound
<1>9. x.version < latest /\ x.op = "put" => t \in late
  BY <1>1, <1>5, StatementFacts
<1> QED BY <1>1, <1>5, <1>8, <1>9, EnterKeeps

LEMMA UpdateStep ==
  ASSUME IInv, NEW t \in Threads, UpdateVersion(t)
  PROVE  IInv'
<1> DEFINE v == txn[t].version
           x == [txn[t] EXCEPT !.pc = "commit", !.etag = etag[txn[t].version] + 1]
<1>1. /\ txn[t].pc = "update" /\ VersionHolders(t) = {} /\ Enter(t, x)
      /\ UNCHANGED <<latest, keys, count, etag, changes, exact, late>>
  BY DEF UpdateVersion, history
<1>2. txn[t] \in Txn /\ etag[v] + 1 \in Nat
  BY StatementFacts
<1>3. /\ x \in Txn /\ x.pc = "commit" /\ x.op = txn[t].op /\ x.version = v
      /\ x.etag = etag[v] + 1
      /\ x.total = txn[t].total /\ x.wrote = txn[t].wrote /\ x.stale = txn[t].stale
  BY <1>2 DEF Txn, Steps
<1>4. \A u \in Threads \ {t} : txn[u].pc = "commit" => txn[u].version # v
  BY <1>1, OpenFacts DEF IInv, VersionHolders
<1> HIDE DEF x
<1>5. Sound(x)
  BY <1>1, <1>3, StatementFacts DEF Sound
<1>6. x.version < latest /\ x.op = "put" => t \in late
  BY <1>1, <1>3, StatementFacts
<1> QED BY <1>1, <1>3, <1>4, <1>5, <1>6, EnterKeeps

LEMMA RollbackStep ==
  ASSUME IInv, NEW t \in Threads, Rollback(t)
  PROVE  IInv'
<1>1. /\ Enter(t, Idle) /\ late' = late \ {t}
      /\ UNCHANGED <<latest, keys, count, etag, changes, exact>>
  BY DEF Rollback
<1>2. Sound(Idle)
  BY IdleFacts DEF Sound
<1> QED BY <1>1, <1>2, IdleFacts, EnterKeeps

(* The commit of t makes what the others read of its version out of date. *)
LEMMA InvalidateFacts ==
  ASSUME IInv, NEW t \in Threads, NEW v \in Versions, Invalidate(t, v)
  PROVE  /\ txn' \in [Threads -> Txn] /\ txn'[t] = Idle
         /\ \A u \in Threads \ {t} :
              /\ txn'[u].pc = txn[u].pc /\ txn'[u].op = txn[u].op
              /\ txn'[u].version = txn[u].version /\ txn'[u].todo = txn[u].todo
              /\ txn'[u].wrote = txn[u].wrote /\ txn'[u].total = txn[u].total
              /\ txn'[u].etag = txn[u].etag
              /\ txn[u].stale => txn'[u].stale
              /\ txn[u].version = v /\ txn[u].pc \in {"delete", "update"} => txn'[u].stale
<1> DEFINE F(u) == [txn[u] EXCEPT !.stale =
                      @ \/ (txn[u].version = v /\ txn[u].pc \in {"delete", "update"})]
<1>1. txn' = [u \in Threads |-> IF u = t THEN Idle ELSE F(u)]
  BY DEF Invalidate
<1>2. ASSUME NEW u \in Threads
      PROVE  /\ F(u) \in Txn
             /\ F(u).pc = txn[u].pc /\ F(u).op = txn[u].op
             /\ F(u).version = txn[u].version /\ F(u).todo = txn[u].todo
             /\ F(u).wrote = txn[u].wrote /\ F(u).total = txn[u].total
             /\ F(u).etag = txn[u].etag
             /\ txn[u].stale => F(u).stale
             /\ txn[u].version = v /\ txn[u].pc \in {"delete", "update"} => F(u).stale
  <2>1. txn[u] \in Txn
    BY DEF IInv, TypeOK
  <2> DEFINE b == txn[u].stale \/ (txn[u].version = v /\ txn[u].pc \in {"delete", "update"})
  <2>2. /\ b \in BOOLEAN
        /\ txn[u].stale => b
        /\ txn[u].version = v /\ txn[u].pc \in {"delete", "update"} => b
    BY <2>1 DEF Txn
  <2>3. F(u) = [txn[u] EXCEPT !.stale = b]
    BY <2>1 DEF Txn
  <2> HIDE DEF b, F
  <2>4. F(u) \in Txn
    BY <2>1, <2>2, <2>3 DEF Txn
  <2>5. /\ F(u).pc = txn[u].pc /\ F(u).op = txn[u].op
        /\ F(u).version = txn[u].version /\ F(u).todo = txn[u].todo
        /\ F(u).wrote = txn[u].wrote /\ F(u).total = txn[u].total
        /\ F(u).etag = txn[u].etag /\ F(u).stale = b
    BY <2>1, <2>3 DEF Txn
  <2> QED BY <2>2, <2>4, <2>5
<1> HIDE DEF F
<1> QED BY <1>1, <1>2, IdleFacts

LEMMA CommitStep ==
  ASSUME IInv, NEW t \in Threads, Commit(t)
  PROVE  IInv'
<1> DEFINE x == txn[t]
           v == x.version
           K == IF x.op = "put" THEN keys[v] \cup x.wrote ELSE keys[v] \ x.wrote
<1>1. /\ x.pc = "commit" /\ keys' = [keys EXCEPT ![v] = K]
      /\ count' = [count EXCEPT ![v] = x.total]
      /\ etag' = [etag EXCEPT ![v] = x.etag]
      /\ changes' = [changes EXCEPT ![v] = @ + 1]
      /\ exact' = (IF x.stale THEN exact \ {v} ELSE exact \cup {v})
      /\ late' = late \ {t} /\ Invalidate(t, v) /\ latest' = latest
  BY DEF Commit
<1>2. x \in Txn /\ v \in Versions /\ Sound(x) /\ keys[v] \in SUBSET Keys
      /\ x.wrote \in SUBSET Keys /\ x.op \in {"put", "delete"}
      /\ x.total \in Nat /\ x.etag \in Nat /\ x.stale \in BOOLEAN
  BY StatementFacts DEF Txn
<1>3. /\ txn' \in [Threads -> Txn] /\ txn'[t] = Idle
      /\ \A u \in Threads \ {t} :
           /\ txn'[u].pc = txn[u].pc /\ txn'[u].op = txn[u].op
           /\ txn'[u].version = txn[u].version /\ txn'[u].todo = txn[u].todo
           /\ txn'[u].wrote = txn[u].wrote /\ txn'[u].total = txn[u].total
           /\ txn'[u].etag = txn[u].etag
           /\ txn[u].stale => txn'[u].stale
           /\ txn[u].version = v /\ txn[u].pc \in {"delete", "update"} => txn'[u].stale
  BY <1>1, <1>2, InvalidateFacts
<1>4. K \in SUBSET Keys
  BY <1>2
<1>5. x.etag = etag[v] + 1
  BY <1>1, <1>2 DEF Sound
<1>6. ~x.stale => x.total = Cardinality(K)
  <2> SUFFICES ASSUME ~x.stale PROVE x.total = Cardinality(K)
    OBVIOUS
  <2>1. CASE x.op = "put"
    BY <1>1, <1>2, <2>1 DEF Sound
  <2>2. CASE x.op = "delete"
    <3>1. x.total = 0 /\ K = {}
      BY <1>1, <1>2, <2>2 DEF Sound
    <3> QED BY <3>1, FS_EmptySet
  <2> QED BY <1>2, <2>1, <2>2
<1>7. Open' = {u \in Threads : txn'[u].pc # "idle"}
  BY <1>3 DEF Open
<1> HIDE DEF K
<1>8. TypeOK'
  <2>1. late' \subseteq Open'
    BY <1>1, <1>3, <1>7, OpenFacts DEF IInv, TypeOK
  <2>2. \A u \in Open' : txn'[u].version <= latest'
    BY <1>1, <1>3, <1>7, OpenFacts, IdleFacts DEF IInv, TypeOK
  <2>3. keys' \in [Versions -> SUBSET Keys] /\ count' \in [Versions -> Nat]
        /\ etag' \in [Versions -> Nat] /\ changes' \in [Versions -> Nat]
    BY <1>1, <1>2, <1>4 DEF IInv, TypeOK
  <2>4. exact' \subseteq Versions
    BY <1>1, <1>2 DEF IInv, TypeOK
  <2> QED BY <1>1, <1>3, <2>1, <2>2, <2>3, <2>4 DEF IInv, TypeOK
<1>9. EtagCountsCommits'
  <2> SUFFICES ASSUME NEW w \in Versions PROVE etag'[w] = changes'[w]
    BY DEF EtagCountsCommits
  <2>1. CASE w = v
    BY <1>1, <1>2, <1>5, <2>1 DEF IInv, TypeOK, EtagCountsCommits
  <2>2. CASE w # v
    BY <1>1, <1>2, <2>2 DEF IInv, TypeOK, EtagCountsCommits
  <2> QED BY <2>1, <2>2
<1>10. CountExact'
  <2> SUFFICES ASSUME NEW w \in exact' PROVE count'[w] = Cardinality(keys'[w])
    BY DEF CountExact
  <2>1. w \in Versions
    BY <1>8 DEF TypeOK
  <2>2. CASE w = v
    <3>1. ~x.stale
      BY <1>1, <2>2
    <3>2. count'[w] = x.total /\ keys'[w] = K
      BY <1>1, <1>2, <2>2 DEF IInv, TypeOK
    <3> QED BY <1>6, <3>1, <3>2
  <2>3. CASE w # v
    <3>1. w \in exact /\ count'[w] = count[w] /\ keys'[w] = keys[w]
      BY <1>1, <2>1, <2>3 DEF IInv, TypeOK
    <3> QED BY <3>1 DEF IInv, CountExact
  <2> QED BY <2>2, <2>3
<1>11. TxnsSound'
  <2> SUFFICES ASSUME NEW u \in Threads PROVE Sound(txn[u])'
    BY DEF TxnsSound
  <2>1. CASE u = t
    BY <1>3, <2>1, IdleFacts DEF Sound
  <2>2. CASE u # t /\ txn[u].version = v
    <3>1. txn[u].pc # "commit"
      BY <1>1, <2>2 DEF IInv, OneUpdater
    <3>2. Sound(txn[u]) /\ txn[u] \in Txn
      BY StatementFacts
    <3>3. txn[u].pc \in {"delete", "update"} => txn'[u].stale
      BY <1>3, <2>2
    <3> QED BY <1>1, <1>3, <2>2, <3>1, <3>2, <3>3 DEF Sound
  <2>3. CASE u # t /\ txn[u].version # v
    <3>1. Sound(txn[u]) /\ txn[u].version \in Versions
      BY StatementFacts
    <3>2. /\ keys'[txn[u].version] = keys[txn[u].version]
          /\ etag'[txn[u].version] = etag[txn[u].version]
      BY <1>1, <2>3, <3>1 DEF IInv, TypeOK
    <3> QED BY <1>1, <1>3, <2>3, <3>1, <3>2 DEF Sound
  <2> QED BY <2>1, <2>2, <2>3
<1>12. OneUpdater'
  BY <1>3, IdleFacts DEF IInv, OneUpdater
<1>13. LateMarked'
  BY <1>1, <1>3, IdleFacts DEF IInv, LateMarked
<1> QED BY <1>8, <1>9, <1>10, <1>11, <1>12, <1>13 DEF IInv

-----------------------------------------------------------------------------
LEMMA InitHolds ==
  ASSUME Init
  PROVE  IInv
<1>1. \A t \in Threads : txn[t] = Idle
  BY DEF Init
<1>2. TypeOK
  BY <1>1, IdleFacts, BackupAssumption DEF Init, TypeOK, Open
<1>3. Cardinality({}) = 0
  BY FS_EmptySet
<1>4. EtagCountsCommits /\ CountExact
  BY <1>3 DEF Init, EtagCountsCommits, CountExact
<1>5. TxnsSound
  BY <1>1, IdleFacts DEF TxnsSound, Sound
<1>6. OneUpdater /\ LateMarked
  BY <1>1, IdleFacts DEF OneUpdater, LateMarked
<1> QED BY <1>2, <1>4, <1>5, <1>6 DEF IInv

LEMMA StutterHolds ==
  ASSUME IInv, UNCHANGED vars
  PROVE  IInv'
BY DEF IInv, vars, history, TypeOK, Open, EtagCountsCommits, CountExact, TxnsSound,
       Sound, OneUpdater, LateMarked

LEMMA NextHolds ==
  ASSUME IInv, [Next]_vars
  PROVE  IInv'
<1>1. CASE createVersion
  BY <1>1, CreateStep DEF createVersion
<1>2. ASSUME NEW t \in Threads, putRoomKeys(t) PROVE IInv'
  BY <1>2, PutStep DEF putRoomKeys
<1>3. ASSUME NEW t \in Threads, deleteRoomKeys(t) PROVE IInv'
  BY <1>3, DeleteStep DEF deleteRoomKeys
<1>4. ASSUME NEW t \in Threads, Statement(t) PROVE IInv'
  BY <1>4, UpsertStep, DeleteKeyStep, CountStep, UpdateStep, CommitStep DEF Statement
<1>5. ASSUME NEW t \in Threads, Rollback(t) \/ DeadlockVictim(t) PROVE IInv'
  BY <1>5, RollbackStep DEF DeadlockVictim
<1>6. CASE UNCHANGED vars
  BY <1>6, StutterHolds
<1> QED BY <1>1, <1>2, <1>3, <1>4, <1>5, <1>6 DEF Next

(***************************************************************************)
(* The inductive invariant holds in every reachable state, whatever puts,  *)
(* deletes, new versions, rollbacks and deadlock victims interleave.       *)
(***************************************************************************)
THEOREM Invariance == Spec => []IInv
<1>1. Init => IInv
  BY InitHolds
<1>2. IInv /\ [Next]_vars => IInv'
  BY NextHolds
<1> QED BY <1>1, <1>2, PTL DEF Spec

(***************************************************************************)
(* The rows keep their types; every open transaction is in a version that  *)
(* exists.                                                                 *)
(***************************************************************************)
THEOREM TypeCorrect == Spec => []TypeOK
<1>1. IInv => TypeOK
  BY DEF IInv
<1> QED BY <1>1, Invariance, PTL

(***************************************************************************)
(* UPDATE VersaoBackup SET etag = etag + 1 under the lock of the row: the  *)
(* etag of a version is the number of transactions committed in it, so no  *)
(* two changes share one.                                                  *)
(***************************************************************************)
THEOREM EtagsCount == Spec => []EtagCountsCommits
<1>1. IInv => EtagCountsCommits
  BY DEF IInv
<1> QED BY <1>1, Invariance, PTL

(***************************************************************************)
(* The count that PutRoomKeys and DeleteRoomKeys store is right, but after *)
(* a commit that fell between the count and the commit that stored it.     *)
(***************************************************************************)
THEOREM CountsAreExact == Spec => []CountExact
<1>1. IInv => CountExact
  BY DEF IInv
<1> QED BY <1>1, Invariance, PTL

-----------------------------------------------------------------------------
(* Only the commit of a put adds a key, and one in an old version is late. *)
LEMMA ShrinkStep ==
  ASSUME IInv, [Next]_vars, NEW v \in 1 .. (latest - 1)
  PROVE  keys'[v] \subseteq keys[v] \/ \E t \in late : txn[t].version = v
<1>1. CASE UNCHANGED keys
  BY <1>1
<1>2. ASSUME NEW t \in Threads, Commit(t)
      PROVE  keys'[v] \subseteq keys[v] \/ \E u \in late : txn[u].version = v
  <2>1. /\ txn[t].pc = "commit"
        /\ keys' = [keys EXCEPT ![txn[t].version] =
                      IF txn[t].op = "put" THEN @ \cup txn[t].wrote
                      ELSE @ \ txn[t].wrote]
    BY <1>2 DEF Commit
  <2>2. v \in Versions /\ v < latest /\ txn[t].version \in Versions
    BY StatementFacts, BackupAssumption DEF IInv, TypeOK, Versions
  <2>3. CASE txn[t].version # v
    <3>1. keys'[v] = keys[v]
      BY <2>1, <2>2, <2>3 DEF IInv, TypeOK
    <3> QED BY <3>1
  <2>4. CASE txn[t].version = v /\ txn[t].op = "put"
    BY <2>1, <2>2, <2>4, StatementFacts
  <2>5. CASE txn[t].version = v /\ txn[t].op # "put"
    <3>1. keys'[v] = keys[v] \ txn[t].wrote
      BY <2>1, <2>2, <2>5 DEF IInv, TypeOK
    <3> QED BY <3>1
  <2> QED BY <2>3, <2>4, <2>5
<1>3. UNCHANGED keys \/ \E t \in Threads : Commit(t)
  BY DEF Next, createVersion, CreateBackupVersion, putRoomKeys, PutRoomKeys,
         deleteRoomKeys, DeleteRoomKeys, Statement, UpsertKey, DeleteKey, CountKeys,
         UpdateVersion, Rollback, DeadlockVictim, vars
<1> QED BY <1>1, <1>2, <1>3

(***************************************************************************)
(* The version check of PutRoomKeys comes before its transaction: only the *)
(* puts that passed it before a version was superseded add keys to it.     *)
(***************************************************************************)
THEOREM OldVersionsOnlyShrink == Spec => OldVersionsShrink
<1>1. IInv /\ [Next]_vars =>
        [\A v \in 1 .. (latest - 1) :
           \/ keys'[v] \subseteq keys[v]
           \/ \E t \in late : txn[t].version = v]_vars
  BY ShrinkStep
<1> QED BY <1>1, Invariance, PTL DEF Spec, OldVersionsShrink

=============================================================================
