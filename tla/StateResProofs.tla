--------------------------- MODULE StateResProofs ---------------------------
(***************************************************************************)
(* Proofs about StateRes, for any events and any number of state maps.     *)
(*                                                                         *)
(* IInv describes one run of Resolve: what is queued, tried and resolved.  *)
(* That two runs end alike is a different kind of fact: each step of a run *)
(* is determined by the state before it, so from one start there is but    *)
(* one end (the last part of this module).                                 *)
(***************************************************************************)
EXTENDS StateRes, SequenceTheorems, FiniteSetTheorems, TLAPS

StateMaps == UNION {[D -> Ids] : D \in SUBSET Tuples}

SetsOK ==
  /\ sets \in Seq(Range(sets))
  /\ \A i \in DOMAIN sets : \A x \in DOMAIN sets[i] :
       sets[i][x] \in Ids /\ Tuple(sets[i][x]) = x

(* The conflicted events of the phase are queued, sorted or tried. *)
Queued ==
  /\ phase <= 3 => /\ todo \cup Range(sorted) \subseteq PhaseIds(Conflicted, phase)
                   /\ PhaseIds(Conflicted, phase) \subseteq todo \cup Range(sorted) \cup tried
  /\ \A q \in 1 .. 3 : q < phase => PhaseIds(Conflicted, q) \subseteq tried
  /\ \A e \in tried : PhaseOf(e) <= phase

(* What authorizes a sorted event was tried or comes before it. *)
Ordered ==
  phase <= 3 =>
    \A i \in DOMAIN sorted :
      \A a \in Event[sorted[i]].auths \cap PhaseIds(Conflicted, phase) :
        a \in tried \/ \E j \in 1 .. (i - 1) : sorted[j] = a

Resolving ==
  /\ resolved \in StateMaps
  /\ \A x \in DOMAIN resolved : /\ Tuple(resolved[x]) = x
                                /\ resolved[x] \in Named(x)
                                /\ resolved[x] \in tried \/ Agreed(x)
  /\ \A x \in AllTuples : Agreed(x) => /\ x \in DOMAIN resolved
                                       /\ resolved[x] = Unconflicted[x]

(* WinnersAuthorized at any time of the run. *)
Winners ==
  \A x \in DOMAIN resolved :
    resolved[x] \in tried => Backed(resolved[x], resolved, tried)

Results ==
  first \in Seq(StateMaps) /\ Len(first) <= 2 /\ (phase < 4 => Len(first) <= 1)

Types ==
  /\ phase \in 1 .. 4
  /\ todo \subseteq Conflicted
  /\ sorted \in Seq(Conflicted)
  /\ plEvent \in Ids \cup {NoEvent}
  /\ tried \subseteq Conflicted

Core == Types /\ SetsOK /\ Queued /\ Ordered /\ Resolving /\ Winners
IInv == Core /\ Results

(* A run that begins. *)
Fresh ==
  /\ phase = 1
  /\ todo = PhaseIds(Conflicted, 1)
  /\ sorted = <<>>
  /\ resolved = Unconflicted
  /\ plEvent = GetStateEvent(Unconflicted, PowerLevels)
  /\ tried = {}

-----------------------------------------------------------------------------
(* Facts about the helpers. *)

LEMMA PhaseFacts ==
  ASSUME NEW e
  PROVE  /\ PhaseOf(e) \in 1 .. 3
         /\ PhaseOf(e) = 1 <=> Event[e].type \in {"create", "power_levels", "join_rules"}
         /\ PhaseOf(e) = 2 <=> Event[e].type \in {"member", "third_party_invite"}
BY DEF PhaseOf

LEMMA TypeFacts ==
  ASSUME NEW e \in Ids
  PROVE  /\ e # NoEvent /\ e \in Nat
         /\ Tuple(e)[1] = Event[e].type /\ Tuple(e) \in Tuples
BY EventAssumption DEF Tuple, Tuples

LEMMA ConflictFacts ==
  ASSUME SetsOK
  PROVE  /\ \A x : \A e \in Named(x) : e \in Ids /\ Tuple(e) = x /\ x \in AllTuples
         /\ Conflicted \subseteq Ids
         /\ \A e \in Conflicted : ~Agreed(Tuple(e)) /\ e \in Named(Tuple(e))
         /\ \A x \in AllTuples : Named(x) # {}
         /\ \A x \in AllTuples : ~Agreed(x) => Named(x) \subseteq Conflicted
<1>1. ASSUME NEW x, NEW e \in Named(x)
      PROVE  e \in Ids /\ Tuple(e) = x /\ x \in AllTuples
  <2>1. PICK i \in DOMAIN sets : x \in DOMAIN sets[i] /\ e = sets[i][x]
    BY DEF Named
  <2> QED BY <2>1 DEF SetsOK, AllTuples
<1>2. ASSUME NEW e \in Conflicted
      PROVE  e \in Ids /\ ~Agreed(Tuple(e)) /\ e \in Named(Tuple(e))
  <2>1. PICK x \in AllTuples : ~Agreed(x) /\ e \in Named(x)
    BY DEF Conflicted
  <2> QED BY <1>1, <2>1
<1>3. ASSUME NEW x \in AllTuples PROVE Named(x) # {}
  <2>1. PICK i \in DOMAIN sets : x \in DOMAIN sets[i]
    BY DEF AllTuples
  <2>2. sets[i][x] \in Named(x)
    BY <2>1 DEF Named
  <2> QED BY <2>2
<1>4. \A x \in AllTuples : ~Agreed(x) => Named(x) \subseteq Conflicted
  BY DEF Conflicted
<1> QED BY <1>1, <1>2, <1>3, <1>4

(* Named(x) is finite, so one element is what Agreed(x) says. *)
LEMMA AgreedFacts ==
  ASSUME SetsOK, NEW x \in AllTuples
  PROVE  /\ Agreed(x) => Unconflicted[x] \in Named(x) /\ Named(x) = {Unconflicted[x]}
         /\ (\A i \in DOMAIN sets : x \in DOMAIN sets[i] /\ sets[i][x] = sets[1][x])
              => Agreed(x) /\ Unconflicted[x] = sets[1][x]
<1>1. sets \in Seq(Range(sets)) /\ Len(sets) \in Nat /\ DOMAIN sets = 1 .. Len(sets)
  BY LenProperties DEF SetsOK
<1>2. IsFiniteSet(Named(x))
  <2> DEFINE D == {j \in DOMAIN sets : x \in DOMAIN sets[j]}
             f == [i \in D |-> sets[i][x]]
  <2>1. IsFiniteSet(1 .. Len(sets))
    BY <1>1, FS_Interval
  <2>2. IsFiniteSet(D)
    BY <1>1, <2>1, FS_Subset
  <2>3. f \in Surjection(D, Named(x))
    BY DEF Surjection, Named
  <2> QED BY <2>2, <2>3, FS_Surjection
<1>3. Agreed(x) => Unconflicted[x] = CHOOSE e \in Named(x) : TRUE
  BY DEF Unconflicted
<1>4. ASSUME Agreed(x) PROVE Named(x) = {Unconflicted[x]}
  <2>1. PICK e : Named(x) = {e}
    BY <1>2, <1>4, FS_Singleton DEF Agreed
  <2> QED BY <1>3, <1>4, <2>1
<1>5. ASSUME \A i \in DOMAIN sets : x \in DOMAIN sets[i] /\ sets[i][x] = sets[1][x]
      PROVE  Agreed(x) /\ Unconflicted[x] = sets[1][x]
  <2>1. PICK i \in DOMAIN sets : x \in DOMAIN sets[i]
    BY DEF AllTuples
  <2>2. 1 \in DOMAIN sets
    BY <1>1, <2>1
  <2>3. Named(x) = {sets[1][x]}
    BY <1>5, <2>2 DEF Named
  <2>4. Agreed(x)
    BY <1>5, <2>3, FS_Singleton DEF Agreed
  <2> QED BY <1>4, <2>3, <2>4
<1> QED BY <1>4, <1>5

(* The partition of an input. *)
SameInput ==
  /\ Conflicted' = Conflicted /\ Unconflicted' = Unconflicted /\ AllTuples' = AllTuples
  /\ \A x : Named(x)' = Named(x) /\ (Agreed(x)' <=> Agreed(x))

LEMMA SameSets ==
  ASSUME sets' = sets
  PROVE  SameInput
BY DEF SameInput, Conflicted, Unconflicted, AllTuples, Named, Agreed

(* partitionState does not depend on the order of the maps. *)
LEMMA ReversedSets ==
  ASSUME SetsOK, sets' = Reverse(sets)
  PROVE  SameInput /\ SetsOK'
<1> DEFINE n == Len(sets)
<1>1. n \in Nat /\ DOMAIN sets = 1 .. n
  BY LenProperties DEF SetsOK
<1>2. DOMAIN sets' = 1 .. n /\ \A i \in 1 .. n : sets'[i] = sets[(n - i) + 1]
  BY DEF Reverse
<1>3. \A i \in 1 .. n : (n - i) + 1 \in 1 .. n /\ sets[i] = sets'[(n - i) + 1]
  BY <1>1, <1>2
<1>4. ASSUME NEW x PROVE Named(x)' = Named(x)
  <2>1. Named(x)' = {sets'[i][x] : i \in {j \in 1 .. n : x \in DOMAIN sets'[j]}}
    BY <1>2 DEF Named
  <2>2. Named(x) = {sets[i][x] : i \in {j \in 1 .. n : x \in DOMAIN sets[j]}}
    BY <1>1 DEF Named
  <2>3. ASSUME NEW i \in 1 .. n, x \in DOMAIN sets'[i] PROVE sets'[i][x] \in Named(x)
    BY <1>2, <1>3, <2>2, <2>3
  <2>4. ASSUME NEW i \in 1 .. n, x \in DOMAIN sets[i] PROVE sets[i][x] \in Named(x)'
    BY <1>2, <1>3, <2>1, <2>4
  <2> QED BY <2>1, <2>2, <2>3, <2>4
<1>5. AllTuples' = AllTuples
  <2>1. AllTuples' = UNION {DOMAIN sets'[i] : i \in 1 .. n}
    BY <1>2 DEF AllTuples
  <2>2. AllTuples = UNION {DOMAIN sets[i] : i \in 1 .. n}
    BY <1>1 DEF AllTuples
  <2>3. \A i \in 1 .. n : DOMAIN sets'[i] \subseteq AllTuples
    BY <1>2, <1>3, <2>2
  <2>4. \A i \in 1 .. n : DOMAIN sets[i] \subseteq AllTuples'
    BY <1>3, <2>1
  <2> QED BY <2>1, <2>2, <2>3, <2>4
<1>6. ASSUME NEW x PROVE Agreed(x)' <=> Agreed(x)
  BY <1>1, <1>2, <1>3, <1>4 DEF Agreed
<1>7. Unconflicted' = Unconflicted /\ Conflicted' = Conflicted
  BY <1>4, <1>5, <1>6 DEF Unconflicted, Conflicted
<1>8. SetsOK'
  <2>1. sets' \in [1 .. n -> Range(sets')]
    BY <1>2 DEF Range, Reverse
  <2>2. sets' \in Seq(Range(sets'))
    BY <1>1, <2>1, IsASeq
  <2>3. \A i \in DOMAIN sets' : \A x \in DOMAIN sets'[i] :
          sets'[i][x] \in Ids /\ Tuple(sets'[i][x]) = x
    BY <1>1, <1>2, <1>3 DEF SetsOK
  <2> QED BY <2>2, <2>3 DEF SetsOK, Tuple
<1> QED BY <1>4, <1>5, <1>6, <1>7, <1>8 DEF SameInput

(* A state map with one more event. *)
Put(m, e) == [x \in DOMAIN m \cup {Tuple(e)} |-> IF x = Tuple(e) THEN e ELSE m[x]]

LEMMA PutFacts ==
  ASSUME NEW m \in StateMaps, NEW e \in Ids
  PROVE  /\ Put(m, e) \in StateMaps
         /\ DOMAIN Put(m, e) = DOMAIN m \cup {Tuple(e)}
         /\ Put(m, e)[Tuple(e)] = e
         /\ \A x \in DOMAIN m \ {Tuple(e)} : Put(m, e)[x] = m[x]
         /\ \A x : x # Tuple(e) => GetStateEvent(Put(m, e), x) = GetStateEvent(m, x)
<1>1. PICK D \in SUBSET Tuples : m \in [D -> Ids]
  BY DEF StateMaps
<1>2. Put(m, e) \in [D \cup {Tuple(e)} -> Ids]
  BY <1>1 DEF Put
<1>3. D \cup {Tuple(e)} \in SUBSET Tuples
  BY TypeFacts
<1>4. Put(m, e) \in StateMaps
  BY <1>2, <1>3 DEF StateMaps
<1>5. \A x : x # Tuple(e) => GetStateEvent(Put(m, e), x) = GetStateEvent(m, x)
  BY <1>1 DEF GetStateEvent, Put
<1> QED BY <1>1, <1>4, <1>5 DEF Put

(***************************************************************************)
(* CheckAuth of a member looks at the power levels and the creation of the *)
(* room, that of the last phase at the sender's membership too.            *)
(***************************************************************************)
LEMMA LevelSame ==
  ASSUME NEW m, NEW n,
         GetStateEvent(n, PowerLevels) = GetStateEvent(m, PowerLevels),
         GetStateEvent(n, Create) = GetStateEvent(m, Create)
  PROVE  /\ \A u : GetUserPowerLevel(n, u) = GetUserPowerLevel(m, u)
         /\ \A e : HasLevel(e, n) <=> HasLevel(e, m)
<1>1. \A u : GetUserPowerLevel(n, u) = GetUserPowerLevel(m, u)
  BY DEF GetUserPowerLevel
<1>2. \A y : RequiredLevel(n, y) = RequiredLevel(m, y)
  BY DEF RequiredLevel
<1> QED BY <1>1, <1>2 DEF HasLevel

(* An event that passes is backed. *)
LEMMA PassedIsBacked ==
  ASSUME NEW e \in Ids, NEW m, NEW T, CheckAuth(e, m)
  PROVE  Backed(e, m, T)
<1>1. CASE Event[e].type = "third_party_invite"
  <2>1. Joined(m, Event[e].sender) /\ HasLevel(e, m)
    BY <1>1 DEF CheckAuth
  <2> QED BY <1>1, <2>1 DEF Backed
<1>2. CASE Event[e].type # "third_party_invite"
  BY <1>2 DEF Backed
<1> QED BY <1>1, <1>2

(* Replacing an event by one of the same or a later phase takes no backing away. *)
LEMMA BackedStays ==
  ASSUME NEW d \in Ids, NEW e \in Ids, NEW m \in StateMaps, NEW T,
         PhaseOf(d) <= PhaseOf(e), Backed(d, m, T)
  PROVE  Backed(d, Put(m, e), T \cup {e})
<1>1. PICK n : n = Put(m, e)
  OBVIOUS
<1>2. /\ \A x : x # Tuple(e) => GetStateEvent(n, x) = GetStateEvent(m, x)
      /\ GetStateEvent(n, Tuple(e)) = e
  <2>1. \A x : x # Tuple(e) => GetStateEvent(n, x) = GetStateEvent(m, x)
    BY <1>1, PutFacts
  <2>2. Tuple(e) \in DOMAIN n /\ n[Tuple(e)] = e
    BY <1>1, PutFacts
  <2> QED BY <2>1, <2>2 DEF GetStateEvent
<1>3. PowerLevels[1] = "power_levels" /\ Create[1] = "create" /\ \A u : Member(u)[1] = "member"
  BY DEF PowerLevels, Create, Member
<1>4. Tuple(e)[1] = Event[e].type
  BY TypeFacts
<1>5. CASE PhaseOf(d) = 1
  <2>1. Event[d].type \in {"create", "power_levels", "join_rules"}
    BY <1>5, PhaseFacts
  <2> QED BY <1>5, <2>1 DEF Backed
<1>6. CASE PhaseOf(d) # 1
  <2>1. PhaseOf(e) # 1
    BY <1>6, PhaseFacts
  <2>2. Event[e].type # "power_levels" /\ Event[e].type # "create"
    BY <2>1, PhaseFacts
  <2>3. /\ GetStateEvent(n, PowerLevels) = GetStateEvent(m, PowerLevels)
        /\ GetStateEvent(n, Create) = GetStateEvent(m, Create)
    BY <1>2, <1>3, <1>4, <2>2
  <2>4. /\ \A u : GetUserPowerLevel(n, u) = GetUserPowerLevel(m, u)
        /\ HasLevel(d, n) <=> HasLevel(d, m)
    BY <2>3, LevelSame
  <2>5. CASE Event[d].type = "member"
    <3>1. PhaseOf(d) = 2
      BY <2>5, PhaseFacts
    <3>2. CheckAuth(d, m)
      BY <2>5 DEF Backed
    <3>3. CheckAuth(d, n)
      BY <2>4, <2>5, <3>2 DEF CheckAuth, CheckMember
    <3> QED BY <1>1, <2>5, <3>3 DEF Backed
  <2>6. CASE Event[d].type = "third_party_invite"
    <3>1. PhaseOf(d) = 2
      BY <2>6, PhaseFacts
    <3>2. HasLevel(d, n)
      BY <2>4, <2>6 DEF Backed
    <3>3. \/ Joined(n, Event[d].sender)
          \/ GetStateEvent(n, Member(Event[d].sender)) \in T \cup {e}
      <4>1. CASE Member(Event[d].sender) = Tuple(e)
        BY <1>2, <4>1
      <4>2. CASE Member(Event[d].sender) # Tuple(e)
        BY <1>2, <2>6, <4>2 DEF Backed, Joined
      <4> QED BY <4>1, <4>2
    <3> QED BY <1>1, <2>6, <3>1, <3>2, <3>3 DEF Backed
  <2>7. CASE PhaseOf(d) = 3
    <3>1. PhaseOf(e) = 3
      BY <2>7, PhaseFacts
    <3>2. /\ Event[e].type # "member"
          /\ Event[d].type \notin {"create", "power_levels", "join_rules",
                                   "member", "third_party_invite"}
      BY <2>7, <3>1, PhaseFacts
    <3>3. GetStateEvent(n, Member(Event[d].sender)) = GetStateEvent(m, Member(Event[d].sender))
      BY <1>2, <1>3, <1>4, <3>2
    <3>4. CheckAuth(d, m)
      BY <2>7 DEF Backed
    <3>5. Joined(n, Event[d].sender) /\ HasLevel(d, n)
      BY <2>4, <3>2, <3>3, <3>4 DEF CheckAuth, Joined
    <3>6. CheckAuth(d, n)
      BY <3>2, <3>5 DEF CheckAuth
    <3> QED BY <1>1, <3>2, <3>6 DEF Backed
  <2> QED BY <1>6, <2>5, <2>6, <2>7, PhaseFacts
<1> QED BY <1>5, <1>6

(* Acyclic: while events are left, one of them is ready. *)
LEMMA ReadyFacts ==
  ASSUME todo \subseteq Ids, ZeroDegree = {}
  PROVE  todo = {}
BY EventAssumption DEF ZeroDegree

LEMMA AppendFacts ==
  ASSUME NEW S, NEW s \in Seq(S), NEW e \in S
  PROVE  /\ Append(s, e) \in Seq(S) /\ DOMAIN Append(s, e) = 1 .. Len(s) + 1
         /\ DOMAIN s = 1 .. Len(s) /\ Len(s) \in Nat
         /\ \A i \in 1 .. Len(s) : Append(s, e)[i] = s[i]
         /\ Append(s, e)[Len(s) + 1] = e
         /\ Range(Append(s, e)) = Range(s) \cup {e}
<1>1. /\ Append(s, e) \in Seq(S) /\ Len(Append(s, e)) = Len(s) + 1
      /\ \A i \in 1 .. Len(s) : Append(s, e)[i] = s[i]
      /\ Append(s, e)[Len(s) + 1] = e
  BY AppendProperties
<1>2. DOMAIN Append(s, e) = 1 .. Len(s) + 1 /\ DOMAIN s = 1 .. Len(s) /\ Len(s) \in Nat
  BY <1>1, LenProperties
<1>3. Range(Append(s, e)) = Range(s) \cup {e}
  <2>1. \A i \in DOMAIN Append(s, e) : i \in DOMAIN s \/ i = Len(s) + 1
    BY <1>2
  <2>2. \A i \in DOMAIN s : i \in DOMAIN Append(s, e)
    BY <1>2
  <2>3. Len(s) + 1 \in DOMAIN Append(s, e)
    BY <1>2
  <2> QED BY <1>1, <1>2, <2>1, <2>2, <2>3 DEF Range
<1> QED BY <1>1, <1>2, <1>3

LEMMA TailFacts ==
  ASSUME NEW S, NEW s \in Seq(S), s # <<>>
  PROVE  /\ Head(s) \in S /\ Tail(s) \in Seq(S) /\ Head(s) = s[1] /\ 1 \in DOMAIN s
         /\ DOMAIN s = 1 .. Len(s) /\ Len(s) \in Nat \ {0}
         /\ DOMAIN Tail(s) = 1 .. Len(s) - 1
         /\ \A i \in 1 .. Len(s) - 1 : Tail(s)[i] = s[i + 1]
         /\ Range(s) = {Head(s)} \cup Range(Tail(s))
<1>1. /\ Head(s) \in S /\ Tail(s) \in Seq(S) /\ Len(Tail(s)) = Len(s) - 1
      /\ \A i \in 1 .. Len(Tail(s)) : Tail(s)[i] = s[i + 1]
  BY HeadTailProperties
<1>2. /\ Len(s) \in Nat \ {0} /\ DOMAIN s = 1 .. Len(s)
      /\ DOMAIN Tail(s) = 1 .. Len(s) - 1 /\ Head(s) = s[1]
  BY <1>1, EmptySeq, LenProperties
<1>3. \A i \in DOMAIN s : i = 1 \/ (i - 1 \in DOMAIN Tail(s) /\ Tail(s)[i - 1] = s[i])
  BY <1>1, <1>2
<1>4. \A i \in DOMAIN Tail(s) : i + 1 \in DOMAIN s /\ Tail(s)[i] = s[i + 1]
  BY <1>1, <1>2
<1>5. Range(s) \subseteq {Head(s)} \cup Range(Tail(s))
  BY <1>2, <1>3 DEF Range
<1>6. {Head(s)} \cup Range(Tail(s)) \subseteq Range(s)
  BY <1>2, <1>4 DEF Range
<1> QED BY <1>1, <1>2, <1>5, <1>6

LEMMA StartHolds == SetsOK /\ Fresh => Core
<1> SUFFICES ASSUME SetsOK, Fresh PROVE Core
  OBVIOUS
<1>1. /\ Conflicted \subseteq Ids
      /\ \A x \in AllTuples : Agreed(x) => Named(x) = {Unconflicted[x]}
  BY ConflictFacts, AgreedFacts
<1>2. \A x \in DOMAIN Unconflicted : x \in AllTuples /\ Agreed(x)
  BY DEF Unconflicted
<1>3. \A x \in DOMAIN Unconflicted : /\ Unconflicted[x] \in Named(x) /\ Unconflicted[x] \in Ids
                                     /\ Tuple(Unconflicted[x]) = x
  BY <1>1, <1>2, ConflictFacts
<1>4. Unconflicted \in StateMaps
  <2>1. DOMAIN Unconflicted \subseteq Tuples
    BY <1>3 DEF Tuples
  <2>2. Unconflicted = [x \in DOMAIN Unconflicted |-> Unconflicted[x]]
    BY DEF Unconflicted
  <2>3. Unconflicted \in [DOMAIN Unconflicted -> Ids]
    BY <1>3, <2>2
  <2> QED BY <2>1, <2>3 DEF StateMaps
<1>5. plEvent \in Ids \cup {NoEvent}
  BY <1>3 DEF Fresh, GetStateEvent
<1>6. PhaseIds(Conflicted, 1) \subseteq Conflicted /\ Range(sorted) = {} /\ sorted \in Seq(Conflicted)
  BY EmptySeq DEF PhaseIds, Fresh, Range
<1>7. Resolving
  BY <1>2, <1>3, <1>4 DEF Fresh, Resolving, Unconflicted
<1>8. Types
  BY <1>5, <1>6 DEF Fresh, Types
<1>9. Queued /\ Ordered
  BY <1>6 DEF Fresh, Queued, Ordered
<1>10. Winners
  BY DEF Fresh, Winners
<1> QED BY <1>7, <1>8, <1>9, <1>10 DEF Core
-----------------------------------------------------------------------------
(* One lemma per action. *)

LEMMA SortStep ==
  ASSUME IInv, SortNext
  PROVE  IInv'
<1>1. PICK e \in ZeroDegree : todo' = todo \ {e} /\ sorted' = Append(sorted, e)
  BY DEF SortNext
<1>2. phase <= 3 /\ UNCHANGED <<sets, phase, resolved, plEvent, first, tried>>
  BY DEF SortNext
<1>3. SameInput
  BY <1>2, SameSets
<1>4. e \in todo /\ Event[e].auths \cap todo = {} /\ e \in Conflicted /\ sorted \in Seq(Conflicted)
  BY <1>1 DEF ZeroDegree, IInv, Core, Types
<1>5. /\ sorted' \in Seq(Conflicted) /\ DOMAIN sorted' = 1 .. Len(sorted) + 1
      /\ DOMAIN sorted = 1 .. Len(sorted) /\ Len(sorted) \in Nat
      /\ \A i \in 1 .. Len(sorted) : sorted'[i] = sorted[i]
      /\ sorted'[Len(sorted) + 1] = e /\ Range(sorted') = Range(sorted) \cup {e}
  BY <1>1, <1>4, AppendFacts
<1>6. Types'
  BY <1>1, <1>2, <1>3, <1>5 DEF IInv, Core, Types, SameInput
<1>7. PhaseIds(Conflicted, phase)' = PhaseIds(Conflicted, phase)
      /\ \A q : PhaseIds(Conflicted, q)' = PhaseIds(Conflicted, q)
  BY <1>2, <1>3 DEF SameInput, PhaseIds
<1>8. Queued'
  BY <1>1, <1>2, <1>4, <1>5, <1>7 DEF IInv, Core, Queued
<1>9. Ordered'
  <2> SUFFICES ASSUME NEW i \in DOMAIN sorted',
                      NEW a \in Event[sorted'[i]].auths \cap PhaseIds(Conflicted, phase)
               PROVE  a \in tried \/ \E j \in 1 .. (i - 1) : sorted'[j] = a
    BY <1>2, <1>7 DEF Ordered
  <2>1. CASE i \in 1 .. Len(sorted)
    <3>1. a \in tried \/ \E j \in 1 .. (i - 1) : sorted[j] = a
      BY <1>2, <1>5, <2>1 DEF IInv, Core, Ordered
    <3> QED BY <1>5, <2>1, <3>1
  <2>2. CASE i = Len(sorted) + 1
    <3>1. a \in Range(sorted) \/ a \in tried
      BY <1>2, <1>4, <1>5, <2>2 DEF IInv, Core, Queued
    <3>2. a \in Range(sorted) => \E j \in 1 .. Len(sorted) : sorted'[j] = a
      BY <1>5 DEF Range
    <3> QED BY <1>5, <2>2, <3>1, <3>2
  <2> QED BY <1>5, <2>1, <2>2
<1>10. Resolving'
  BY <1>2, <1>3 DEF IInv, Core, Resolving, SameInput
<1>11. SetsOK' /\ Results' /\ Winners'
  BY <1>2 DEF IInv, Core, SetsOK, Results, Winners
<1> QED BY <1>6, <1>8, <1>9, <1>10, <1>11 DEF IInv, Core

(* What Apply does with the first event of the sorted ones. *)
LEMMA ApplyFacts ==
  ASSUME IInv, Apply
  PROVE  \E e \in PhaseIds(Conflicted, phase) :
           /\ sorted # <<>> /\ e = Head(sorted) /\ e \in Ids /\ phase \in 1 .. 3
           /\ sorted' = Tail(sorted) /\ tried' = tried \cup {e}
           /\ \/ /\ CheckAuth(e, resolved) /\ resolved' = Put(resolved, e)
                 /\ plEvent' = IF Tuple(e) = PowerLevels THEN e ELSE plEvent
              \/ ~CheckAuth(e, resolved) /\ resolved' = resolved /\ plEvent' = plEvent
           /\ UNCHANGED <<sets, phase, todo, first>>
<1>0. PICK e : e = Head(sorted)
  OBVIOUS
<1>1. sorted # <<>> /\ sorted \in Seq(Conflicted) /\ phase <= 3 /\ phase \in 1 .. 4
  BY DEF Apply, IInv, Core, Types
<1>2. e \in Range(sorted)
  BY <1>0, <1>1, TailFacts
<1>3. e \in PhaseIds(Conflicted, phase) /\ e \in Ids
  BY <1>1, <1>2, ConflictFacts DEF IInv, Core, Queued, PhaseIds
<1>4. /\ sorted' = Tail(sorted) /\ tried' = tried \cup {e}
      /\ UNCHANGED <<sets, phase, todo, first>>
  BY <1>0 DEF Apply
<1>5. \/ /\ CheckAuth(e, resolved) /\ resolved' = Put(resolved, e)
         /\ plEvent' = IF Tuple(e) = PowerLevels THEN e ELSE plEvent
      \/ ~CheckAuth(e, resolved) /\ resolved' = resolved /\ plEvent' = plEvent
  <2>1. CASE CheckAuth(e, resolved)
    BY <1>0, <2>1 DEF Apply, Put
  <2>2. CASE ~CheckAuth(e, resolved)
    BY <1>0, <2>2 DEF Apply
  <2> QED BY <2>1, <2>2
<1>6. phase \in 1 .. 3
  BY <1>1
<1> QED BY <1>0, <1>1, <1>3, <1>4, <1>5, <1>6

LEMMA ApplyStep ==
  ASSUME IInv, Apply
  PROVE  IInv'
<1>1. PICK e \in PhaseIds(Conflicted, phase) :
           /\ sorted # <<>> /\ e = Head(sorted) /\ e \in Ids /\ phase \in 1 .. 3
           /\ sorted' = Tail(sorted) /\ tried' = tried \cup {e}
           /\ \/ /\ CheckAuth(e, resolved) /\ resolved' = Put(resolved, e)
                 /\ plEvent' = IF Tuple(e) = PowerLevels THEN e ELSE plEvent
              \/ ~CheckAuth(e, resolved) /\ resolved' = resolved /\ plEvent' = plEvent
           /\ UNCHANGED <<sets, phase, todo, first>>
  BY ApplyFacts
<1>2. SameInput
  BY <1>1, SameSets
<1>3. sorted \in Seq(Conflicted) /\ resolved \in StateMaps
      /\ e \in Conflicted /\ PhaseOf(e) = phase
  BY <1>1 DEF IInv, Core, Types, Resolving, PhaseIds
<1>4. /\ sorted' \in Seq(Conflicted) /\ e = sorted[1]
      /\ DOMAIN sorted = 1 .. Len(sorted) /\ Len(sorted) \in Nat \ {0}
      /\ DOMAIN sorted' = 1 .. Len(sorted) - 1
      /\ \A i \in 1 .. Len(sorted) - 1 : sorted'[i] = sorted[i + 1]
      /\ Range(sorted) = {e} \cup Range(sorted')
  BY <1>1, <1>3, TailFacts
<1>5. ~Agreed(Tuple(e)) /\ e \in Named(Tuple(e))
  BY <1>3, ConflictFacts DEF IInv, Core
<1>6. Types'
  BY <1>1, <1>2, <1>3, <1>4 DEF IInv, Core, Types, SameInput
<1>7. \A q : PhaseIds(Conflicted, q)' = PhaseIds(Conflicted, q)
  BY <1>2 DEF SameInput, PhaseIds
<1>8. Queued'
  <2>1. /\ todo' \cup Range(sorted') \subseteq PhaseIds(Conflicted, phase)
        /\ PhaseIds(Conflicted, phase) \subseteq todo' \cup Range(sorted') \cup tried'
    BY <1>1, <1>4 DEF IInv, Core, Queued
  <2>2. \A q \in 1 .. 3 : q < phase => PhaseIds(Conflicted, q) \subseteq tried'
    BY <1>1 DEF IInv, Core, Queued
  <2>3. \A d \in tried' : PhaseOf(d) <= phase
    BY <1>1, <1>3 DEF IInv, Core, Queued
  <2> QED BY <1>1, <1>2, <2>1, <2>2, <2>3 DEF Queued, SameInput, PhaseIds
<1>9. Ordered'
  <2> SUFFICES ASSUME NEW i \in DOMAIN sorted',
                      NEW a \in Event[sorted'[i]].auths \cap PhaseIds(Conflicted, phase)
               PROVE  a \in tried' \/ \E j \in 1 .. (i - 1) : sorted'[j] = a
    BY <1>1, <1>2 DEF Ordered, SameInput, PhaseIds
  <2>1. i + 1 \in DOMAIN sorted /\ sorted'[i] = sorted[i + 1] /\ i \in Nat
    BY <1>4
  <2>2. a \in tried \/ \E j \in 1 .. i : sorted[j] = a
    BY <1>1, <2>1 DEF IInv, Core, Ordered
  <2>3. ASSUME NEW j \in 1 .. i, sorted[j] = a
        PROVE  a \in tried' \/ \E l \in 1 .. (i - 1) : sorted'[l] = a
    <3>1. CASE j = 1
      BY <1>1, <1>4, <2>3, <3>1
    <3>2. CASE j # 1
      <4>1. j - 1 \in 1 .. (i - 1) /\ sorted'[j - 1] = sorted[j]
        BY <1>4, <2>1, <3>2
      <4> QED BY <2>3, <4>1
    <3> QED BY <3>1, <3>2
  <2> QED BY <1>1, <2>2, <2>3
<1>10. CASE resolved' = resolved
  <2>1. Resolving'
    BY <1>1, <1>2, <1>10 DEF IInv, Core, Resolving, SameInput
  <2>2. Winners'
    <3> SUFFICES ASSUME NEW x \in DOMAIN resolved', resolved'[x] \in tried'
                 PROVE  Backed(resolved[x], resolved, tried)'
      BY DEF Winners
    <3>1. resolved[x] = e => resolved[x] \in tried
      BY <1>5, <1>10 DEF IInv, Core, Resolving
    <3>2. x \in DOMAIN resolved /\ resolved[x] \in tried
      BY <1>1, <1>10, <3>1
    <3>3. Backed(resolved[x], resolved, tried)
      BY <3>2 DEF IInv, Core, Winners
    <3>4. Backed(resolved[x], resolved, tried')
      BY <1>1, <3>3 DEF Backed
    <3>5. PICK d, m, T : d = resolved[x] /\ m = resolved /\ T = tried'
      OBVIOUS
    <3>6. Backed(d, m, T)
      BY <3>4, <3>5
    <3> QED BY <1>10, <3>5, <3>6
  <2>3. SetsOK' /\ Results'
    BY <1>1 DEF IInv, Core, SetsOK, Results
  <2> QED BY <1>6, <1>8, <1>9, <2>1, <2>2, <2>3 DEF IInv, Core
<1>11. CASE CheckAuth(e, resolved) /\ resolved' = Put(resolved, e)
  <2>1. /\ resolved' \in StateMaps /\ DOMAIN resolved' = DOMAIN resolved \cup {Tuple(e)}
        /\ resolved'[Tuple(e)] = e
        /\ \A x \in DOMAIN resolved \ {Tuple(e)} : resolved'[x] = resolved[x]
        /\ \A x : x # Tuple(e) => GetStateEvent(resolved', x) = GetStateEvent(resolved, x)
    BY <1>1, <1>3, <1>11, PutFacts
  <2>2. Resolving'
    <3>1. ASSUME NEW x \in DOMAIN resolved'
          PROVE  /\ Tuple(resolved'[x]) = x /\ resolved'[x] \in Named(x)
                 /\ resolved'[x] \in tried' \/ Agreed(x)
      <4>1. CASE x = Tuple(e)
        BY <1>1, <1>5, <2>1, <4>1
      <4>2. CASE x # Tuple(e)
        BY <1>1, <2>1, <4>2 DEF IInv, Core, Resolving
      <4> QED BY <4>1, <4>2
    <3>2. ASSUME NEW x \in AllTuples, Agreed(x)
          PROVE  x \in DOMAIN resolved' /\ resolved'[x] = Unconflicted[x]
      BY <1>5, <2>1, <3>2 DEF IInv, Core, Resolving
    <3>3. \A x \in DOMAIN resolved' : Tuple(resolved'[x]) = x
      BY <3>1
    <3> QED BY <1>2, <2>1, <3>1, <3>2 DEF Resolving, SameInput, Tuple
  <2>3. Winners'
    <3> SUFFICES ASSUME NEW x \in DOMAIN resolved', resolved'[x] \in tried'
                 PROVE  Backed(resolved[x], resolved, tried)'
      BY DEF Winners
    <3>1. PICK d, m, T : d = resolved'[x] /\ m = resolved /\ T = tried
      OBVIOUS
    <3>2. d \in Ids /\ m \in StateMaps
      BY <1>1, <1>3, <3>1, ConflictFacts DEF IInv, Core, Types
    <3>3. PhaseOf(d) <= PhaseOf(e)
      BY <1>1, <1>3, <3>1 DEF IInv, Core, Queued
    <3>4. Backed(d, m, T)
      <4>1. CASE x = Tuple(e)
        BY <1>1, <1>11, <2>1, <3>1, <4>1, PassedIsBacked
      <4>2. CASE x # Tuple(e)
        <5>1. x \in DOMAIN resolved /\ d = resolved[x]
          BY <2>1, <3>1, <4>2
        <5>2. d # e
          BY <4>2, <5>1 DEF IInv, Core, Resolving
        <5> QED BY <1>1, <3>1, <5>1, <5>2 DEF IInv, Core, Winners
      <4> QED BY <4>1, <4>2
    <3>5. Backed(d, Put(m, e), T \cup {e})
      BY <1>1, <3>2, <3>3, <3>4, BackedStays
    <3>6. PICK n, U : n = Put(m, e) /\ U = T \cup {e}
      OBVIOUS
    <3>7. n = resolved' /\ U = tried' /\ Backed(d, n, U)
      BY <1>1, <1>11, <3>1, <3>5, <3>6
    <3> QED BY <3>1, <3>7
  <2>5. SetsOK' /\ Results'
    BY <1>1 DEF IInv, Core, SetsOK, Results
  <2> QED BY <1>6, <1>8, <1>9, <2>2, <2>3, <2>5 DEF IInv, Core
<1> QED BY <1>1, <1>10, <1>11

LEMMA NextPhaseStep ==
  ASSUME IInv, NextPhase
  PROVE  IInv'
<1>1. /\ phase < 3 /\ ZeroDegree = {} /\ sorted = <<>> /\ phase' = phase + 1
      /\ todo' = PhaseIds(Conflicted, phase + 1)
      /\ UNCHANGED <<sets, sorted, resolved, plEvent, first, tried>>
  BY DEF NextPhase
<1>2. SameInput
  BY <1>1, SameSets
<1>3. phase \in 1 .. 2 /\ todo = {} /\ Range(sorted) = {}
  <2>1. todo = {}
    BY <1>1, ReadyFacts, ConflictFacts DEF IInv, Core, Types
  <2> QED BY <1>1, <2>1 DEF IInv, Core, Types, Range
<1>4. PhaseIds(Conflicted, phase) \subseteq tried
  BY <1>3 DEF IInv, Core, Queued
<1>5. Types'
  BY <1>1, <1>2, <1>3 DEF IInv, Core, Types, SameInput, PhaseIds
<1>6. Queued'
  <2>1. \A q \in 1 .. 3 : q < phase + 1 => PhaseIds(Conflicted, q) \subseteq tried
    BY <1>3, <1>4 DEF IInv, Core, Queued
  <2>2. \A e \in tried : PhaseOf(e) <= phase + 1
    BY <1>3, PhaseFacts DEF IInv, Core, Queued
  <2>3. Range(sorted') = {}
    BY <1>1, <1>3
  <2> QED BY <1>1, <1>2, <2>1, <2>2, <2>3 DEF Queued, SameInput, PhaseIds
<1>7. Ordered'
  BY <1>1 DEF Ordered
<1>8. Resolving'
  BY <1>1, <1>2 DEF IInv, Core, Resolving, SameInput
<1>9. SetsOK' /\ Winners'
  BY <1>1 DEF IInv, Core, SetsOK, Winners
<1>10. Results'
  BY <1>1, <1>3 DEF IInv, Results
<1> QED BY <1>5, <1>6, <1>7, <1>8, <1>9, <1>10 DEF IInv, Core

(* The first server's result is noted and the second begins, or the end. *)
LEMMA SecondRun ==
  ASSUME IInv, Return, first = <<>>
  PROVE  Core' /\ SameInput /\ Fresh'
<1>1. sets' = Reverse(sets) /\ Begin
  BY DEF Return
<1>2. SameInput /\ SetsOK'
  BY <1>1, ReversedSets DEF IInv, Core
<1>3. Fresh'
  BY <1>1 DEF Fresh, Begin, PhaseIds, GetStateEvent, PowerLevels
<1>4. SetsOK' /\ Fresh' => Core'
  BY StartHolds, PTL
<1> QED BY <1>2, <1>3, <1>4

LEMMA ReturnStep ==
  ASSUME IInv, Return
  PROVE  IInv'
<1>1. /\ phase = 3 /\ ZeroDegree = {} /\ sorted = <<>>
      /\ first' = Append(first, resolved)
  BY DEF Return
<1>2. /\ first \in Seq(StateMaps) /\ resolved \in StateMaps /\ Len(first) \in 0 .. 1
  BY <1>1, LenProperties DEF IInv, Core, Results, Resolving
<1>3. first' \in Seq(StateMaps) /\ Len(first') = Len(first) + 1
  BY <1>1, <1>2, AppendProperties
<1>7. PICK n \in 0 .. 1 : n = Len(first) /\ Len(first') = n + 1
  BY <1>2, <1>3
<1>6. StateMaps' = StateMaps
  BY DEF StateMaps, Tuples, Tuple, Ids
<1>4. CASE first = <<>>
  <2>1. Core' /\ Fresh'
    BY <1>4, SecondRun
  <2>2. Len(first') = 1
    BY <1>3, <1>4, EmptySeq
  <2>3. Results'
    <3>1. Len(first') <= 2 /\ Len(first') <= 1
      BY <2>2
    <3>2. first' \in Seq(StateMaps')
      BY <1>3, <1>6
    <3> QED BY <3>1, <3>2 DEF Results
  <2> QED BY <2>1, <2>3 DEF IInv
<1>5. CASE first # <<>>
  <2>1. phase' = 4 /\ UNCHANGED <<sets, todo, sorted, resolved, plEvent, tried>>
    BY <1>5 DEF Return
  <2>2. SameInput
    BY <2>1, SameSets
  <2>3. todo = {} /\ Range(sorted) = {}
    <3>1. todo = {}
      BY <1>1, ReadyFacts, ConflictFacts DEF IInv, Core, Types
    <3> QED BY <1>1, <3>1 DEF Range
  <2>4. PhaseIds(Conflicted, 3) \subseteq tried
    BY <1>1, <2>3 DEF IInv, Core, Queued
  <2>5. Types'
    BY <2>1, <2>2 DEF IInv, Core, Types, SameInput
  <2>6. Queued'
    <3>1. \A q \in 1 .. 3 : PhaseIds(Conflicted, q) \subseteq tried
      BY <1>1, <2>4 DEF IInv, Core, Queued
    <3>2. \A e \in tried : PhaseOf(e) <= 4
      BY PhaseFacts
    <3> QED BY <2>1, <2>2, <3>1, <3>2 DEF Queued, SameInput, PhaseIds
  <2>7. Ordered'
    BY <2>1 DEF Ordered
  <2>8. Resolving'
    BY <2>1, <2>2 DEF IInv, Core, Resolving, SameInput
  <2>9. SetsOK' /\ Winners'
    BY <2>1 DEF IInv, Core, SetsOK, Winners
  <2>10. Results'
    <3>1. Len(first') <= 2
      BY <1>7
    <3>2. ~(phase' < 4)
      BY <2>1
    <3>3. first' \in Seq(StateMaps')
      BY <1>3, <1>6
    <3> QED BY <3>1, <3>2, <3>3 DEF Results
  <2> QED BY <2>5, <2>6, <2>7, <2>8, <2>9, <2>10 DEF IInv, Core
<1> QED BY <1>4, <1>5

LEMMA InitHolds == Init => IInv
<1> SUFFICES ASSUME Init PROVE IInv
  OBVIOUS
<1>1. SetsOK
  BY InputAssumption DEF Init, SetsOK
<1>2. Fresh
  BY DEF Init, Fresh
<1>3. Results
  BY EmptySeq DEF Init, Results
<1> QED BY <1>1, <1>2, <1>3, StartHolds DEF IInv

LEMMA Stutter == IInv /\ UNCHANGED vars => IInv'
<1> SUFFICES ASSUME IInv, UNCHANGED vars PROVE IInv'
  OBVIOUS
<1>1. SameInput
  BY SameSets DEF vars
<1>2. Types' /\ SetsOK' /\ Resolving' /\ Results'
  BY <1>1 DEF vars, IInv, Core, Types, SetsOK, Resolving, Results, SameInput
<1>3. Queued' /\ Ordered'
  BY <1>1 DEF vars, IInv, Core, Queued, Ordered, SameInput, PhaseIds
<1>4. Winners'
  BY DEF vars, IInv, Core, Winners
<1> QED BY <1>2, <1>3, <1>4 DEF IInv, Core

(* IInv holds in every state of every resolution. *)
THEOREM Invariance == Spec => []IInv
<1>1. IInv /\ [Next]_vars => IInv'
  BY SortStep, ApplyStep, NextPhaseStep, ReturnStep, Stutter DEF Next
<1> QED BY <1>1, InitHolds, PTL DEF Spec

-----------------------------------------------------------------------------
(* Queues and the state map hold events of the input only. *)
THEOREM TypeCorrect == Spec => []TypeOK
<1>1. IInv => TypeOK
  BY DEF IInv, Core, Types, Resolving, Results, TypeOK
<1> QED BY <1>1, Invariance, PTL

(***************************************************************************)
(* The resolved state authorizes itself: a winner of the last two phases   *)
(* keeps what it was allowed by, but for a third-party invite's sender,    *)
(* whose membership may be replaced while it is itself in conflict.        *)
(***************************************************************************)
THEOREM WinnersStayAuthorized == Spec => []WinnersAuthorized
<1>1. IInv => WinnersAuthorized
  BY DEF IInv, Core, Winners, WinnersAuthorized
<1> QED BY <1>1, Invariance, PTL

(* Agreed state survives the conflicts, and every conflicted event is tried. *)
THEOREM AgreedStateSurvives == Spec => []AgreedStateKept
<1>1. IInv => AgreedStateKept
  <2> SUFFICES ASSUME IInv PROVE AgreedStateKept
    OBVIOUS
  <2>1. SetsOK
    BY DEF IInv, Core
  <2>2. ASSUME NEW x \in AllTuples,
               \A i \in DOMAIN sets : x \in DOMAIN sets[i] /\ sets[i][x] = sets[1][x]
        PROVE  x \in DOMAIN resolved /\ resolved[x] = sets[1][x]
    <3>1. Agreed(x) /\ Unconflicted[x] = sets[1][x]
      BY <2>1, <2>2, AgreedFacts
    <3> QED BY <3>1 DEF IInv, Core, Resolving
  <2>3. ASSUME phase = 4, NEW i \in DOMAIN sets, NEW x \in DOMAIN sets[i]
        PROVE  sets[i][x] \in tried \/ GetStateEvent(resolved, x) = sets[i][x]
    <3>1. PICK e : e = sets[i][x]
      OBVIOUS
    <3>2. x \in AllTuples /\ e \in Named(x)
      BY <3>1 DEF AllTuples, Named
    <3>3. CASE Agreed(x)
      <4>1. x \in DOMAIN resolved /\ resolved[x] = Unconflicted[x]
        BY <3>2, <3>3 DEF IInv, Core, Resolving
      <4>2. e = Unconflicted[x]
        BY <2>1, <3>2, <3>3, AgreedFacts
      <4> QED BY <3>1, <4>1, <4>2 DEF GetStateEvent
    <3>4. CASE ~Agreed(x)
      <4>1. e \in Conflicted /\ e \in Ids
        BY <2>1, <3>2, <3>4, ConflictFacts
      <4>2. PICK q \in 1 .. 3 : PhaseOf(e) = q
        BY PhaseFacts
      <4>3. e \in PhaseIds(Conflicted, q)
        BY <4>1, <4>2 DEF PhaseIds
      <4>4. e \in tried
        BY <2>3, <4>3 DEF IInv, Core, Queued
      <4> QED BY <3>1, <4>4
    <3> QED BY <3>3, <3>4
  <2> QED BY <2>2, <2>3 DEF AgreedStateKept
<1> QED BY <1>1, Invariance, PTL

(* An event is tried after the events of its phase that authorize it. *)
THEOREM AuthorizersComeFirst == Spec => AuthFirst
<1> DEFINE Good == \A e \in tried' \ tried :
                     \A a \in Event[e].auths \cap Conflicted :
                       PhaseOf(a) = phase => a \in tried
<1>1. ASSUME IInv, [Next]_vars PROVE Good
  <2>1. CASE Apply
    <3>1. PICK e \in PhaseIds(Conflicted, phase) :
                 /\ sorted # <<>> /\ e = Head(sorted) /\ phase \in 1 .. 3
                 /\ tried' = tried \cup {e}
      BY <1>1, <2>1, ApplyFacts
    <3>2. e = sorted[1] /\ 1 \in DOMAIN sorted
      BY <1>1, <3>1, TailFacts DEF IInv, Core, Types
    <3>3. \A a \in Event[e].auths \cap PhaseIds(Conflicted, phase) : a \in tried
      BY <1>1, <3>1, <3>2 DEF IInv, Core, Ordered
    <3> QED BY <3>1, <3>3 DEF PhaseIds
  <2>2. CASE SortNext \/ NextPhase \/ UNCHANGED vars
    BY <2>2 DEF SortNext, NextPhase, vars
  <2>3. CASE Return
    BY <2>3 DEF Return, Begin
  <2> QED BY <1>1, <2>1, <2>2, <2>3 DEF Next
<1> QED BY <1>1, Invariance, PTL DEF Spec, AuthFirst

-----------------------------------------------------------------------------
(***************************************************************************)
(* Two servers end alike.  First the general fact: where every element has *)
(* at most one successor, a start reaches at most one end.                 *)
(***************************************************************************)

Closed(R, X) == \A a, b : <<a, b>> \in R /\ a \in X => b \in X
Reach(S, R, s) == {r \in S : \A X \in SUBSET S : s \in X /\ Closed(R, X) => r \in X}
Terminal(R, r) == \A b : <<r, b>> \notin R
Deterministic(R) == \A a, b, c : <<a, b>> \in R /\ <<a, c>> \in R => b = c

LEMMA ReachFacts ==
  ASSUME NEW S, NEW R \in SUBSET (S \X S), NEW s \in S
  PROVE  s \in Reach(S, R, s) /\ Reach(S, R, s) \subseteq S /\ Closed(R, Reach(S, R, s))
<1>1. ASSUME NEW a, NEW b, <<a, b>> \in R, a \in Reach(S, R, s)
      PROVE  b \in Reach(S, R, s)
  <2>1. b \in S
    BY <1>1
  <2>2. ASSUME NEW X \in SUBSET S, s \in X, Closed(R, X) PROVE b \in X
    <3>1. a \in X
      BY <1>1, <2>2 DEF Reach
    <3> QED BY <1>1, <2>2, <3>1 DEF Closed
  <2> QED BY <2>1, <2>2 DEF Reach
<1>2. Closed(R, Reach(S, R, s))
  BY <1>1 DEF Closed
<1> QED BY <1>2 DEF Reach

LEMMA OneEnd ==
  ASSUME NEW S, NEW R \in SUBSET (S \X S), Deterministic(R), NEW s \in S,
         NEW f \in Reach(S, R, s), NEW g \in Reach(S, R, s), Terminal(R, f), Terminal(R, g)
  PROVE  f = g
<1>1. PICK X : X = {r \in S : f \in Reach(S, R, r)}
  OBVIOUS
<1>2. f \in S /\ g \in S /\ s \in X
  BY <1>1 DEF Reach
<1>3. Closed(R, X)
  <2> SUFFICES ASSUME NEW a, NEW b, <<a, b>> \in R, a \in X PROVE b \in X
    BY DEF Closed
  <2>1. a # f /\ a \in S /\ b \in S /\ f \in Reach(S, R, a)
    BY <1>1 DEF Terminal
  <2>2. ASSUME NEW Y \in SUBSET S, b \in Y, Closed(R, Y) PROVE f \in Y
    <3>1. PICK Z \in SUBSET S : Z = Y \cup {a}
      BY <2>1
    <3>2. Closed(R, Z)
      BY <2>2, <3>1 DEF Closed, Deterministic
    <3>3. f \in Z
      BY <2>1, <3>1, <3>2 DEF Reach
    <3> QED BY <2>1, <3>1, <3>3
  <2>3. f \in Reach(S, R, b)
    BY <1>2, <2>2 DEF Reach
  <2> QED BY <1>1, <2>1, <2>3
<1>4. g \in X
  BY <1>1, <1>2, <1>3 DEF Reach
<1>5. f \in Reach(S, R, g)
  BY <1>1, <1>4
<1>6. Closed(R, {g})
  BY DEF Closed, Terminal
<1>7. {g} \in SUBSET S
  BY <1>2
<1> QED BY <1>5, <1>6, <1>7 DEF Reach

(***************************************************************************)
(* The states of one call of Resolve, and its moves.                       *)
(***************************************************************************)
Runs == [phase : 1 .. 3, todo : SUBSET Ids, sorted : Seq(Ids),
         resolved : StateMaps, pl : Ids \cup {NoEvent}]

Ready(t) == {e \in t : Event[e].auths \cap t = {}}

Level(pl, u) == IF pl = NoEvent THEN 0 ELSE LevelIn(pl, u)

(* Before, for power levels that are given. *)
GoesFirst(pl, a, b) ==
  LET pa == Level(pl, Event[a].sender)
      pb == Level(pl, Event[b].sender)
  IN  \/ pa > pb
      \/ pa = pb /\ Event[a].ts < Event[b].ts
      \/ pa = pb /\ Event[a].ts = Event[b].ts /\ a < b

Sorts(a, b) ==
  /\ \E e \in Ready(a.todo) :
       /\ \A x \in Ready(a.todo) \ {e} : ~GoesFirst(a.pl, x, e)
       /\ b.todo = a.todo \ {e} /\ b.sorted = Append(a.sorted, e)
  /\ b.phase = a.phase /\ b.resolved = a.resolved /\ b.pl = a.pl

Tries(a, b) ==
  /\ Ready(a.todo) = {} /\ a.sorted # <<>>
  /\ \E e \in Ids :
       /\ e = Head(a.sorted)
       /\ \/ /\ CheckAuth(e, a.resolved) /\ b.resolved = Put(a.resolved, e)
             /\ b.pl = IF Tuple(e) = PowerLevels THEN e ELSE a.pl
          \/ ~CheckAuth(e, a.resolved) /\ b.resolved = a.resolved /\ b.pl = a.pl
  /\ b.phase = a.phase /\ b.todo = a.todo /\ b.sorted = Tail(a.sorted)

Advances(C, a, b) ==
  /\ Ready(a.todo) = {} /\ a.sorted = <<>> /\ a.phase < 3
  /\ b.phase = a.phase + 1 /\ b.todo = PhaseIds(C, a.phase + 1)
  /\ b.sorted = a.sorted /\ b.resolved = a.resolved /\ b.pl = a.pl

Move(C, a, b) == Sorts(a, b) \/ Tries(a, b) \/ Advances(C, a, b)
Moves(C) == {p \in Runs \X Runs : Move(C, p[1], p[2])}

LEMMA MovesFacts ==
  ASSUME NEW C
  PROVE  /\ Moves(C) \in SUBSET (Runs \X Runs)
         /\ \A a, b : <<a, b>> \in Moves(C) <=> a \in Runs /\ b \in Runs /\ Move(C, a, b)
BY DEF Moves

(* Level, time and id order any two events. *)
LEMMA OrderIsTotal ==
  ASSUME NEW pl \in Ids \cup {NoEvent}, NEW a \in Ids, NEW b \in Ids,
         ~GoesFirst(pl, a, b), ~GoesFirst(pl, b, a)
  PROVE  a = b
<1>1. \A u : Level(pl, u) \in Int
  BY EventAssumption DEF Level, LevelIn
<1>2. PICK x \in Int, y \in Int : x = Level(pl, Event[a].sender) /\ y = Level(pl, Event[b].sender)
  BY <1>1
<1>3. Event[a].ts \in Int /\ Event[b].ts \in Int /\ a \in Nat /\ b \in Nat
  BY EventAssumption
<1>4. PICK ta \in Int, tb \in Int : ta = Event[a].ts /\ tb = Event[b].ts
  BY <1>3
<1>5. /\ ~(x > y) /\ ~(y > x)
      /\ ~(x = y /\ ta < tb) /\ ~(x = y /\ tb < ta)
      /\ ~(x = y /\ ta = tb /\ a < b) /\ ~(x = y /\ tb = ta /\ b < a)
  BY <1>2, <1>4 DEF GoesFirst
<1> QED BY <1>3, <1>5

LEMMA MovesAreDeterministic ==
  ASSUME NEW C
  PROVE  Deterministic(Moves(C))
<1> SUFFICES ASSUME NEW a \in Runs, NEW b \in Runs, NEW c \in Runs, Move(C, a, b), Move(C, a, c)
             PROVE  b = c
  BY MovesFacts DEF Deterministic
<1>1. /\ a.todo \in SUBSET Ids /\ a.pl \in Ids \cup {NoEvent} /\ a.phase \in 1 .. 3
  BY DEF Runs
<1>2. /\ b.phase = c.phase /\ b.todo = c.todo /\ b.sorted = c.sorted
      /\ b.resolved = c.resolved /\ b.pl = c.pl
  <2>1. CASE Sorts(a, b)
    <3>1. PICK e \in Ready(a.todo) :
            /\ \A x \in Ready(a.todo) \ {e} : ~GoesFirst(a.pl, x, e)
            /\ b.todo = a.todo \ {e} /\ b.sorted = Append(a.sorted, e)
      BY <2>1 DEF Sorts
    <3>2. Sorts(a, c)
      BY <3>1 DEF Move, Tries, Advances
    <3>3. PICK d \in Ready(a.todo) :
            /\ \A x \in Ready(a.todo) \ {d} : ~GoesFirst(a.pl, x, d)
            /\ c.todo = a.todo \ {d} /\ c.sorted = Append(a.sorted, d)
      BY <3>2 DEF Sorts
    <3>4. e \in Ids /\ d \in Ids
      BY <1>1, <3>1, <3>3 DEF Ready
    <3>5. d = e
      BY <1>1, <3>1, <3>3, <3>4, OrderIsTotal
    <3> QED BY <2>1, <3>1, <3>2, <3>3, <3>5 DEF Sorts
  <2>2. CASE Tries(a, b)
    <3>1. Tries(a, c)
      BY <2>2 DEF Move, Sorts, Tries, Advances
    <3> QED BY <2>2, <3>1 DEF Tries
  <2>3. CASE Advances(C, a, b)
    <3>1. Advances(C, a, c)
      BY <2>3 DEF Move, Sorts, Tries, Advances
    <3> QED BY <2>3, <3>1 DEF Advances
  <2> QED BY <2>1, <2>2, <2>3 DEF Move
<1> QED BY <1>2 DEF Runs

(* The run under way, and where it and the one before it started. *)
Run == [phase |-> phase, todo |-> todo, sorted |-> sorted,
        resolved |-> resolved, pl |-> plEvent]
Start(C, U) == [phase |-> 1, todo |-> PhaseIds(C, 1), sorted |-> <<>>,
                resolved |-> U, pl |-> GetStateEvent(U, PowerLevels)]
Reached(C, U) == Reach(Runs, Moves(C), Start(C, U))

OnTheWay == phase <= 3 => Run \in Reached(Conflicted, Unconflicted)
Ends ==
  \A i \in DOMAIN first :
    \E r \in Reached(Conflicted, Unconflicted) :
      Terminal(Moves(Conflicted), r) /\ r.resolved = first[i]
Started == Start(Conflicted, Unconflicted) \in Runs
TrackInv == IInv /\ Started /\ OnTheWay /\ Ends

LEMMA RunTyped ==
  ASSUME IInv, phase <= 3
  PROVE  Run \in Runs
<1>1. Conflicted \subseteq Ids
  BY ConflictFacts DEF IInv, Core
<1>2. sorted \in Seq(Ids)
  BY <1>1, SeqDef DEF IInv, Core, Types
<1> QED BY <1>1, <1>2 DEF Run, Runs, IInv, Core, Types, Resolving

LEMMA FreshStarts ==
  ASSUME IInv, Fresh
  PROVE  Run = Start(Conflicted, Unconflicted) /\ Started /\ OnTheWay
<1>1. Run = Start(Conflicted, Unconflicted)
  BY DEF Fresh, Run, Start
<1>2. Started
  BY <1>1, RunTyped DEF Started, Fresh
<1>3. OnTheWay
  BY <1>1, <1>2, MovesFacts, ReachFacts DEF OnTheWay, Reached, Started
<1> QED BY <1>1, <1>2, <1>3

(* A step within a run is a move. *)
LEMMA StepIsMove ==
  ASSUME IInv, IInv', SortNext \/ Apply \/ NextPhase
  PROVE  /\ <<Run, Run'>> \in Moves(Conflicted) /\ phase <= 3 /\ phase' <= 3
         /\ sets' = sets /\ first' = first
<1>1. phase <= 3 /\ phase' <= 3 /\ sets' = sets /\ first' = first
  BY DEF SortNext, Apply, NextPhase, IInv, Core, Types
<1>2. Run \in Runs
  BY <1>1, RunTyped
<1>3. IInv' /\ (phase <= 3)' => (Run \in Runs)'
  BY RunTyped, PTL
<1>4. Run' \in Runs
  <2>1. (Run \in Runs)'
    BY <1>1, <1>3
  <2> QED BY <2>1 DEF Runs, StateMaps, Tuples, Tuple, Ids
<1>5. PICK a, b : a = Run /\ b = Run'
  OBVIOUS
<1>6. /\ a.phase = phase /\ a.todo = todo /\ a.sorted = sorted
      /\ a.resolved = resolved /\ a.pl = plEvent
      /\ b.phase = phase' /\ b.todo = todo' /\ b.sorted = sorted'
      /\ b.resolved = resolved' /\ b.pl = plEvent'
  BY <1>5 DEF Run
<1>7. Ready(todo) = ZeroDegree
  BY DEF Ready, ZeroDegree
<1>8. Move(Conflicted, a, b)
  <2>1. CASE SortNext
    <3>1. \A x, e : GoesFirst(plEvent, x, e) <=> Before(x, e)
      BY DEF GoesFirst, Before, Level, GetEffectivePowerLevel
    <3> QED BY <1>6, <1>7, <2>1, <3>1 DEF SortNext, Move, Sorts
  <2>2. CASE Apply
    <3>1. ZeroDegree = {}
      BY <2>2 DEF Apply
    <3>2. Tries(a, b)
      BY <1>6, <1>7, <2>2, <3>1, ApplyFacts DEF Tries
    <3> QED BY <3>2 DEF Move
  <2>3. CASE NextPhase
    BY <1>6, <1>7, <2>3 DEF NextPhase, Move, Advances
  <2> QED BY <2>1, <2>2, <2>3
<1>9. <<a, b>> \in Moves(Conflicted)
  BY <1>2, <1>4, <1>5, <1>8, MovesFacts
<1> QED BY <1>1, <1>5, <1>9

(* A run that can return has no move left. *)
LEMMA ReturnIsEnd ==
  ASSUME IInv, Return
  PROVE  Terminal(Moves(Conflicted), Run)
<1>1. PICK a : a = Run
  OBVIOUS
<1>2. a.phase = 3 /\ Ready(a.todo) = {} /\ a.sorted = <<>>
  BY <1>1 DEF Return, Run, Ready, ZeroDegree
<1>3. \A b : ~Move(Conflicted, a, b)
  BY <1>2 DEF Move, Sorts, Tries, Advances
<1> QED BY <1>1, <1>3, MovesFacts DEF Terminal

(* What does not depend on the run stays with the input. *)
LEMMA SameReached ==
  ASSUME SameInput
  PROVE  /\ Reached(Conflicted, Unconflicted)' = Reached(Conflicted, Unconflicted)
         /\ Moves(Conflicted)' = Moves(Conflicted)
         /\ Started' <=> Started
<1>1. PICK C, U : C = Conflicted /\ U = Unconflicted
  OBVIOUS
<1>2. C = Conflicted' /\ U = Unconflicted'
  BY <1>1 DEF SameInput
<1>3. Reached(Conflicted, Unconflicted)' = Reached(C, U) /\ Moves(Conflicted)' = Moves(C)
  BY <1>2
<1>4. Started' <=> Start(C, U) \in Runs
  BY <1>2 DEF Started
<1> QED BY <1>1, <1>3, <1>4 DEF Started

LEMMA FreshTracked == IInv /\ Fresh => Started /\ OnTheWay
BY FreshStarts

LEMMA TrackStep ==
  ASSUME TrackInv, IInv', [Next]_vars
  PROVE  TrackInv'
<1> DEFINE R == Reached(Conflicted, Unconflicted)
<1>1. IInv /\ Started /\ OnTheWay /\ Ends
  BY DEF TrackInv
<1>2. ASSUME SameInput, first' = first PROVE Ends' /\ Started'
  BY <1>1, <1>2, SameReached DEF Ends
<1>3. CASE SortNext \/ Apply \/ NextPhase
  <2>1. /\ <<Run, Run'>> \in Moves(Conflicted) /\ phase <= 3 /\ phase' <= 3
        /\ sets' = sets /\ first' = first
    BY <1>1, <1>3, StepIsMove
  <2>2. SameInput
    BY <2>1, SameSets
  <2>3. Run \in R
    BY <1>1, <2>1 DEF OnTheWay
  <2>4. Run' \in R
    BY <1>1, <2>1, <2>3, MovesFacts, ReachFacts DEF Reached, Closed, Started
  <2>5. OnTheWay'
    BY <2>2, <2>4, SameReached DEF OnTheWay
  <2> QED BY <1>2, <2>1, <2>2, <2>5 DEF TrackInv
<1>4. CASE Return
  <2>1. phase = 3 /\ first' = Append(first, resolved)
    BY <1>4 DEF Return
  <2>2. Run \in R /\ Terminal(Moves(Conflicted), Run) /\ Run.resolved = resolved
    BY <1>1, <1>4, <2>1, ReturnIsEnd DEF OnTheWay, Run
  <2>3. first \in Seq(StateMaps) /\ resolved \in StateMaps
    BY <1>1 DEF IInv, Core, Results, Resolving
  <2>4. /\ DOMAIN first' = 1 .. Len(first) + 1 /\ DOMAIN first = 1 .. Len(first)
        /\ Len(first) \in Nat /\ first'[Len(first) + 1] = resolved
        /\ \A i \in 1 .. Len(first) : first'[i] = first[i]
    BY <2>1, <2>3, AppendFacts
  <2>5. ASSUME NEW i \in DOMAIN first'
        PROVE  \E r \in R : Terminal(Moves(Conflicted), r) /\ r.resolved = first'[i]
    <3>1. CASE i \in DOMAIN first
      BY <1>1, <2>4, <3>1 DEF Ends
    <3>2. CASE i = Len(first) + 1
      BY <2>2, <2>4, <3>2
    <3> QED BY <2>4, <3>1, <3>2
  <2>6. SameInput /\ Started' /\ OnTheWay'
    <3>1. CASE first = <<>>
      <4>1. SameInput /\ Fresh'
        BY <1>1, <1>4, <3>1, SecondRun
      <4>2. IInv' /\ Fresh' => Started' /\ OnTheWay'
        BY FreshTracked, PTL
      <4> QED BY <4>1, <4>2
    <3>2. CASE first # <<>>
      <4>1. phase' = 4 /\ sets' = sets
        BY <1>4, <3>2 DEF Return
      <4>2. SameInput
        BY <4>1, SameSets
      <4> QED BY <1>1, <4>1, <4>2, SameReached DEF OnTheWay
    <3> QED BY <3>1, <3>2
  <2>7. Ends'
    BY <2>5, <2>6, SameReached DEF Ends
  <2> QED BY <2>6, <2>7 DEF TrackInv
<1>5. CASE UNCHANGED vars
  <2>1. SameInput /\ first' = first
    BY <1>5, SameSets DEF vars
  <2>2. Run' = Run /\ phase' = phase
    BY <1>5 DEF vars, Run
  <2>3. OnTheWay'
    BY <1>1, <2>1, <2>2, SameReached DEF OnTheWay
  <2> QED BY <1>2, <2>1, <2>3 DEF TrackInv
<1> QED BY <1>3, <1>4, <1>5 DEF Next

LEMMA TrackInit == Init => TrackInv
<1> SUFFICES ASSUME Init PROVE TrackInv
  OBVIOUS
<1>1. IInv /\ Fresh
  BY InitHolds DEF Init, Fresh
<1>2. Ends
  BY DEF Init, Ends
<1> QED BY <1>1, <1>2, FreshTracked DEF TrackInv

(***************************************************************************)
(* Two servers that resolve the same maps, in whatever order, and walk     *)
(* over their Go maps in whatever order, come to the same state.           *)
(***************************************************************************)
THEOREM ServersConverge == Spec => []ServersAgree
<1>1. TrackInv => ServersAgree
  <2> SUFFICES ASSUME TrackInv, Len(first) = 2 PROVE first[1] = first[2]
    BY DEF ServersAgree
  <2>1. 1 \in DOMAIN first /\ 2 \in DOMAIN first
    BY LenProperties DEF TrackInv, IInv, Results
  <2>2. PICK f \in Reached(Conflicted, Unconflicted) :
          Terminal(Moves(Conflicted), f) /\ f.resolved = first[1]
    BY <2>1 DEF TrackInv, Ends
  <2>3. PICK g \in Reached(Conflicted, Unconflicted) :
          Terminal(Moves(Conflicted), g) /\ g.resolved = first[2]
    BY <2>1 DEF TrackInv, Ends
  <2>4. PICK R, s : R = Moves(Conflicted) /\ s = Start(Conflicted, Unconflicted) /\ s \in Runs
    BY DEF TrackInv, Started
  <2>5. R \in SUBSET (Runs \X Runs) /\ Deterministic(R)
    BY <2>4, MovesFacts, MovesAreDeterministic
  <2>6. f \in Reach(Runs, R, s) /\ g \in Reach(Runs, R, s)
    BY <2>2, <2>3, <2>4 DEF Reached
  <2>7. f = g
    BY <2>2, <2>3, <2>4, <2>5, <2>6, OneEnd
  <2> QED BY <2>2, <2>3, <2>7
<1>2. TrackInv /\ IInv' /\ [Next]_vars => TrackInv'
  BY TrackStep
<1> QED BY <1>1, <1>2, TrackInit, Invariance, PTL DEF Spec

=============================================================================
