--------------------------- MODULE SessionsProofs ---------------------------
(***************************************************************************)
(* Proofs about Sessions, for any users, devices and concurrent requests.  *)
(*                                                                         *)
(* TypeOK and LogoutEndsSession are not inductive: a refresh that has read *)
(* its row writes it later, and a registration has still to insert the     *)
(* profile.  IInv adds what such a request may rely on.                    *)
(***************************************************************************)
EXTENDS Sessions, TLAPS

(* A registration inserts the profile of a user that it has inserted. *)
Registered ==
  \A t \in Threads : req[t].pc = "profile" => Owner[req[t].device] \in usuario

(* A refresh of a logged out device read the row before the logout wrote it, *)
(* or the device was revived before.                                         *)
ReadBefore ==
  \A t \in Threads :
    req[t].pc = "rotate" /\ req[t].device \in out =>
      req[t].stale \/ req[t].device \in raced

IInv == TypeOK /\ LogoutEndsSession /\ Registered /\ ReadBefore

LEMMA IdleFacts == Idle \in Request /\ Idle.pc = "idle"
<1>1. (CHOOSE d \in Devices : TRUE) \in Devices
  BY SessionsAssumption
<1> QED BY <1>1 DEF Idle, Request, Steps, Tokens

LEMMA EnterFacts ==
  ASSUME IInv, NEW t \in Threads, NEW step \in Steps, NEW d \in Devices,
         NEW k \in Tokens, Enter(t, step, d, k)
  PROVE  /\ req' \in [Threads -> Request]
         /\ req'[t] = [pc |-> step, device |-> d, token |-> k, stale |-> FALSE]
         /\ \A x \in Threads \ {t} : req'[x] = req[x]
BY DEF IInv, TypeOK, Enter, Request

LEMMA LeaveFacts ==
  ASSUME IInv, NEW t \in Threads, Leave(t)
  PROVE  /\ req' \in [Threads -> Request]
         /\ req'[t].pc = "idle"
         /\ \A x \in Threads \ {t} : req'[x] = req[x]
BY IdleFacts DEF IInv, TypeOK, Leave

LEMMA LeaveStaleFacts ==
  ASSUME IInv, NEW t \in Threads, LeaveStale(t)
  PROVE  /\ req' \in [Threads -> Request]
         /\ req'[t].pc = "idle"
         /\ \A x \in Threads \ {t} :
              /\ req'[x].pc = req[x].pc
              /\ req'[x].device = req[x].device
              /\ req'[x].token = req[x].token
              /\ req'[x].stale = (req[x].stale \/ req[x].device = req[t].device)
<1>1. \A x \in Threads : req[x] \in Request
  BY DEF IInv, TypeOK
<1>2. \A x \in Threads :
        req'[x] = IF x = t THEN Idle
                  ELSE [req[x] EXCEPT !.stale = @ \/ req[x].device = req[t].device]
  BY DEF LeaveStale
<1>3. ASSUME NEW x \in Threads \ {t}
      PROVE  /\ req'[x].pc = req[x].pc
             /\ req'[x].device = req[x].device
             /\ req'[x].token = req[x].token
             /\ req'[x].stale = (req[x].stale \/ req[x].device = req[t].device)
             /\ req'[x] \in Request
  <2> DEFINE b == req[x].stale \/ req[x].device = req[t].device
  <2>1. b \in BOOLEAN
    OBVIOUS
  <2>2. req'[x] = [req[x] EXCEPT !.stale = b]
    BY <1>2
  <2> HIDE DEF b
  <2>3. req[x] \in Request
    BY <1>1
  <2>4. /\ req'[x].pc = req[x].pc /\ req'[x].device = req[x].device
        /\ req'[x].token = req[x].token /\ req'[x].stale = b
        /\ req'[x] \in Request
    BY <2>1, <2>2, <2>3 DEF Request
  <2> QED BY <2>4 DEF b
<1>4. req'[t] = Idle
  BY <1>2
<1>5. \A x \in Threads : req'[x] \in Request
  BY <1>3, <1>4, IdleFacts
<1> QED BY <1>3, <1>4, <1>5, IdleFacts DEF LeaveStale

(* The three writes of a device row. *)
LEMMA PutFacts ==
  ASSUME IInv, NEW d \in Devices, NEW k \in Tokens, NEW e \in BOOLEAN,
         k < nextToken' ,
         \/ e = FALSE /\ UpsertDispositivo(d, k)
         \/ d \in DOMAIN dispositivo /\ UpdateDevice(d, k, e),
         nextToken' = nextToken \/ nextToken' = nextToken + 1
  PROVE  /\ DOMAIN dispositivo' = DOMAIN dispositivo \cup {d}
         /\ dispositivo'[d] = [token |-> k, expired |-> e]
         /\ \A x \in DOMAIN dispositivo \ {d} : dispositivo'[x] = dispositivo[x]
         /\ \A x \in DOMAIN dispositivo' :
              dispositivo'[x] \in Linha /\ dispositivo'[x].token < nextToken'
<1>1. /\ DOMAIN dispositivo' = DOMAIN dispositivo \cup {d}
      /\ dispositivo'[d] = [token |-> k, expired |-> e]
      /\ \A x \in DOMAIN dispositivo \ {d} : dispositivo'[x] = dispositivo[x]
  BY DEF UpsertDispositivo, UpdateDevice
<1>2. ASSUME NEW x \in DOMAIN dispositivo
      PROVE  dispositivo[x] \in Linha /\ dispositivo[x].token < nextToken'
  <2>1. dispositivo[x] \in Linha /\ dispositivo[x].token < nextToken
    BY DEF IInv, TypeOK
  <2>2. dispositivo[x].token \in Nat /\ nextToken \in Nat
    BY <2>1 DEF IInv, TypeOK, Linha, Tokens
  <2> QED BY <2>1, <2>2
<1>3. [token |-> k, expired |-> e] \in Linha
  BY DEF Linha
<1>4. dispositivo'[d].token = k
  BY <1>1
<1> QED BY <1>1, <1>2, <1>3, <1>4

LEMMA InitIInv == Init => IInv
<1> SUFFICES ASSUME Init PROVE IInv
  OBVIOUS
<1>1. req \in [Threads -> Request] /\ \A t \in Threads : req[t].pc = "idle"
  BY IdleFacts DEF Init
<1>2. TypeOK
  BY <1>1 DEF Init, TypeOK, Tokens
<1> QED BY <1>1, <1>2 DEF Init, IInv, LogoutEndsSession, Registered, ReadBefore

(***************************************************************************)
(* Steps that leave the device rows alone.                                 *)
(***************************************************************************)
LEMMA QuietStep ==
  ASSUME IInv, NEW t \in Threads,
         UNCHANGED <<dispositivo, nextToken, out, raced>>,
         access' \subseteq access, usuario \subseteq usuario',
         usuario' \subseteq Users, profile' \subseteq usuario',
         req' \in [Threads -> Request],
         \A x \in Threads \ {t} : req'[x] = req[x],
         req'[t].pc \in {"idle", "login"}
           \/ (req'[t].pc = "profile" /\ Owner[req'[t].device] \in usuario')
           \/ /\ req'[t].pc \in {"rotate", "expire"}
              /\ req'[t].device \in DOMAIN dispositivo
              /\ req'[t].token < nextToken
              /\ req'[t].pc = "rotate" => ~dispositivo[req'[t].device].expired
  PROVE  IInv'
<1>1. TypeOK'
  BY DEF IInv, TypeOK
<1>2. LogoutEndsSession'
  BY DEF IInv, LogoutEndsSession
<1>3. Registered'
  BY DEF IInv, Registered
<1>4. ReadBefore'
  BY DEF IInv, ReadBefore, LogoutEndsSession
<1> QED BY <1>1, <1>2, <1>3, <1>4 DEF IInv

(***************************************************************************)
(* Steps that write one.                                                   *)
(***************************************************************************)
LEMMA LoginStep ==
  ASSUME IInv, NEW t \in Threads, NEW d \in Devices, Login(d),
         req' \in [Threads -> Request],
         \A x \in Threads \ {t} : req'[x] = req[x],
         req'[t] = req[t] \/ req'[t].pc = "idle"
  PROVE  IInv'
<1>1. /\ nextToken' = nextToken + 1 /\ UpsertDispositivo(d, nextToken)
      /\ access' = access \cup {d} /\ UNCHANGED <<usuario, profile>>
      /\ out' = out \ {d} /\ raced' = raced \ {d}
  BY DEF Login, GenerateRefreshToken, GenerateAccessToken
<1>2. nextToken \in Tokens /\ nextToken < nextToken' /\ nextToken' \in Tokens
  BY <1>1 DEF IInv, TypeOK, Tokens
<1>3. /\ DOMAIN dispositivo' = DOMAIN dispositivo \cup {d}
      /\ \A x \in DOMAIN dispositivo \ {d} : dispositivo'[x] = dispositivo[x]
      /\ \A x \in DOMAIN dispositivo' :
           dispositivo'[x] \in Linha /\ dispositivo'[x].token < nextToken'
  BY <1>1, <1>2, PutFacts
<1>4. \A x \in Threads : req'[x].pc \in {"rotate", "expire"} =>
        req'[x].device \in DOMAIN dispositivo' /\ req'[x].token < nextToken'
  <2> SUFFICES ASSUME NEW x \in Threads, req'[x].pc \in {"rotate", "expire"}
               PROVE  /\ req'[x].device \in DOMAIN dispositivo'
                      /\ req'[x].token < nextToken'
    OBVIOUS
  <2>1. req'[x] = req[x]
    OBVIOUS
  <2>2. req[x].device \in DOMAIN dispositivo /\ req[x].token < nextToken
        /\ req[x] \in Request
    BY <2>1 DEF IInv, TypeOK
  <2>3. req[x].token \in Nat /\ nextToken \in Nat
    BY <1>2, <2>2 DEF Request, Tokens
  <2> QED BY <1>1, <1>3, <2>1, <2>2, <2>3
<1>5. TypeOK'
  BY <1>1, <1>2, <1>3, <1>4 DEF IInv, TypeOK
<1>6. LogoutEndsSession'
  BY <1>1, <1>3 DEF IInv, TypeOK, LogoutEndsSession
<1>7. Registered' /\ ReadBefore'
  BY <1>1 DEF IInv, Registered, ReadBefore
<1> QED BY <1>5, <1>6, <1>7 DEF IInv

LEMMA RefreshUpdateStep ==
  ASSUME IInv, NEW t \in Threads, RefreshUpdate(t)
  PROVE  IInv'
<1> DEFINE d == req[t].device
<1>0. req[t] \in Request /\ d \in Devices /\ d \in DOMAIN dispositivo
  BY DEF IInv, TypeOK, RefreshUpdate, Request
<1>1. /\ nextToken' = nextToken + 1 /\ UpdateDevice(d, nextToken, FALSE)
      /\ access' = access \cup {d} /\ UNCHANGED <<usuario, profile, out>>
      /\ raced' = IF d \in out /\ req[t].stale THEN raced \cup {d} ELSE raced
      /\ req[t].pc = "rotate"
  BY DEF RefreshUpdate, GenerateRefreshToken, GenerateAccessToken
<1>l. /\ req' \in [Threads -> Request] /\ req'[t].pc = "idle"
      /\ \A x \in Threads \ {t} : req'[x] = req[x]
  BY LeaveFacts DEF RefreshUpdate
<1>2. nextToken \in Tokens /\ nextToken < nextToken' /\ nextToken' \in Tokens
  BY <1>1 DEF IInv, TypeOK, Tokens
<1>3. /\ DOMAIN dispositivo' = DOMAIN dispositivo
      /\ \A x \in DOMAIN dispositivo \ {d} : dispositivo'[x] = dispositivo[x]
      /\ \A x \in DOMAIN dispositivo' :
           dispositivo'[x] \in Linha /\ dispositivo'[x].token < nextToken'
  BY <1>0, <1>1, <1>2, PutFacts
<1>4. \A x \in Threads : req'[x].pc \in {"rotate", "expire"} =>
        req'[x].device \in DOMAIN dispositivo' /\ req'[x].token < nextToken'
  <2> SUFFICES ASSUME NEW x \in Threads, req'[x].pc \in {"rotate", "expire"}
               PROVE  /\ req'[x].device \in DOMAIN dispositivo'
                      /\ req'[x].token < nextToken'
    OBVIOUS
  <2>1. req'[x] = req[x]
    BY <1>l
  <2>2. req[x].device \in DOMAIN dispositivo /\ req[x].token < nextToken
        /\ req[x] \in Request
    BY <2>1 DEF IInv, TypeOK
  <2>3. req[x].token \in Nat /\ nextToken \in Nat
    BY <1>2, <2>2 DEF Request, Tokens
  <2> QED BY <1>1, <1>3, <2>1, <2>2, <2>3
<1>5. TypeOK'
  BY <1>0, <1>l, <1>1, <1>2, <1>3, <1>4 DEF IInv, TypeOK
<1>6. LogoutEndsSession'
  <2>1. d \in out => d \in raced'
    BY <1>1 DEF IInv, ReadBefore
  <2>2. raced \subseteq raced'
    BY <1>1
  <2> QED BY <1>1, <1>3, <2>1, <2>2 DEF IInv, TypeOK, LogoutEndsSession
<1>7. Registered' /\ ReadBefore'
  BY <1>1, <1>l DEF IInv, Registered, ReadBefore
<1> QED BY <1>5, <1>6, <1>7 DEF IInv

LEMMA LogoutUpdateStep ==
  ASSUME IInv, NEW t \in Threads, LogoutUpdate(t)
  PROVE  IInv'
<1> DEFINE d == req[t].device
           k == req[t].token
<1>0. /\ req[t] \in Request /\ d \in Devices /\ k \in Tokens
      /\ d \in DOMAIN dispositivo /\ k < nextToken
  BY DEF IInv, TypeOK, LogoutUpdate, Request
<1>1. /\ UpdateDevice(d, k, TRUE) /\ out' = out \cup {d} /\ raced' = raced \ {d}
      /\ UNCHANGED <<usuario, profile, nextToken, access>>
  BY DEF LogoutUpdate
<1>2. /\ req' \in [Threads -> Request] /\ req'[t].pc = "idle"
      /\ \A x \in Threads \ {t} :
           /\ req'[x].pc = req[x].pc /\ req'[x].device = req[x].device
           /\ req'[x].token = req[x].token
           /\ req'[x].stale = (req[x].stale \/ req[x].device = d)
  BY LeaveStaleFacts DEF LogoutUpdate
<1> HIDE DEF d, k
<1>3. /\ DOMAIN dispositivo' = DOMAIN dispositivo
      /\ dispositivo'[d] = [token |-> k, expired |-> TRUE]
      /\ \A x \in DOMAIN dispositivo \ {d} : dispositivo'[x] = dispositivo[x]
      /\ \A x \in DOMAIN dispositivo' :
           dispositivo'[x] \in Linha /\ dispositivo'[x].token < nextToken'
  BY <1>0, <1>1, PutFacts
<1>4. TypeOK'
  BY <1>0, <1>1, <1>2, <1>3 DEF IInv, TypeOK
<1>5. LogoutEndsSession'
  BY <1>0, <1>1, <1>3 DEF IInv, TypeOK, LogoutEndsSession
<1>6. Registered'
  BY <1>1, <1>2 DEF IInv, Registered
<1>7. ReadBefore'
  BY <1>1, <1>2 DEF IInv, ReadBefore
<1> QED BY <1>4, <1>5, <1>6, <1>7 DEF IInv

LEMMA RefreshTokenExpiresStep ==
  ASSUME IInv, NEW d \in Devices, RefreshTokenExpires(d)
  PROVE  IInv'
<1>1. /\ d \in DOMAIN dispositivo /\ UpdateDevice(d, dispositivo[d].token, TRUE)
      /\ UNCHANGED <<usuario, profile, nextToken, access, req, out, raced>>
  BY DEF RefreshTokenExpires
<1>2. dispositivo[d].token \in Tokens /\ dispositivo[d].token < nextToken'
  BY <1>1 DEF IInv, TypeOK, Linha
<1> DEFINE k == dispositivo[d].token
<1>k. k \in Tokens /\ k < nextToken' /\ UpdateDevice(d, k, TRUE)
      /\ nextToken' = nextToken
  BY <1>1, <1>2
<1> HIDE DEF k
<1>p. /\ DOMAIN dispositivo' = DOMAIN dispositivo \cup {d}
      /\ dispositivo'[d] = [token |-> k, expired |-> TRUE]
      /\ \A x \in DOMAIN dispositivo \ {d} : dispositivo'[x] = dispositivo[x]
      /\ \A x \in DOMAIN dispositivo' :
           dispositivo'[x] \in Linha /\ dispositivo'[x].token < nextToken'
  BY <1>1, <1>k, PutFacts
<1>3. /\ DOMAIN dispositivo' = DOMAIN dispositivo
      /\ dispositivo'[d].expired = TRUE
      /\ \A x \in DOMAIN dispositivo \ {d} : dispositivo'[x] = dispositivo[x]
      /\ \A x \in DOMAIN dispositivo' :
           dispositivo'[x] \in Linha /\ dispositivo'[x].token < nextToken'
  <2>1. dispositivo'[d].expired = TRUE
    BY <1>p
  <2> QED BY <1>1, <1>p, <2>1
<1>4. TypeOK'
  BY <1>1, <1>3 DEF IInv, TypeOK
<1>5. LogoutEndsSession'
  BY <1>1, <1>3 DEF IInv, TypeOK, LogoutEndsSession
<1> QED BY <1>1, <1>4, <1>5 DEF IInv, Registered, ReadBefore

LEMMA NextIInv == IInv /\ [Next]_vars => IInv'
<1> SUFFICES ASSUME IInv, [Next]_vars PROVE IInv'
  OBVIOUS
<1>0. \A t \in Threads : req[t] \in Request
  BY DEF IInv, TypeOK
<1>1. ASSUME NEW t \in Threads, NEW d \in Devices, postLogin(t, d) PROVE IInv'
  <2>1. Login(d) /\ req' = req
    BY <1>1 DEF postLogin
  <2>2. req \in [Threads -> Request]
    BY DEF IInv, TypeOK
  <2> QED BY <2>1, <2>2, LoginStep
<1>2. ASSUME NEW t \in Threads, NEW d \in Devices, postRegister(t, d) PROVE IInv'
  <2>1. /\ usuario' = usuario \cup {Owner[d]} /\ Enter(t, "profile", d, 1)
        /\ UNCHANGED <<profile, dispositivo, nextToken, access, out, raced>>
    BY <1>2 DEF postRegister, Register
  <2>2. Owner[d] \in Users
    BY SessionsAssumption
  <2>3. /\ req' \in [Threads -> Request]
        /\ req'[t] = [pc |-> "profile", device |-> d, token |-> 1, stale |-> FALSE]
        /\ \A x \in Threads \ {t} : req'[x] = req[x]
    BY <2>1, EnterFacts DEF Steps, Tokens
  <2>4. usuario' \subseteq Users /\ profile' \subseteq usuario'
    BY <2>1, <2>2 DEF IInv, TypeOK
  <2> QED BY <2>1, <2>3, <2>4, QuietStep
<1>3. ASSUME NEW t \in Threads, CreateProfile(t) PROVE IInv'
  <2>1. /\ req[t].pc = "profile"
        /\ UNCHANGED <<usuario, dispositivo, nextToken, access, out, raced>>
        /\ profile' = profile \cup {Owner[req[t].device]}
    BY <1>3 DEF CreateProfile
  <2>2. usuario' \subseteq Users /\ profile' \subseteq usuario'
    BY <2>1 DEF IInv, TypeOK, Registered
  <2>3. CASE req' = [req EXCEPT ![t] = Idle]
    BY <2>1, <2>2, <2>3, LeaveFacts, QuietStep DEF Leave
  <2>4. CASE req' = [req EXCEPT ![t].pc = "login"]
    <3>1. /\ req' \in [Threads -> Request] /\ req'[t].pc = "login"
          /\ \A x \in Threads \ {t} : req'[x] = req[x]
      BY <2>4 DEF IInv, TypeOK, Request, Steps
    <3> QED BY <2>1, <2>2, <3>1, QuietStep
  <2> QED BY <1>3, <2>3, <2>4 DEF CreateProfile
<1>4. ASSUME NEW t \in Threads, RegisterLogin(t) PROVE IInv'
  <2>1. Login(req[t].device) /\ Leave(t) /\ req[t].device \in Devices
    BY <1>0, <1>4 DEF RegisterLogin, Request
  <2> QED BY <2>1, LeaveFacts, LoginStep
<1>5. ASSUME NEW t \in Threads, NEW k \in 1 .. MaxTokens, postRefresh(t, k)
      PROVE  IInv'
  <2>1. PICK d \in DOMAIN dispositivo :
          /\ dispositivo[d].token = k /\ ~dispositivo[d].expired
          /\ Enter(t, "rotate", d, k)
    BY <1>5 DEF postRefresh, Refresh, GetDispositivoByRefreshToken
  <2>2. UNCHANGED <<usuario, profile, dispositivo, nextToken, access, out, raced>>
    BY <1>5 DEF postRefresh, Refresh
  <2>3. d \in Devices /\ k \in Tokens /\ k < nextToken
    BY <2>1 DEF IInv, TypeOK, Linha
  <2>4. /\ req' \in [Threads -> Request]
        /\ req'[t] = [pc |-> "rotate", device |-> d, token |-> k, stale |-> FALSE]
        /\ \A x \in Threads \ {t} : req'[x] = req[x]
    BY <2>1, <2>3, EnterFacts DEF Steps
  <2>5. usuario' \subseteq Users /\ profile' \subseteq usuario'
    BY <2>2 DEF IInv, TypeOK
  <2> QED BY <2>1, <2>2, <2>3, <2>4, <2>5, QuietStep
<1>6. ASSUME NEW t \in Threads, NEW d \in Devices, postLogout(t, d) PROVE IInv'
  <2>1. /\ d \in access /\ Enter(t, "expire", d, dispositivo[d].token)
        /\ UNCHANGED <<usuario, profile, dispositivo, nextToken, access, out, raced>>
    BY <1>6 DEF postLogout, TokenBearerMiddleware, Logout, GetDeviceByID
  <2>2. /\ d \in DOMAIN dispositivo /\ dispositivo[d].token \in Tokens
        /\ dispositivo[d].token < nextToken
    BY <2>1 DEF IInv, TypeOK, Linha
  <2>3. /\ req' \in [Threads -> Request]
        /\ req'[t] = [pc |-> "expire", device |-> d,
                      token |-> dispositivo[d].token, stale |-> FALSE]
        /\ \A x \in Threads \ {t} : req'[x] = req[x]
    BY <2>1, <2>2, EnterFacts DEF Steps
  <2>4. usuario' \subseteq Users /\ profile' \subseteq usuario'
    BY <2>1 DEF IInv, TypeOK
  <2> QED BY <2>1, <2>2, <2>3, <2>4, QuietStep
<1>7. ASSUME NEW t \in Threads, Abort(t) PROVE IInv'
  <2>1. UNCHANGED <<usuario, profile, dispositivo, nextToken, access, out, raced>>
        /\ usuario' \subseteq Users /\ profile' \subseteq usuario'
    BY <1>7 DEF Abort, IInv, TypeOK
  <2> QED BY <1>7, <2>1, LeaveFacts, QuietStep DEF Abort
<1>8. ASSUME NEW d \in Devices, AccessTokenExpires(d) PROVE IInv'
  BY <1>8 DEF AccessTokenExpires, IInv, TypeOK, LogoutEndsSession, Registered,
     ReadBefore
<1>9. CASE UNCHANGED vars
  BY <1>9 DEF vars, IInv, TypeOK, LogoutEndsSession, Registered, ReadBefore
<1> QED BY <1>1, <1>2, <1>3, <1>4, <1>5, <1>6, <1>7, <1>8, <1>9,
           RefreshUpdateStep, LogoutUpdateStep, RefreshTokenExpiresStep DEF Next

THEOREM Invariance == Spec => []IInv
BY InitIInv, NextIInv, PTL DEF Spec

(***************************************************************************)
(* Type correctness: a row and the row a request has read hold tokens that *)
(* were really generated, a profile has its user, and a device that is     *)
(* logged out, revived or holds an access token has a row.                 *)
(***************************************************************************)
THEOREM TypeCorrect == Spec => []TypeOK
<1>1. IInv => TypeOK
  BY DEF IInv
<1> QED BY <1>1, Invariance, PTL

(***************************************************************************)
(* A logout ends the session of its device until the next login, for any   *)
(* number of overlapping logins, refreshes and logouts, but for a refresh  *)
(* that had read the row before the logout wrote it.                       *)
(***************************************************************************)
THEOREM LogoutIsFinal == Spec => []LogoutEndsSession
<1>1. IInv => LogoutEndsSession
  BY DEF IInv
<1> QED BY <1>1, Invariance, PTL

(* A row that a step makes usable holds the token of this step. *)
LEMMA NextDead ==
  ASSUME IInv, [Next]_vars, NEW k \in 1 .. (nextToken - 1), Usable(k)'
  PROVE  Usable(k)
<1>0. k \in Nat /\ k < nextToken /\ nextToken \in Nat
  BY DEF IInv, TypeOK, Tokens
<1>p. PICK x \in DOMAIN dispositivo' :
        dispositivo'[x].token = k /\ ~dispositivo'[x].expired
  BY DEF Usable
<1>1. ASSUME NEW d, UpsertDispositivo(d, nextToken) PROVE Usable(k)
  <2>1. nextToken # k
    BY <1>0
  <2>2. x # d
    BY <1>1, <1>p, <2>1 DEF UpsertDispositivo
  <2>3. x \in DOMAIN dispositivo /\ dispositivo'[x] = dispositivo[x]
    BY <1>1, <1>p, <2>2 DEF UpsertDispositivo
  <2> QED BY <1>p, <2>3 DEF Usable
<1>v. ASSUME NEW d \in DOMAIN dispositivo, UpdateDevice(d, nextToken, FALSE)
      PROVE  Usable(k)
  <2>1. DOMAIN dispositivo' = DOMAIN dispositivo
    BY <1>v DEF UpdateDevice
  <2>2. dispositivo'[d].token = nextToken
    BY <1>v DEF UpdateDevice
  <2>3. x # d
    BY <1>0, <1>p, <2>2
  <2>4. dispositivo'[x] = dispositivo[x]
    BY <1>v, <1>p, <2>1, <2>3 DEF UpdateDevice
  <2> QED BY <1>p, <2>1, <2>4 DEF Usable
<1>u. ASSUME NEW d \in DOMAIN dispositivo, NEW j, UpdateDevice(d, j, TRUE)
      PROVE  Usable(k)
  <2>1. DOMAIN dispositivo' = DOMAIN dispositivo
    BY <1>u DEF UpdateDevice
  <2>2. dispositivo'[d].expired
    BY <1>u DEF UpdateDevice
  <2>4. x # d
    BY <1>p, <2>2
  <2>5. dispositivo'[x] = dispositivo[x]
    BY <1>u, <1>p, <2>1, <2>4 DEF UpdateDevice
  <2> QED BY <1>p, <2>1, <2>5 DEF Usable
<1>2. ASSUME dispositivo' = dispositivo PROVE Usable(k)
  BY <1>2 DEF Usable
<1>3. ASSUME NEW d, Login(d) PROVE Usable(k)
  <2>1. UpsertDispositivo(d, nextToken)
    BY <1>3 DEF Login
  <2> QED BY <1>1, <2>1
<1>4. ASSUME NEW t \in Threads, RefreshUpdate(t) PROVE Usable(k)
  <2>1. UpdateDevice(req[t].device, nextToken, FALSE) /\ req[t].pc = "rotate"
    BY <1>4 DEF RefreshUpdate
  <2>2. req[t].device \in DOMAIN dispositivo
    BY <2>1 DEF IInv, TypeOK
  <2> QED BY <1>v, <2>1, <2>2
<1>5. ASSUME NEW t \in Threads, LogoutUpdate(t) PROVE Usable(k)
  <2>1. UpdateDevice(req[t].device, req[t].token, TRUE) /\ req[t].pc = "expire"
    BY <1>5 DEF LogoutUpdate
  <2>2. req[t].device \in DOMAIN dispositivo
    BY <2>1 DEF IInv, TypeOK
  <2> QED BY <1>u, <2>1, <2>2
<1>6. ASSUME NEW d \in Devices, RefreshTokenExpires(d) PROVE Usable(k)
  BY <1>u, <1>6 DEF RefreshTokenExpires
<1>7. CASE UNCHANGED vars
  BY <1>2, <1>7 DEF vars
<1>8. CASE Next
  BY <1>2, <1>3, <1>4, <1>5, <1>6, <1>8
     DEF Next, postLogin, postRegister, Register, CreateProfile, RegisterLogin,
         postRefresh, Refresh, postLogout, Logout, Abort, AccessTokenExpires
<1> QED BY <1>7, <1>8

(***************************************************************************)
(* A token that was rotated away, logged out or expired never works again, *)
(* although Logout writes rows back that it read earlier.                  *)
(***************************************************************************)
THEOREM TokensStayDead == Spec => DeadTokensStayDead
<1>1. IInv /\ [Next]_vars =>
        [\A k \in 1 .. (nextToken - 1) : ~Usable(k) => ~Usable(k)']_vars
  BY NextDead
<1> QED BY <1>1, Invariance, PTL DEF Spec, DeadTokensStayDead
=============================================================================
