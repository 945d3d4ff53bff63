------------------------------ MODULE Sessions ------------------------------
(***************************************************************************)
(* Accounts, devices and their tokens: registration, login, refresh and    *)
(* logout over the tables Usuario, Profile and Dispositivo.                *)
(*                                                                         *)
(* A device row holds the only refresh token the server accepts for it.    *)
(* Refresh and Logout read the row, change it in memory and write the      *)
(* whole of it back with UpdateDevice, without a transaction: the requests *)
(* of two threads interleave between the read and the write.  Access       *)
(* tokens are signed and never stored: only time ends them.                *)
(***************************************************************************)
EXTENDS Naturals, FiniteSets

CONSTANTS
  Users,      \* the accounts that may be registered
  Devices,    \* device ids
  Owner,      \* device -> the user whose client names that id in a login
  Threads,    \* concurrent HTTP requests
  MaxTokens   \* bound: refresh tokens are 1 .. MaxTokens

ASSUME SessionsAssumption ==
  /\ Devices # {}
  /\ Owner \in [Devices -> Users]
  /\ MaxTokens \in Nat

VARIABLES
  usuario,      \* Usuario: the registered users
  profile,      \* Profile: the users that have a profile row
  dispositivo,  \* Dispositivo: device -> [token, expired]
  nextToken,    \* the next refresh token (random 32 bytes: never repeated)
  access,       \* devices for which an access token is still valid
  req,          \* thread -> the request it serves
  out,          \* history: devices logged out since their last login
  raced         \* history: of those, the ones a refresh under way revived

vars == <<usuario, profile, dispositivo, nextToken, access, req, out, raced>>

Tokens == Nat \ {0}
Linha  == [token : Tokens, expired : BOOLEAN]

Steps == {"idle", "profile", "login", "rotate", "expire"}

(***************************************************************************)
(* What a request carries: the device and the token of the row it read.    *)
(* "stale" is history: a logout has written the row since it was read.     *)
(***************************************************************************)
Request == [pc : Steps, device : Devices, token : Tokens, stale : BOOLEAN]

Idle == [pc |-> "idle", device |-> CHOOSE d \in Devices : TRUE, token |-> 1,
         stale |-> FALSE]

TypeOK ==
  /\ usuario \subseteq Users
  /\ profile \subseteq usuario
  /\ DOMAIN dispositivo \subseteq Devices
  /\ \A d \in DOMAIN dispositivo :
       dispositivo[d] \in Linha /\ dispositivo[d].token < nextToken
  /\ nextToken \in Tokens
  /\ access \subseteq DOMAIN dispositivo
  /\ req \in [Threads -> Request]
  /\ \A t \in Threads :
       req[t].pc \in {"rotate", "expire"} => /\ req[t].device \in DOMAIN dispositivo
                                             /\ req[t].token < nextToken
  /\ out \subseteq DOMAIN dispositivo
  /\ raced \subseteq out

-----------------------------------------------------------------------------
HasTokens == nextToken <= MaxTokens

(* The device is known, has this token and the token has not expired. *)
Usable(k) == \E d \in DOMAIN dispositivo :
               dispositivo[d].token = k /\ ~dispositivo[d].expired

Enter(t, step, d, k) ==
  req' = [req EXCEPT ![t] = [pc |-> step, device |-> d, token |-> k,
                             stale |-> FALSE]]

Leave(t) == req' = [req EXCEPT ![t] = Idle]

(* The same for a logout: the rows the others hold of its device are stale. *)
LeaveStale(t) ==
  req' = [x \in Threads |->
            IF x = t THEN Idle
            ELSE [req[x] EXCEPT !.stale = @ \/ req[x].device = req[t].device]]

-----------------------------------------------------------------------------
(* The tables. *)

GetUsuarioByID(u) == u \in usuario

GetDeviceByID(d) == dispositivo[d]

GetDispositivoByRefreshToken(k) ==
  {d \in DOMAIN dispositivo : dispositivo[d].token = k}

UpsertDispositivo(d, k) ==
  dispositivo' = [x \in DOMAIN dispositivo \cup {d} |->
                    IF x = d THEN [token |-> k, expired |-> FALSE]
                    ELSE dispositivo[x]]

(* UPDATE of the whole row of a device. *)
UpdateDevice(d, k, e) ==
  dispositivo' = [dispositivo EXCEPT ![d] = [token |-> k, expired |-> e]]

(* The tokens. *)
GenerateRefreshToken == HasTokens /\ nextToken' = nextToken + 1
GenerateAccessToken(d) == access' = access \cup {d}

(* The access token is valid and names this device and its user. *)
TokenBearerMiddleware(d) == d \in access

-----------------------------------------------------------------------------

(* Mutant: the generator repeats the token. *)
MutSameToken(d) ==
  /\ HasTokens
  /\ GetUsuarioByID(Owner[d])
  /\ UpsertDispositivo(d, nextToken)
  /\ GenerateAccessToken(d)
  /\ out' = out \ {d}
  /\ raced' = raced \ {d}
  /\ UNCHANGED <<usuario, profile, nextToken>>

(* GetUsuarioByID, the password, UpsertDispositivo and the two tokens. *)
Login(d) ==
  /\ GetUsuarioByID(Owner[d])
  /\ GenerateRefreshToken
  /\ UpsertDispositivo(d, nextToken)
  /\ GenerateAccessToken(d)
  /\ out' = out \ {d}
  /\ raced' = raced \ {d}
  /\ UNCHANGED <<usuario, profile>>

(* POST /login; Usuario rows never change, so its read needs no step. *)
postLogin(t, d) ==
  /\ req[t].pc = "idle"
  /\ Login(d)
  /\ UNCHANGED req

(* CreateUsuarioAndProfile, its first insert; a known user is refused. *)
Register(t, d) ==
  /\ Owner[d] \notin usuario
  /\ usuario' = usuario \cup {Owner[d]}
  /\ Enter(t, "profile", d, 1)
  /\ UNCHANGED <<profile, dispositivo, nextToken, access, out, raced>>

(* POST /register *)
postRegister(t, d) == req[t].pc = "idle" /\ Register(t, d)

(* Its second insert; the client may have asked not to be logged in. *)
CreateProfile(t) ==
  /\ req[t].pc = "profile"
  /\ profile' = profile \cup {Owner[req[t].device]}
  /\ req' \in {[req EXCEPT ![t].pc = "login"], [req EXCEPT ![t] = Idle]}
  /\ UNCHANGED <<usuario, dispositivo, nextToken, access, out, raced>>

(* The login that ends a registration gets a fresh device id. *)
RegisterLogin(t) ==
  /\ req[t].pc = "login"
  /\ req[t].device \notin DOMAIN dispositivo
  /\ Login(req[t].device)
  /\ Leave(t)

(* Mutant: the expiry of the token is not looked at. *)
MutNoExpiry(t, k) ==
  /\ \E d \in GetDispositivoByRefreshToken(k) : Enter(t, "rotate", d, k)
  /\ UNCHANGED <<usuario, profile, dispositivo, nextToken, access, out, raced>>

(***************************************************************************)
(* GetDispositivoByRefreshToken and the expiry check.  A token that no row *)
(* holds ends the request (its handler panics on the missing device).      *)
(***************************************************************************)
Refresh(t, k) ==
  /\ \E d \in GetDispositivoByRefreshToken(k) :
       /\ ~dispositivo[d].expired
       /\ Enter(t, "rotate", d, k)
  /\ UNCHANGED <<usuario, profile, dispositivo, nextToken, access, out, raced>>

(* POST /refresh *)
postRefresh(t, k) == req[t].pc = "idle" /\ HasTokens /\ Refresh(t, k)

(* Mutant: the token that was read is renewed instead of replaced. *)
MutNoRotation(t) ==
  LET d == req[t].device
  IN  /\ req[t].pc = "rotate"
      /\ UpdateDevice(d, req[t].token, FALSE)
      /\ GenerateAccessToken(d)
      /\ raced' = IF d \in out /\ req[t].stale THEN raced \cup {d} ELSE raced
      /\ Leave(t)
      /\ UNCHANGED <<usuario, profile, nextToken, out>>

(* The new token, UpdateDevice and the access token. *)
RefreshUpdate(t) ==
  LET d == req[t].device
  IN  /\ req[t].pc = "rotate"
      /\ GenerateRefreshToken
      /\ UpdateDevice(d, nextToken, FALSE)
      /\ GenerateAccessToken(d)
      /\ raced' = IF d \in out /\ req[t].stale THEN raced \cup {d} ELSE raced
      /\ Leave(t)
      /\ UNCHANGED <<usuario, profile, out>>

(* Logout reads the row. *)
Logout(t, d) ==
  /\ Enter(t, "expire", d, GetDeviceByID(d).token)
  /\ UNCHANGED <<usuario, profile, dispositivo, nextToken, access, out, raced>>

(* POST /logout *)
postLogout(t, d) ==
  req[t].pc = "idle" /\ TokenBearerMiddleware(d) /\ Logout(t, d)

(* The row that was read goes back, its token expired as of now. *)
LogoutUpdate(t) ==
  LET d == req[t].device
  IN  /\ req[t].pc = "expire"
      /\ UpdateDevice(d, req[t].token, TRUE)
      /\ out' = out \cup {d}
      /\ raced' = raced \ {d}
      /\ LeaveStale(t)
      /\ UNCHANGED <<usuario, profile, nextToken, access>>

(* Time passes. *)
RefreshTokenExpires(d) ==
  /\ d \in DOMAIN dispositivo
  /\ ~dispositivo[d].expired
  /\ UpdateDevice(d, dispositivo[d].token, TRUE)
  /\ UNCHANGED <<usuario, profile, nextToken, access, req, out, raced>>

AccessTokenExpires(d) ==
  /\ d \in access
  /\ access' = access \ {d}
  /\ UNCHANGED <<usuario, profile, dispositivo, nextToken, req, out, raced>>

(* A deadline, a database error or a crash ends the request. *)
Abort(t) ==
  /\ req[t].pc # "idle"
  /\ Leave(t)
  /\ UNCHANGED <<usuario, profile, dispositivo, nextToken, access, out, raced>>

Init ==
  /\ usuario = {}
  /\ profile = {}
  /\ dispositivo = [d \in {} |-> 0]
  /\ nextToken = 1
  /\ access = {}
  /\ req = [t \in Threads |-> Idle]
  /\ out = {}
  /\ raced = {}

Next ==
  \/ \E t \in Threads, d \in Devices :
       postLogin(t, d) \/ postRegister(t, d) \/ postLogout(t, d)
  \/ \E t \in Threads, k \in 1 .. MaxTokens : postRefresh(t, k)
  \/ \E t \in Threads :
       \/ CreateProfile(t) \/ RegisterLogin(t)
       \/ RefreshUpdate(t) \/ LogoutUpdate(t) \/ Abort(t)
  \/ \E d \in Devices : RefreshTokenExpires(d) \/ AccessTokenExpires(d)

Spec == Init /\ [][Next]_vars

-----------------------------------------------------------------------------
(* Properties. *)

(***************************************************************************)
(* A refresh token that was rotated away, logged out or expired never      *)
(* works again, although Logout may write a row back that it read before   *)
(* another request replaced the token.                                     *)
(***************************************************************************)
DeadTokensStayDead ==
  [][\A k \in 1 .. (nextToken - 1) : ~Usable(k) => ~Usable(k)']_vars

(***************************************************************************)
(* A logout ends the session: until the next login the device has a usable *)
(* token only if a refresh had read the row before the logout wrote it.    *)
(***************************************************************************)
LogoutEndsSession ==
  \A d \in out \ raced : dispositivo[d].expired
=============================================================================
