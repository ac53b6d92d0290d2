------------------------------ MODULE Session ------------------------------
(***************************************************************************)
(* The sessions of one account: its user document, the copy of it that the *)
(* auth middleware keeps in Redis (auth:user:<id>), the tokens that were   *)
(* issued, and the requests of auth.service.ts and user.service.ts that    *)
(* read and write them.  A token carries token_version; a request is let   *)
(* through when that equals the version of the document the middleware     *)
(* looked at.                                                              *)
(*                                                                         *)
(* Every await is a step.  One account is modelled, under one email; the   *)
(* document's email and is_verified are left out, nothing here decides on  *)
(* them, and so are tokens that reached their own expiry.  Calls for       *)
(* administrators are made by somebody else's session.                     *)
(***************************************************************************)
EXTENDS Integers, FiniteSets

CONSTANTS
  Requests,   \* requests; each makes one call
  Calls,      \* calls they make, a subset of CallNames
  Passwords,
  Redis,      \* values of config.redis_enabled, a subset of BOOLEAN
  MaxUsers,   \* bound: documents inserted, one after the other
  MaxTicks,   \* bound: the clock
  MaxFaults   \* bound: Redis commands that fail

TokenCalls == {"refreshToken", "resetPassword"}
ByEmail == {"signin", "signup", "googleSignin", "forgetPassword"} \cup TokenCalls
Authenticated == {"getSelf", "changePassword", "updateSelf", "logoutAllSessions"}
ByAdmin == {"updateUser", "updateUsers", "deleteUser", "deleteUsers",
            "deleteUserPermanent", "restoreUser"}
CallNames == ByEmail \cup Authenticated \cup ByAdmin

ASSUME CallsAssumption == Calls \subseteq CallNames /\ Redis \subseteq BOOLEAN
ASSUME PasswordsAssumption == Passwords # {} /\ "none" \notin Passwords
ASSUME BoundsAssumption ==
  MaxUsers \in Nat \ {0} /\ MaxTicks \in Nat /\ MaxFaults \in Nat

TicksPerSecond == 2     \* ticks are milliseconds, iat is in seconds

VARIABLES
  user,           \* the document, or the last one there was
  cached,         \* copies in Redis, at most one for an id
  tokens,         \* tokens issued
  request,
  redis_enabled,
  now,
  faults

vars == <<user, cached, tokens, request, redis_enabled, now, faults>>

Roles == {"user", "editor"}
Users ==
  [state : {"none", "live", "deleted"}, id : Nat, token_version : Nat,
   password_changed_at : Nat, password : Passwords \cup {"none"},
   role : Roles, status : {"in-progress", "blocked"},
   auth_source : {"email", "google"}]

(* password is no claim of the token: it is the one it was issued under.   *)
Kinds == {"access", "refresh", "reset"}
Tokens == [kind : Kinds, id : Nat, token_version : Nat, iat : Nat, role : Roles,
           password : Passwords \cup {"none"}]

(* A request: the id it names, its token, the document it read, whether    *)
(* that was the cached copy.  old and entitled say what its token was when *)
(* it arrived, touched that the document was written while it was looked at.*)
AuthPcs == {"lookup", "load", "fallback", "store"}
RequestStates ==
  [pc : AuthPcs \cup {"idle", "find", "again", "create", "link", "write",
                      "answer", "clear", "done", "rejected", "refused"},
   call : CallNames, id : Nat, token : Tokens, seen : Users, hit : BOOLEAN,
   old : BOOLEAN, entitled : BOOLEAN, touched : BOOLEAN]

NoUser == [state |-> "none", id |-> 0, token_version |-> 0,
           password_changed_at |-> 0, password |-> "none", role |-> "user",
           status |-> "in-progress", auth_source |-> "email"]
NoToken == [kind |-> "access", id |-> 0, token_version |-> 0, iat |-> 0,
            role |-> "user", password |-> "none"]

TypeOK ==
  /\ user \in Users
  /\ cached \in SUBSET Users
  /\ \A c, d \in cached : c.id = d.id => c = d
  /\ tokens \in SUBSET Tokens
  /\ request \in [Requests -> RequestStates]
  /\ redis_enabled \in BOOLEAN
  /\ now \in Nat
  /\ faults \in Nat

(* jwt.sign *)
IssuedFrom(d, kind, at) ==
  [kind |-> kind, id |-> d.id, token_version |-> d.token_version,
   iat |-> at \div TicksPerSecond, role |-> d.role, password |-> d.password]

(* User.create: the schema's default gives version 1 and the hook, which   *)
(* finds password and role modified, adds 1.                               *)
Created(id, at, password, source) ==
  [NoUser EXCEPT !.state = "live", !.id = id, !.token_version = 2,
                 !.password_changed_at = at, !.password = password,
                 !.auth_source = source]

(* Nobody yet, or somebody who signed up and, later, in.                   *)
Init ==
  /\ \/ user = NoUser /\ tokens = {}
     \/ \E p \in Passwords :
          /\ user = Created(1, 0, p, "email")
          /\ tokens = {IssuedFrom(user, k, TicksPerSecond) :
                         k \in {"access", "refresh"}}
  /\ cached = {}
  /\ request = [r \in Requests |->
       [pc |-> "idle", call |-> "getSelf", id |-> 0, token |-> NoToken,
        seen |-> NoUser, hit |-> FALSE, old |-> FALSE, entitled |-> FALSE,
        touched |-> FALSE]]
  /\ redis_enabled \in Redis
  /\ now = TicksPerSecond
  /\ faults = 0

Goto(r, pc) == request' = [request EXCEPT ![r].pc = pc]

(* One Redis command fails. *)
RedisFails == faults < MaxFaults /\ faults' = faults + 1

Live == user.state = "live"

RolesOf(call) == IF call = "logoutAllSessions" THEN Roles ELSE {"user"}

(* password_changed_at against iat: "the token is older". *)
PasswordChangedSince(d, t) ==
  d.password_changed_at > t.iat * TicksPerSecond

-----------------------------------------------------------------------------
(* Arrival and the auth middleware *)

Old(t) == t.id # user.id \/ t.token_version # user.token_version
Entitled(t, call) ==
  Live /\ ~Old(t) /\ user.status # "blocked" /\ user.role \in RolesOf(call)

KindOf(call) == CASE call = "refreshToken" -> "refresh"
                  [] call = "resetPassword" -> "reset"
                  [] OTHER -> "access"

ArriveWithToken(r, call, t) ==
  /\ request[r].pc = "idle"
  /\ call \in Calls \cap (Authenticated \cup TokenCalls)
  /\ t.kind = KindOf(call)
  /\ request' = [request EXCEPT ![r] = [request[r] EXCEPT
       !.call = call, !.id = t.id, !.token = t,
       !.old = Old(t), !.entitled = Entitled(t, call),
       !.pc = IF call \in TokenCalls THEN "find"
              ELSE IF redis_enabled THEN "lookup" ELSE "load"]]
  /\ UNCHANGED <<user, cached, tokens, redis_enabled, now, faults>>

Arrive(r, call) ==
  /\ request[r].pc = "idle"
  /\ call \in Calls \ (Authenticated \cup TokenCalls)
  /\ request' = [request EXCEPT ![r] = [request[r] EXCEPT
       !.call = call, !.id = user.id,
       !.pc = IF call = "restoreUser" THEN "write" ELSE "find"]]
  /\ UNCHANGED <<user, cached, tokens, redis_enabled, now, faults>>

SameVersionUnchecked(d, t) == TRUE     \* mutant: before token_version
SameVersion(d, t) == d.token_version = t.token_version

Admits(d, t, call) ==
  /\ d.state # "deleted"
  /\ d.status # "blocked"
  /\ SameVersion(d, t)
  /\ ~PasswordChangedSince(d, t)
  /\ {t.role, d.role} \subseteq RolesOf(call)

Decide(r, d, hit) ==
  LET q == request[r] IN
  request' = [request EXCEPT ![r] = [request[r] EXCEPT !.seen = d, !.hit = hit,
       !.pc = IF ~Admits(d, q.token, q.call) THEN "refused"
              ELSE CASE q.call = "getSelf" -> "done"
                     [] q.call = "logoutAllSessions" -> "write"
                     [] OTHER -> "find"]]

LookUp(r) ==
  /\ request[r].pc = "lookup"
  /\ \/ /\ \E d \in cached : d.id = request[r].id /\ Decide(r, d, TRUE)
        /\ UNCHANGED faults
     \/ /\ \A d \in cached : d.id # request[r].id
        /\ Goto(r, "load") /\ UNCHANGED faults
     \/ RedisFails /\ Goto(r, "fallback")
  /\ UNCHANGED <<user, cached, tokens, redis_enabled, now>>

LoadOnlyWithRedis(r) ==      \* mutant: a failed get is not caught
  LET q == request[r] IN
  /\ q.pc \in {"load", "fallback"}
  /\ IF user.state = "none" \/ user.id # q.id \/ q.pc = "fallback"
     THEN Goto(r, "refused")
     ELSE IF redis_enabled
     THEN request' = [request EXCEPT ![r].seen = user, ![r].pc = "store"]
     ELSE Decide(r, user, FALSE)
  /\ UNCHANGED <<user, cached, tokens, redis_enabled, now, faults>>
(* The collection is read without the model: no hook hides a document.     *)
Load(r) ==
  LET q == request[r] IN
  /\ q.pc \in {"load", "fallback"}
  /\ IF user.state = "none" \/ user.id # q.id
     THEN Goto(r, "refused")
     ELSE IF q.pc = "load" /\ redis_enabled
     THEN request' = [request EXCEPT ![r].seen = user, ![r].pc = "store"]
     ELSE Decide(r, user, FALSE)
  /\ UNCHANGED <<user, cached, tokens, redis_enabled, now, faults>>

Stored(d) == {c \in cached : c.id # d.id} \cup {d}

Store(r) ==
  LET d == request[r].seen IN
  /\ request[r].pc = "store"
  /\ \/ /\ cached' = Stored(d)
        /\ UNCHANGED faults
     \/ RedisFails /\ UNCHANGED cached
  /\ Decide(r, d, FALSE)
  /\ UNCHANGED <<user, tokens, redis_enabled, now>>

-----------------------------------------------------------------------------
(* The handlers *)

(* A write of the document, seen by the requests the middleware is at.     *)
Touched(q) == [q EXCEPT !.touched = @ \/ q.pc \in AuthPcs]
Revise(r, new, q) ==
  /\ user' = new
  /\ request' = [s \in Requests |-> IF s = r THEN q ELSE Touched(request[s])]

(* What the find of a handler asks of the document, which the hook hides   *)
(* when it is soft deleted.                                                *)
Finds(q) == Live /\ (q.call \in ByEmail \/ user.id = q.id)

NotBlocked == user.status # "blocked"

OldRefreshed(t) == TRUE     \* mutant: the refresh token's version is not compared
Refreshable(t) == user.token_version = t.token_version

(* Where a handler goes with the document it found. *)
WithUser(q) ==
  CASE q.call = "signin" -> IF NotBlocked THEN "answer" ELSE "rejected"
    [] q.call = "forgetPassword" ->
         IF NotBlocked /\ user.auth_source # "google" THEN "answer" ELSE "rejected"
    [] q.call = "refreshToken" ->
         IF NotBlocked /\ Refreshable(q.token) /\ ~PasswordChangedSince(user, q.token)
         THEN "answer" ELSE "rejected"
    [] q.call = "resetPassword" -> IF NotBlocked THEN "write" ELSE "rejected"
    [] q.call = "signup" -> "rejected"
    [] q.call = "googleSignin" ->
         IF user.auth_source = "email" THEN "link"
         ELSE IF NotBlocked THEN "answer" ELSE "rejected"
    [] q.call = "changePassword" ->
         IF user.auth_source = "google" THEN "rejected" ELSE "write"
    [] q.call = "deleteUser" -> "again"
    [] OTHER -> "write"

WithoutUser(q) ==
  CASE q.call \in {"signup", "googleSignin"} -> "create"
    [] q.call \in {"updateUsers", "deleteUsers"} -> "done"
    [] q.call = "deleteUserPermanent" /\ user.state = "deleted" /\ user.id = q.id ->
         "write"
    [] OTHER -> "rejected"

(* password_changed_at of a new document is the time it is constructed,    *)
(* before its password is hashed.                                          *)
Find(r) ==
  LET q == request[r] IN
  /\ q.pc = "find"
  /\ request' = [request EXCEPT
       ![r].seen = IF Finds(q) THEN user
                   ELSE [NoUser EXCEPT !.password_changed_at = now],
       ![r].pc = IF Finds(q) THEN WithUser(q) ELSE WithoutUser(q)]
  /\ UNCHANGED <<user, cached, tokens, redis_enabled, now, faults>>

(* softDeleteById finds the document once more, and is content with none.  *)
FindAgain(r) ==
  /\ request[r].pc = "again"
  /\ Goto(r, IF Finds(request[r]) THEN "write" ELSE "done")
  /\ UNCHANGED <<user, cached, tokens, redis_enabled, now, faults>>

(* email is unique, soft deleted documents included. *)
CreateUser(r) ==
  LET q == request[r] IN
  /\ q.pc = "create"
  /\ IF user.state # "none"
     THEN Goto(r, "rejected") /\ UNCHANGED user
     ELSE /\ user.id < MaxUsers
          /\ \E p \in IF q.call = "signup" THEN Passwords ELSE {"none"} :
               LET new == Created(user.id + 1, q.seen.password_changed_at, p,
                                  IF q.call = "signup" THEN "email" ELSE "google")
               IN Revise(r, new, [q EXCEPT !.pc = "answer", !.seen = new])
  /\ UNCHANGED <<cached, tokens, redis_enabled, now, faults>>

(* googleSignin takes an account over that had a password.  An update that *)
(* finds nothing leaves user null, and reading its _id throws.             *)
LinkGoogle(r) ==
  LET q == request[r]
      new == [user EXCEPT !.auth_source = "google"]
  IN /\ q.pc = "link"
     /\ IF Live /\ user.id = q.seen.id
        THEN Revise(r, new, [q EXCEPT !.seen = new,
                      !.pc = IF NotBlocked THEN "answer" ELSE "rejected"])
        ELSE Goto(r, "rejected") /\ UNCHANGED user
     /\ UNCHANGED <<cached, tokens, redis_enabled, now, faults>>

IssuedKinds(call) ==
  CASE call = "forgetPassword" -> {"reset"}
    [] call = "refreshToken" -> {"access"}
    [] OTHER -> {"access", "refresh"}

(* The tokens say what the document said when it was read; signin compares *)
(* the passwords in between.                                               *)
IssueTokens(r) ==
  LET q == request[r] IN
  /\ q.pc = "answer"
  /\ \/ /\ q.call = "signin" => q.seen.password # "none"
        /\ tokens' = tokens \cup {IssuedFrom(q.seen, k, now) : k \in IssuedKinds(q.call)}
        /\ Goto(r, "done")
     \/ q.call = "signin" /\ Goto(r, "rejected") /\ UNCHANGED tokens
  /\ UNCHANGED <<user, cached, redis_enabled, now, faults>>

(* The writes of the handlers, by a filter of their own each.  The ones on *)
(* many documents (deleteMany, updateMany) are not hooked.                 *)
Matches(q) ==
  CASE q.call = "changePassword" -> Live /\ user.role = q.seen.role
    [] q.call = "resetPassword" -> Live /\ user.id = q.seen.id
    [] q.call \in {"logoutAllSessions", "updateSelf", "updateUser"} ->
         Live /\ user.id = q.id
    [] q.call = "restoreUser" -> user.state = "deleted" /\ user.id = q.id
    [] OTHER -> user.state # "none" /\ user.id = q.id

NotIncremented(d) == d     \* mutant: no $inc
Incremented(d) == [d EXCEPT !.token_version = @ + 1]

NewPasswords ==
  {[Incremented(user) EXCEPT !.password = p, !.password_changed_at = now] :
     p \in Passwords}
NewRights ==
  {[Incremented(user) EXCEPT !.role = payload.role, !.status = payload.status] :
     payload \in [role : Roles, status : {"in-progress", "blocked"}]}
Moved(state) == {[user EXCEPT !.state = state]}

Revisions(call) ==
  CASE call \in {"changePassword", "resetPassword"} -> NewPasswords
    [] call \in {"updateUser", "updateUsers"} -> NewRights
    [] call \in {"updateSelf", "logoutAllSessions"} -> {Incremented(user)}
    [] call = "restoreUser" -> Moved("live")
    [] call = "deleteUserPermanent" -> Moved("none")
    [] OTHER -> Moved("deleted")

(* Most callers do not look whether a document was found; the client that  *)
(* gave a wrong current password is turned away before.                    *)
WriteUser(r) ==
  LET q == request[r] IN
  /\ q.pc = "write"
  /\ \/ /\ Matches(q)
        /\ \E new \in Revisions(q.call) :
             Revise(r, new, [q EXCEPT !.pc =
               IF q.call = "logoutAllSessions" THEN "clear" ELSE "done"])
     \/ /\ ~Matches(q)
        /\ Goto(r, IF q.call \in {"logoutAllSessions", "restoreUser", "deleteUser"}
                   THEN "rejected" ELSE "done")
        /\ UNCHANGED user
     \/ q.call = "changePassword" /\ Goto(r, "rejected") /\ UNCHANGED user
  /\ UNCHANGED <<cached, tokens, redis_enabled, now, faults>>

ClearCached(r) ==
  /\ request[r].pc = "clear"
  /\ \/ redis_enabled /\ cached' = {d \in cached : d.id # request[r].id}
          /\ UNCHANGED faults
     \/ redis_enabled /\ RedisFails /\ UNCHANGED cached
     \/ ~redis_enabled /\ UNCHANGED <<cached, faults>>
  /\ Goto(r, "done")
  /\ UNCHANGED <<user, tokens, redis_enabled, now>>

-----------------------------------------------------------------------------
Tick ==
  /\ now < MaxTicks
  /\ now' = now + 1
  /\ UNCHANGED <<user, cached, tokens, request, redis_enabled, faults>>

(* EX: 30 * 60 *)
CopyExpires ==
  /\ \E d \in cached : cached' = cached \ {d}
  /\ UNCHANGED <<user, tokens, request, redis_enabled, now, faults>>

Step(r) ==
  \/ LookUp(r)     \/ Load(r)       \/ Store(r)
  \/ Find(r)       \/ FindAgain(r)  \/ CreateUser(r) \/ LinkGoogle(r)
  \/ IssueTokens(r) \/ WriteUser(r) \/ ClearCached(r)

Next ==
  \/ \E r \in Requests :
       \/ Step(r)
       \/ \E call \in Calls :
            Arrive(r, call) \/ \E t \in tokens : ArriveWithToken(r, call, t)
  \/ Tick
  \/ CopyExpires

Spec == Init /\ [][Next]_vars

-----------------------------------------------------------------------------
(* Safety *)

(* Past the middleware, whatever the handler then answers. *)
Admitted(r) ==
  /\ request[r].call \in Authenticated
  /\ request[r].pc \notin AuthPcs \cup {"idle", "refused"}

(* A request whose token was outdated when it arrived, or whose account    *)
(* was closed to it and stayed so, is admitted only because of the cached  *)
(* copy: read from the database, no such request passes, whatever writes   *)
(* and Redis failures come in between (auth.middleware.ts).                *)
OldOnlyFromCache ==
  \A r \in Requests :
    LET q == request[r] IN
    Admitted(r) /\ ~q.hit => ~q.old /\ (q.entitled \/ q.touched)

(* A request with a current token is refused only because of the cached    *)
(* copy, or because the token was issued in the very second of a password  *)
(* change: iat is in whole seconds.                                        *)
CurrentWorks ==
  \A r \in Requests :
    LET q == request[r] IN
    q.pc = "refused" /\ q.entitled /\ ~q.touched =>
      q.hit \/ q.seen.password_changed_at \div TicksPerSecond = q.token.iat

(* A token of the current version says what the document says: no write of *)
(* role or password leaves the version alone (signin, updateUser, ...).    *)
TokensAgree ==
  \A t \in tokens :
    ~Old(t) => t.role = user.role /\ t.password = user.password

(* A token outdated when it arrived is not refreshed, unless its account   *)
(* was removed and made anew: refreshToken finds the account by email.     *)
RefreshesCurrent ==
  \A r \in Requests :
    LET q == request[r] IN
    q.call = "refreshToken" /\ q.old =>
      q.pc \in {"find", "rejected"} \/ q.seen.id # q.token.id
=============================================================================
