--------------------------- MODULE SessionProofs ---------------------------
(***************************************************************************)
(* Session's safety for any number of requests, users, ticks and faults.   *)
(***************************************************************************)
EXTENDS Session, TLAPS

Pcs == AuthPcs \cup {"idle", "find", "again", "create", "link", "write",
                     "answer", "clear", "done", "rejected", "refused"}

HandlerPcs == {"find", "again", "create", "link", "write", "answer", "clear",
               "done", "rejected"}

(* A document of the same account, or of one that was made later: u may    *)
(* become v.                                                               *)
Later(u, v) ==
  \/ u.id < v.id
  \/ u.id = v.id /\ u.token_version < v.token_version
  \/ /\ u.id = v.id /\ u.token_version = v.token_version
     /\ u.role = v.role /\ u.password = v.password

Flags(q) == <<q.call, q.hit, q.old, q.entitled, q.touched>>

(* What a step of a handler leaves to the other requests and to its own.   *)
Handled(r) ==
  LET q == request[r]  p == request'[r] IN
  /\ q.pc \in HandlerPcs /\ p.pc \in HandlerPcs
  /\ Flags(p) = Flags(q)
  /\ p.pc = "answer" => p.seen = user'
  /\ \A s \in Requests \ {r} :
       \/ request'[s] = request[s] /\ user' = user
       \/ request'[s] = Touched(request[s])

LEMMA UserTypes ==
  /\ NoUser \in Users
  /\ \A id \in Nat, at \in Nat, p \in Passwords \cup {"none"},
        source \in {"email", "google"} : Created(id, at, p, source) \in Users
<1>1. NoUser \in Users
  BY DEF NoUser, Users, Roles
<1> QED
  BY <1>1 DEF Created, Users

LEMMA TokenTypes ==
  ASSUME NEW d \in Users, NEW kind \in Kinds, NEW at \in Nat
  PROVE  IssuedFrom(d, kind, at) \in Tokens
<1>1. at \div TicksPerSecond \in Nat
  BY DEF TicksPerSecond
<1> QED
  BY <1>1 DEF IssuedFrom, Users, Tokens

LEMMA IncrementedType ==
  ASSUME NEW d \in Users
  PROVE  /\ Incremented(d) \in Users
         /\ Incremented(d).id = d.id
         /\ Incremented(d).token_version = d.token_version + 1
BY DEF Incremented, Users

LEMMA TouchedType ==
  ASSUME NEW q \in RequestStates
  PROVE  /\ Touched(q) \in RequestStates
         /\ Touched(q) = [q EXCEPT !.touched = q.touched \/ q.pc \in AuthPcs]
BY DEF Touched, RequestStates

(* A step of one request, the others unchanged or touched. *)
LEMMA StepType ==
  ASSUME TypeOK, NEW r \in Requests, NEW q \in RequestStates,
         \/ request' = [request EXCEPT ![r] = q]
         \/ request' = [s \in Requests |-> IF s = r THEN q ELSE Touched(request[s])]
  PROVE  request' \in [Requests -> RequestStates]
BY TouchedType DEF TypeOK

LEMMA GotoType ==
  ASSUME TypeOK, NEW r \in Requests, NEW pc \in Pcs, Goto(r, pc)
  PROVE  /\ request' = [request EXCEPT ![r] = [request[r] EXCEPT !.pc = pc]]
         /\ request' \in [Requests -> RequestStates]
<1>0. request[r] \in RequestStates
  BY DEF TypeOK
<1>1. [request[r] EXCEPT !.pc = pc] \in RequestStates
  BY <1>0 DEF RequestStates, Pcs
<1>2. request' = [request EXCEPT ![r] = [request[r] EXCEPT !.pc = pc]]
  BY DEF Goto
<1> QED
  BY <1>1, <1>2, StepType

DecidesTo(r, d, hit, pc) ==
  request' = [request EXCEPT ![r] =
    [request[r] EXCEPT !.seen = d, !.hit = hit, !.pc = pc]]

LEMMA DecideType ==
  ASSUME TypeOK, NEW r \in Requests, NEW d \in Users, NEW hit \in BOOLEAN,
         Decide(r, d, hit)
  PROVE  \E pc \in {"refused", "done", "write", "find"} :
           /\ DecidesTo(r, d, hit, pc)
           /\ pc # "refused" => Admits(d, request[r].token, request[r].call)
           /\ request' \in [Requests -> RequestStates]
<1>0. request[r] \in RequestStates
  BY DEF TypeOK
<1>1. \A pc \in {"refused", "done", "write", "find"} :
        [request[r] EXCEPT !.seen = d, !.hit = hit, !.pc = pc] \in RequestStates
  BY <1>0 DEF RequestStates
<1> DEFINE pc == IF ~Admits(d, request[r].token, request[r].call) THEN "refused"
                 ELSE CASE request[r].call = "getSelf" -> "done"
                        [] request[r].call = "logoutAllSessions" -> "write"
                        [] OTHER -> "find"
<1>2. pc \in {"refused", "done", "write", "find"}
  OBVIOUS
<1>3. pc # "refused" => Admits(d, request[r].token, request[r].call)
  OBVIOUS
<1>4. DecidesTo(r, d, hit, pc)
  BY DEF Decide, DecidesTo
<1> HIDE DEF pc
<1>5. request' \in [Requests -> RequestStates]
  BY <1>1, <1>2, <1>4, StepType DEF DecidesTo
<1> QED
  BY <1>2, <1>3, <1>4, <1>5

LEMMA InitType == Init => TypeOK
<1> SUFFICES ASSUME Init PROVE TypeOK
  OBVIOUS
<1>1. NoToken \in Tokens
  BY DEF NoToken, Tokens, Kinds, Roles
<1>2. \A r \in Requests : request[r] \in RequestStates
  BY <1>1, UserTypes DEF Init, RequestStates, CallNames, Authenticated
<1>3. now \in Nat /\ faults \in Nat /\ redis_enabled \in BOOLEAN
  BY CallsAssumption DEF Init, TicksPerSecond
<1>4. user \in Users /\ tokens \in SUBSET Tokens
  <2>1. CASE user = NoUser /\ tokens = {}
    BY <2>1, UserTypes
  <2>2. ASSUME NEW p \in Passwords, user = Created(1, 0, p, "email"),
               tokens = {IssuedFrom(user, k, TicksPerSecond) :
                           k \in {"access", "refresh"}}
        PROVE  user \in Users /\ tokens \in SUBSET Tokens
    <3>1. user \in Users
      BY <2>2, UserTypes
    <3>2. TicksPerSecond \in Nat
      BY DEF TicksPerSecond
    <3>3. \A k \in {"access", "refresh"} : IssuedFrom(user, k, TicksPerSecond) \in Tokens
      BY <3>1, <3>2, TokenTypes DEF Kinds
    <3> QED
      BY <2>2, <3>1, <3>3
  <2> QED
    BY <2>1, <2>2 DEF Init
<1> QED
  BY <1>2, <1>3, <1>4 DEF Init, TypeOK

-----------------------------------------------------------------------------
(* The type invariant, action by action. *)

LEMMA ArriveType ==
  ASSUME TypeOK, NEW r \in Requests, NEW call \in Calls,
         Arrive(r, call) \/ \E t \in tokens : ArriveWithToken(r, call, t)
  PROVE  TypeOK'
<1>0. request[r] \in RequestStates /\ call \in CallNames /\ user.id \in Nat
  BY CallsAssumption DEF TypeOK, Users
<1>1. CASE Arrive(r, call)
  <2>1. \A pc \in {"write", "find"} :
          [request[r] EXCEPT !.call = call, !.id = user.id, !.pc = pc] \in RequestStates
    BY <1>0 DEF RequestStates
  <2>2. request' \in [Requests -> RequestStates]
    BY <1>1, <2>1 DEF Arrive, TypeOK
  <2> QED
    BY <1>1, <2>2 DEF Arrive, TypeOK
<1>2. ASSUME NEW t \in tokens, ArriveWithToken(r, call, t) PROVE TypeOK'
  <2>0. t \in Tokens /\ t.id \in Nat
    BY DEF TypeOK, Tokens
  <2>1. Old(t) \in BOOLEAN /\ Entitled(t, call) \in BOOLEAN
    BY DEF Old, Entitled
  <2>2. \A pc \in {"find", "lookup", "load"} :
          [request[r] EXCEPT !.call = call, !.id = t.id, !.token = t,
             !.old = Old(t), !.entitled = Entitled(t, call), !.pc = pc]
            \in RequestStates
    BY <1>0, <2>0, <2>1 DEF RequestStates, AuthPcs
  <2>3. request' \in [Requests -> RequestStates]
    BY <1>2, <2>2 DEF ArriveWithToken, TypeOK
  <2> QED
    BY <1>2, <2>3 DEF ArriveWithToken, TypeOK
<1> QED
  BY <1>1, <1>2

LEMMA MiddlewareType ==
  ASSUME TypeOK, NEW r \in Requests, LookUp(r) \/ Load(r) \/ Store(r)
  PROVE  TypeOK'
<1>0. request[r] \in RequestStates /\ faults \in Nat
  BY DEF TypeOK
<1>1. CASE LookUp(r)
  <2>1. request' \in [Requests -> RequestStates]
    <3>1. ASSUME NEW d \in cached, Decide(r, d, TRUE)
          PROVE  request' \in [Requests -> RequestStates]
      BY <3>1, DecideType DEF TypeOK
    <3>2. ASSUME Goto(r, "load") \/ Goto(r, "fallback")
          PROVE  request' \in [Requests -> RequestStates]
      BY <3>2, GotoType DEF Pcs, AuthPcs
    <3> QED
      BY <1>1, <3>1, <3>2 DEF LookUp
  <2>2. faults' = faults \/ faults' = faults + 1
    BY <1>1, Zenon DEF LookUp, RedisFails
  <2>3. faults' \in Nat
    BY <1>0, <2>2
  <2> QED
    BY <1>1, <2>1, <2>3 DEF LookUp, TypeOK
<1>2. CASE Load(r)
  <2>1. [request[r] EXCEPT !.seen = user, !.pc = "store"] \in RequestStates
    BY <1>0 DEF RequestStates, AuthPcs, TypeOK
  <2>2. request' \in [Requests -> RequestStates]
    <3>1. CASE Goto(r, "refused")
      BY <3>1, GotoType DEF Pcs
    <3>2. CASE Decide(r, user, FALSE)
      BY <3>2, DecideType DEF TypeOK
    <3>3. CASE request' = [request EXCEPT ![r].seen = user, ![r].pc = "store"]
      BY <3>3, <2>1 DEF TypeOK
    <3> QED
      BY <1>2, <3>1, <3>2, <3>3 DEF Load
  <2> QED
    BY <1>2, <2>2 DEF Load, TypeOK
<1>3. CASE Store(r)
  <2>0. request[r].seen \in Users
    BY <1>0 DEF RequestStates
  <2>1. request' \in [Requests -> RequestStates]
    BY <1>3, <2>0, DecideType DEF Store
  <2>2. cached' \in SUBSET Users /\ \A c, d \in cached' : c.id = d.id => c = d
    BY <1>3, <2>0 DEF Store, Stored, TypeOK
  <2>3. faults' = faults \/ faults' = faults + 1
    BY <1>3, Zenon DEF Store, RedisFails
  <2>4. faults' \in Nat
    BY <1>0, <2>3
  <2> QED
    BY <1>3, <2>1, <2>2, <2>4 DEF Store, TypeOK
<1> QED
  BY <1>1, <1>2, <1>3

(* A step that sends a handler on, and leaves the account alone. *)
LEMMA MovedOn ==
  ASSUME TypeOK, NEW r \in Requests, NEW pc \in HandlerPcs, NEW seen \in Users,
         request[r].pc \in HandlerPcs, user' = user, pc = "answer" => seen = user,
         request' = [request EXCEPT ![r] =
                       [request[r] EXCEPT !.seen = seen, !.pc = pc]]
  PROVE  request' \in [Requests -> RequestStates] /\ Handled(r) /\ Later(user, user')
<1>0. request[r] \in RequestStates
  BY DEF TypeOK
<1>1. [request[r] EXCEPT !.seen = seen, !.pc = pc] \in RequestStates
  BY <1>0 DEF RequestStates, HandlerPcs
<1>2. request' \in [Requests -> RequestStates]
  BY <1>1, StepType
<1>3. Handled(r)
  <2>1. /\ request'[r] = [request[r] EXCEPT !.seen = seen, !.pc = pc]
        /\ \A s \in Requests \ {r} : request'[s] = request[s]
    BY DEF TypeOK
  <2> DEFINE e == [request[r] EXCEPT !.seen = seen, !.pc = pc]
  <2>2. e.pc = pc /\ e.seen = seen /\ Flags(e) = Flags(request[r])
    BY <1>0 DEF RequestStates, Flags
  <2>3. request'[r] = e
    BY <2>1
  <2> HIDE DEF e
  <2> QED
    BY <2>1, <2>2, <2>3 DEF Handled
<1> QED
  BY <1>2, <1>3 DEF Later

LEMMA GotoMoves ==
  ASSUME TypeOK, NEW r \in Requests, NEW pc \in HandlerPcs \ {"answer"},
         request[r].pc \in HandlerPcs, user' = user, Goto(r, pc)
  PROVE  request' \in [Requests -> RequestStates] /\ Handled(r) /\ Later(user, user')
<1>0. request[r] \in RequestStates /\ request[r].seen \in Users
  BY DEF TypeOK, RequestStates
<1>1. request' = [request EXCEPT ![r] = [request[r] EXCEPT !.pc = pc]]
  BY GotoType DEF HandlerPcs, Pcs
<1>2. [request[r] EXCEPT !.pc = pc] =
        [request[r] EXCEPT !.seen = request[r].seen, !.pc = pc]
  BY <1>0 DEF RequestStates
<1> QED
  BY <1>0, <1>1, <1>2, MovedOn

LEMMA FindStep ==
  ASSUME TypeOK, NEW r \in Requests, Find(r) \/ FindAgain(r)
  PROVE  TypeOK' /\ Handled(r) /\ Later(user, user') /\ tokens' = tokens
<1>1. CASE Find(r)
  <2> DEFINE q == request[r]
             seen == IF Finds(q) THEN user
                     ELSE [NoUser EXCEPT !.password_changed_at = now]
             pc == IF Finds(q) THEN WithUser(q) ELSE WithoutUser(q)
  <2>1. seen \in Users
    <3>1. [NoUser EXCEPT !.password_changed_at = now] \in Users
      BY UserTypes DEF TypeOK, Users
    <3> QED
      BY <3>1 DEF TypeOK
  <2>2. pc \in HandlerPcs
    BY DEF WithUser, WithoutUser, HandlerPcs
  <2>3. pc = "answer" => seen = user
    BY DEF WithUser, WithoutUser
  <2>4. request' = [request EXCEPT ![r].seen = seen, ![r].pc = pc]
    BY <1>1 DEF Find
  <2> HIDE DEF seen, pc
  <2>5. request' = [request EXCEPT ![r] = [request[r] EXCEPT !.seen = seen, !.pc = pc]]
    BY <2>4
  <2>6. user' = user /\ q.pc \in HandlerPcs
    BY <1>1 DEF Find, HandlerPcs
  <2>7. request' \in [Requests -> RequestStates] /\ Handled(r) /\ Later(user, user')
    BY <2>1, <2>2, <2>3, <2>5, <2>6, MovedOn
  <2> QED
    BY <1>1, <2>7 DEF Find, TypeOK
<1>2. CASE FindAgain(r)
  <2>1. PICK pc \in {"write", "done"} : Goto(r, pc)
    BY <1>2 DEF FindAgain
  <2>2. request[r].pc \in HandlerPcs /\ user' = user
    BY <1>2 DEF FindAgain, HandlerPcs
  <2>3. request' \in [Requests -> RequestStates] /\ Handled(r) /\ Later(user, user')
    BY <2>1, <2>2, GotoMoves DEF HandlerPcs
  <2> QED
    BY <1>2, <2>3 DEF FindAgain, TypeOK
<1> QED
  BY <1>1, <1>2

(* A step that writes the account. *)
LEMMA Revised ==
  ASSUME TypeOK, NEW r \in Requests, NEW pc \in HandlerPcs, NEW seen \in Users,
         NEW new \in Users, request[r].pc \in HandlerPcs,
         pc = "answer" => seen = new,
         Revise(r, new, [request[r] EXCEPT !.seen = seen, !.pc = pc])
  PROVE  /\ user' \in Users /\ user' = new
         /\ request' \in [Requests -> RequestStates] /\ Handled(r)
<1>0. request[r] \in RequestStates
  BY DEF TypeOK
<1>1. [request[r] EXCEPT !.seen = seen, !.pc = pc] \in RequestStates
  BY <1>0 DEF RequestStates, HandlerPcs
<1>2. user' = new
  BY DEF Revise
<1>3. request' = [s \in Requests |->
                    IF s = r THEN [request[r] EXCEPT !.seen = seen, !.pc = pc]
                    ELSE Touched(request[s])]
  BY DEF Revise
<1>4. request' \in [Requests -> RequestStates]
  BY <1>1, <1>3, StepType
<1>5. Handled(r)
  <2>1. /\ request'[r] = [request[r] EXCEPT !.seen = seen, !.pc = pc]
        /\ \A s \in Requests \ {r} : request'[s] = Touched(request[s])
    BY <1>3
  <2> DEFINE e == [request[r] EXCEPT !.seen = seen, !.pc = pc]
  <2>2. e.pc = pc /\ e.seen = seen /\ Flags(e) = Flags(request[r])
    BY <1>0 DEF RequestStates, Flags
  <2>3. request'[r] = e
    BY <2>1
  <2> HIDE DEF e
  <2> QED
    BY <1>2, <2>1, <2>2, <2>3 DEF Handled
<1> QED
  BY <1>2, <1>4, <1>5

LEMMA CreateStep ==
  ASSUME TypeOK, NEW r \in Requests, CreateUser(r)
  PROVE  TypeOK' /\ Handled(r) /\ Later(user, user') /\ tokens' = tokens
<1>0. request[r] \in RequestStates /\ request[r].pc \in HandlerPcs
  BY DEF TypeOK, CreateUser, HandlerPcs
<1>1. CASE Goto(r, "rejected") /\ UNCHANGED user
  <2>1. request' \in [Requests -> RequestStates] /\ Handled(r) /\ Later(user, user')
    BY <1>0, <1>1, GotoMoves DEF HandlerPcs
  <2> QED
    BY <1>1, <2>1 DEF CreateUser, TypeOK
<1>2. ASSUME NEW p \in Passwords \cup {"none"}, NEW source \in {"email", "google"},
             LET new == Created(user.id + 1, request[r].seen.password_changed_at,
                                p, source)
             IN Revise(r, new, [request[r] EXCEPT !.pc = "answer", !.seen = new])
      PROVE  TypeOK' /\ Handled(r) /\ Later(user, user')
  <2> DEFINE new == Created(user.id + 1, request[r].seen.password_changed_at, p, source)
  <2>1. user.id \in Nat /\ request[r].seen.password_changed_at \in Nat
    BY <1>0 DEF TypeOK, Users, RequestStates
  <2>2. new \in Users
    BY <2>1, UserTypes
  <2>3. new.id = user.id + 1
    BY UserTypes DEF Created, Users
  <2>4. [request[r] EXCEPT !.pc = "answer", !.seen = new] =
          [request[r] EXCEPT !.seen = new, !.pc = "answer"]
    BY <1>0 DEF RequestStates
  <2>5. Revise(r, new, [request[r] EXCEPT !.pc = "answer", !.seen = new])
    BY <1>2
  <2> HIDE DEF new
  <2>6. Revise(r, new, [request[r] EXCEPT !.seen = new, !.pc = "answer"])
    BY <2>4, <2>5
  <2>7. "answer" \in HandlerPcs
    BY DEF HandlerPcs
  <2>8. /\ user' \in Users /\ user' = new
        /\ request' \in [Requests -> RequestStates] /\ Handled(r)
    BY <1>0, <2>2, <2>6, <2>7, Revised
  <2>9. Later(user, user')
    BY <2>1, <2>3, <2>8 DEF Later
  <2> QED
    BY <2>8, <2>9 DEF CreateUser, TypeOK
<1>3. \/ Goto(r, "rejected") /\ UNCHANGED user
      \/ \E p \in Passwords \cup {"none"}, source \in {"email", "google"} :
           LET new == Created(user.id + 1, request[r].seen.password_changed_at,
                              p, source)
           IN Revise(r, new, [request[r] EXCEPT !.pc = "answer", !.seen = new])
  BY DEF CreateUser
<1>4. tokens' = tokens
  BY DEF CreateUser
<1> QED
  BY <1>1, <1>2, <1>3, <1>4

LEMMA LinkStep ==
  ASSUME TypeOK, NEW r \in Requests, LinkGoogle(r)
  PROVE  TypeOK' /\ Handled(r) /\ Later(user, user') /\ tokens' = tokens
<1>0. request[r] \in RequestStates /\ request[r].pc \in HandlerPcs
  BY DEF TypeOK, LinkGoogle, HandlerPcs
<1> DEFINE new == [user EXCEPT !.auth_source = "google"]
           pc == IF NotBlocked THEN "answer" ELSE "rejected"
<1>1. new \in Users
  BY DEF TypeOK, Users
<1>2. pc \in HandlerPcs
  BY DEF HandlerPcs
<1>3. /\ new.id = user.id /\ new.token_version = user.token_version
      /\ new.role = user.role /\ new.password = user.password
  BY DEF TypeOK, Users
<1>4. \/ Goto(r, "rejected") /\ user' = user
      \/ Revise(r, new, [request[r] EXCEPT !.seen = new, !.pc = pc])
  BY DEF LinkGoogle
<1> HIDE DEF new, pc
<1>5. CASE Goto(r, "rejected") /\ user' = user
  <2>1. request' \in [Requests -> RequestStates] /\ Handled(r) /\ Later(user, user')
    BY <1>0, <1>5, GotoMoves DEF HandlerPcs
  <2> QED
    BY <1>5, <2>1 DEF LinkGoogle, TypeOK
<1>6. CASE Revise(r, new, [request[r] EXCEPT !.seen = new, !.pc = pc])
  <2>1. /\ user' \in Users /\ user' = new
        /\ request' \in [Requests -> RequestStates] /\ Handled(r)
    BY <1>0, <1>1, <1>2, <1>6, Revised
  <2>2. Later(user, user')
    BY <1>3, <2>1 DEF Later
  <2> QED
    BY <2>1, <2>2 DEF LinkGoogle, TypeOK
<1> QED
  BY <1>4, <1>5, <1>6

(* Every write of a handler is a new version, or moves the document between*)
(* its states.                                                             *)
LEMMA RevisionsLater ==
  ASSUME TypeOK, NEW call \in CallNames, NEW new \in Revisions(call)
  PROVE  new \in Users /\ Later(user, new)
<1>0. user \in Users /\ now \in Nat
  BY DEF TypeOK
<1>1. /\ Incremented(user) \in Users
      /\ Incremented(user).id = user.id
      /\ Incremented(user).token_version = user.token_version + 1
  BY <1>0, IncrementedType
<1>2. user.token_version \in Nat
  BY <1>0 DEF Users
<1>3. NewPasswords \subseteq Users /\ \A pw \in NewPasswords : Later(user, pw)
  <2> SUFFICES ASSUME NEW p \in Passwords, NEW pw,
                      pw = [Incremented(user) EXCEPT !.password = p,
                                                      !.password_changed_at = now]
               PROVE  pw \in Users /\ Later(user, pw)
    BY DEF NewPasswords
  <2>1. /\ pw \in Users /\ pw.id = Incremented(user).id
        /\ pw.token_version = Incremented(user).token_version
    BY <1>0, <1>1 DEF Users
  <2> QED
    BY <1>1, <1>2, <2>1 DEF Later
<1>4. NewRights \subseteq Users /\ \A rt \in NewRights : Later(user, rt)
  <2> SUFFICES ASSUME NEW p \in [role : Roles, status : {"in-progress", "blocked"}],
                      NEW rt,
                      rt = [Incremented(user) EXCEPT !.role = p.role,
                                                      !.status = p.status]
               PROVE  rt \in Users /\ Later(user, rt)
    BY DEF NewRights
  <2>1. /\ rt \in Users /\ rt.id = Incremented(user).id
        /\ rt.token_version = Incremented(user).token_version
    BY <1>1 DEF Users
  <2> QED
    BY <1>1, <1>2, <2>1 DEF Later
<1>5. Later(user, Incremented(user))
  BY <1>1, <1>2 DEF Later
<1>6. ASSUME NEW s \in {"live", "none", "deleted"}
      PROVE  Moved(s) \subseteq Users /\ \A mv \in Moved(s) : Later(user, mv)
  <2> DEFINE mv == [user EXCEPT !.state = s]
  <2>1. /\ mv \in Users /\ mv.id = user.id /\ mv.role = user.role
        /\ mv.token_version = user.token_version /\ mv.password = user.password
    BY <1>0 DEF Users
  <2>2. Moved(s) = {mv}
    BY DEF Moved
  <2> QED
    BY <2>1, <2>2 DEF Later
<1>7. \/ Revisions(call) \in {NewPasswords, NewRights, {Incremented(user)}}
      \/ Revisions(call) \in {Moved("live"), Moved("none"), Moved("deleted")}
  BY DEF Revisions
<1> QED
  BY <1>1, <1>3, <1>4, <1>5, <1>6, <1>7

LEMMA WriteStep ==
  ASSUME TypeOK, NEW r \in Requests, WriteUser(r)
  PROVE  TypeOK' /\ Handled(r) /\ Later(user, user') /\ tokens' = tokens
<1>0. /\ request[r] \in RequestStates /\ request[r].pc \in HandlerPcs
      /\ request[r].call \in CallNames /\ request[r].seen \in Users
  BY DEF TypeOK, WriteUser, HandlerPcs, RequestStates
<1>1. ASSUME NEW pc \in {"done", "rejected"}, Goto(r, pc), user' = user
      PROVE  TypeOK' /\ Handled(r) /\ Later(user, user')
  <2>1. request' \in [Requests -> RequestStates] /\ Handled(r) /\ Later(user, user')
    BY <1>0, <1>1, GotoMoves DEF HandlerPcs
  <2> QED
    BY <1>1, <2>1 DEF WriteUser, TypeOK
<1>2. ASSUME NEW new \in Revisions(request[r].call), NEW pc \in {"clear", "done"},
             Revise(r, new, [request[r] EXCEPT !.pc = pc])
      PROVE  TypeOK' /\ Handled(r) /\ Later(user, user')
  <2>1. new \in Users /\ Later(user, new)
    BY <1>0, RevisionsLater
  <2>2. [request[r] EXCEPT !.pc = pc] =
          [request[r] EXCEPT !.seen = request[r].seen, !.pc = pc]
    BY <1>0 DEF RequestStates
  <2>3. pc \in HandlerPcs /\ pc # "answer"
    BY DEF HandlerPcs
  <2>4. Revise(r, new, [request[r] EXCEPT !.seen = request[r].seen, !.pc = pc])
    BY <1>2, <2>2
  <2>5. /\ user' \in Users /\ user' = new
        /\ request' \in [Requests -> RequestStates] /\ Handled(r)
    BY <1>0, <2>1, <2>3, <2>4, Revised
  <2> QED
    BY <2>1, <2>5 DEF WriteUser, TypeOK
<1>3. \/ \E pc \in {"done", "rejected"} : Goto(r, pc) /\ user' = user
      \/ \E new \in Revisions(request[r].call), pc \in {"clear", "done"} :
           Revise(r, new, [request[r] EXCEPT !.pc = pc])
  BY DEF WriteUser
<1>4. tokens' = tokens
  BY DEF WriteUser
<1> QED
  BY <1>1, <1>2, <1>3, <1>4

LEMMA ClearStep ==
  ASSUME TypeOK, NEW r \in Requests, ClearCached(r)
  PROVE  TypeOK' /\ Handled(r) /\ Later(user, user') /\ tokens' = tokens
<1>0. request[r].pc \in HandlerPcs /\ user' = user /\ Goto(r, "done")
  BY DEF ClearCached, HandlerPcs
<1>1. request' \in [Requests -> RequestStates] /\ Handled(r) /\ Later(user, user')
  BY <1>0, GotoMoves DEF HandlerPcs
<1>2. cached' \in SUBSET cached
  BY DEF ClearCached
<1>3. faults' = faults \/ faults' = faults + 1
  BY Zenon DEF ClearCached, RedisFails
<1>4. faults' \in Nat
  BY <1>3 DEF TypeOK
<1> QED
  BY <1>1, <1>2, <1>4 DEF ClearCached, TypeOK

(* Tokens say what an account said that an answer has seen. *)
LEMMA IssueStep ==
  ASSUME TypeOK, NEW r \in Requests, IssueTokens(r)
  PROVE  /\ TypeOK' /\ Handled(r) /\ Later(user, user')
         /\ request[r].pc = "answer"
         /\ \A t \in tokens' :
              t \in tokens \/ \E k \in Kinds : t = IssuedFrom(request[r].seen, k, now)
<1>0. /\ request[r].pc \in HandlerPcs /\ user' = user
      /\ request[r].pc = "answer" /\ request[r].seen \in Users /\ now \in Nat
  BY DEF IssueTokens, HandlerPcs, TypeOK, RequestStates
<1>1. PICK pc \in {"done", "rejected"} : Goto(r, pc)
  BY DEF IssueTokens
<1>2. request' \in [Requests -> RequestStates] /\ Handled(r) /\ Later(user, user')
  BY <1>0, <1>1, GotoMoves DEF HandlerPcs
<1>3. IssuedKinds(request[r].call) \subseteq Kinds
  BY DEF IssuedKinds, Kinds
<1>4. \/ tokens' = tokens
      \/ tokens' = tokens \cup {IssuedFrom(request[r].seen, k, now) :
                                  k \in IssuedKinds(request[r].call)}
  BY DEF IssueTokens
<1>5. \A t \in tokens' :
        t \in tokens \/ \E k \in Kinds : t = IssuedFrom(request[r].seen, k, now)
  BY <1>3, <1>4
<1>6. tokens' \in SUBSET Tokens
  BY <1>0, <1>5, TokenTypes DEF TypeOK
<1> QED
  BY <1>0, <1>2, <1>5, <1>6 DEF IssueTokens, TypeOK

LEMMA EnvironmentStep ==
  ASSUME TypeOK, Tick \/ CopyExpires
  PROVE  TypeOK' /\ UNCHANGED <<user, tokens, request>>
BY DEF TypeOK, Tick, CopyExpires

LEMMA HandlerStep ==
  ASSUME TypeOK, NEW r \in Requests,
         \/ Find(r) \/ FindAgain(r) \/ CreateUser(r) \/ LinkGoogle(r)
         \/ IssueTokens(r) \/ WriteUser(r) \/ ClearCached(r)
  PROVE  /\ TypeOK' /\ Handled(r) /\ Later(user, user')
         /\ \A t \in tokens' :
              \/ t \in tokens
              \/ /\ request[r].pc = "answer"
                 /\ \E k \in Kinds : t = IssuedFrom(request[r].seen, k, now)
BY FindStep, CreateStep, LinkStep, IssueStep, WriteStep, ClearStep

LEMMA TypeStep == TypeOK /\ [Next]_vars => TypeOK'
<1> SUFFICES ASSUME TypeOK, [Next]_vars PROVE TypeOK'
  OBVIOUS
<1>1. ASSUME NEW r \in Requests, Step(r) PROVE TypeOK'
  BY <1>1, MiddlewareType, HandlerStep DEF Step
<1>2. ASSUME NEW r \in Requests, NEW call \in Calls,
             Arrive(r, call) \/ \E t \in tokens : ArriveWithToken(r, call, t)
      PROVE  TypeOK'
  BY <1>2, ArriveType
<1>3. ASSUME UNCHANGED vars PROVE TypeOK'
  BY <1>3 DEF vars, TypeOK
<1> QED
  BY <1>1, <1>2, <1>3, EnvironmentStep DEF Next

(* TypeOK holds for any number of requests, users, ticks and failures of   *)
(* Redis (user.model.ts, auth.middleware.ts).                              *)
THEOREM TypeCorrect == Spec => []TypeOK
<1>1. Init => TypeOK
  BY InitType
<1>2. TypeOK /\ [Next]_vars => TypeOK'
  BY TypeStep
<1> QED
  BY <1>1, <1>2, PTL DEF Spec

-----------------------------------------------------------------------------
(* Versions.  Every token, and every document that an answer is signed     *)
(* from, is at most as new as the account.                                 *)

VersionsInv ==
  /\ \A t \in tokens : Later(t, user)
  /\ \A r \in Requests : request[r].pc = "answer" => Later(request[r].seen, user)

LEMMA LaterTransitive ==
  ASSUME NEW u, NEW v, NEW w, u.id \in Nat, v.id \in Nat, w.id \in Nat,
         u.token_version \in Nat, v.token_version \in Nat, w.token_version \in Nat,
         Later(u, v), Later(v, w)
  PROVE  Later(u, w)
BY DEF Later

LEMMA IssuedLater ==
  ASSUME NEW d \in Users, NEW k \in Kinds, Later(d, user)
  PROVE  Later(IssuedFrom(d, k, now), user)
BY DEF Later, IssuedFrom, Users

LEMMA VersionsInit == Init => VersionsInv
<1> SUFFICES ASSUME Init PROVE VersionsInv
  OBVIOUS
<1>1. \A r \in Requests : request[r].pc # "answer"
  BY DEF Init
<1>2. \A t \in tokens : Later(t, user)
  BY DEF Init, Later, IssuedFrom
<1> QED
  BY <1>1, <1>2 DEF VersionsInv

LEMMA VersionsStep == TypeOK /\ VersionsInv /\ [Next]_vars => VersionsInv'
<1> SUFFICES ASSUME TypeOK, VersionsInv, [Next]_vars PROVE VersionsInv'
  OBVIOUS
<1>t. /\ user.id \in Nat /\ user.token_version \in Nat
      /\ \A r \in Requests : request[r].seen \in Users
      /\ \A d \in Users \cup Tokens : d.id \in Nat /\ d.token_version \in Nat
  BY DEF TypeOK, Users, Tokens, RequestStates
<1>p. user' \in Users /\ user'.id \in Nat /\ user'.token_version \in Nat
  BY TypeStep, <1>t DEF TypeOK
<1>1. ASSUME UNCHANGED <<user, tokens>>,
             \A r \in Requests : request'[r].pc = "answer" =>
               request'[r] = request[r]
      PROVE  VersionsInv'
  BY <1>1 DEF VersionsInv
<1>2. ASSUME NEW r \in Requests,
             \/ Find(r) \/ FindAgain(r) \/ CreateUser(r) \/ LinkGoogle(r)
             \/ IssueTokens(r) \/ WriteUser(r) \/ ClearCached(r)
      PROVE  VersionsInv'
  <2>1. /\ Handled(r) /\ Later(user, user')
        /\ \A t \in tokens' :
             \/ t \in tokens
             \/ /\ request[r].pc = "answer"
                /\ \E k \in Kinds : t = IssuedFrom(request[r].seen, k, now)
    BY <1>2, HandlerStep
  <2>2. \A t \in tokens' : t \in Tokens /\ Later(t, user)
    <3>1. \A t \in tokens' : t \in Tokens
      BY TypeStep DEF TypeOK
    <3>2. ASSUME request[r].pc = "answer", NEW k \in Kinds
          PROVE  Later(IssuedFrom(request[r].seen, k, now), user)
      BY <1>t, <3>2, IssuedLater DEF VersionsInv
    <3> QED
      BY <2>1, <3>1, <3>2 DEF VersionsInv
  <2>3. \A t \in tokens' : Later(t, user')
    BY <1>t, <1>p, <2>1, <2>2, LaterTransitive
  <2>4. ASSUME NEW s \in Requests, request'[s].pc = "answer"
        PROVE  Later(request'[s].seen, user')
    <3>1. CASE s = r
      BY <2>1, <2>4, <3>1 DEF Handled, Later
    <3>2. CASE s # r
      <4>1. request'[s].pc = request[s].pc /\ request'[s].seen = request[s].seen
        <5>1. request'[s] = request[s] \/ request'[s] = Touched(request[s])
          BY <2>1, <3>2 DEF Handled
        <5>2. request[s] \in RequestStates
          BY DEF TypeOK
        <5> QED
          BY <5>1, <5>2, TouchedType DEF RequestStates
      <4>2. Later(request[s].seen, user)
        BY <2>4, <4>1 DEF VersionsInv
      <4> QED
        BY <1>t, <1>p, <2>1, <4>1, <4>2, LaterTransitive
    <3> QED
      BY <3>1, <3>2
  <2> QED
    BY <2>3, <2>4 DEF VersionsInv
<1>3. ASSUME NEW r \in Requests, NEW pc, pc # "answer", UNCHANGED <<user, tokens>>,
             \A s \in Requests \ {r} : request'[s] = request[s],
             request'[r].pc = pc
      PROVE  VersionsInv'
  BY <1>1, <1>3
<1>4. ASSUME NEW r \in Requests, LookUp(r) \/ Load(r) \/ Store(r)
      PROVE  VersionsInv'
  <2>1. UNCHANGED <<user, tokens>>
    BY <1>4 DEF LookUp, Load, Store
  <2>2. /\ \A s \in Requests \ {r} : request'[s] = request[s]
        /\ request'[r].pc # "answer"
    <3>0. request[r] \in RequestStates /\ request[r].seen \in Users
      BY DEF TypeOK, RequestStates
    <3>1. ASSUME NEW pc \in Pcs \ {"answer"}, Goto(r, pc) PROVE <2>2
      <4>1. request' = [request EXCEPT ![r] = [request[r] EXCEPT !.pc = pc]]
        BY <3>1, GotoType
      <4> QED
        BY <3>0, <4>1 DEF TypeOK, RequestStates
    <3>2. ASSUME NEW d \in Users, NEW hit \in BOOLEAN, Decide(r, d, hit) PROVE <2>2
      <4>1. PICK pc \in {"refused", "done", "write", "find"} : DecidesTo(r, d, hit, pc)
        BY <3>2, DecideType
      <4> QED
        BY <3>0, <4>1 DEF TypeOK, RequestStates, DecidesTo
    <3>3. ASSUME request' = [request EXCEPT ![r].seen = user, ![r].pc = "store"]
          PROVE  <2>2
      BY <3>0, <3>3 DEF TypeOK, RequestStates
    <3>4. CASE LookUp(r)
      BY <3>1, <3>2, <3>4 DEF LookUp, Pcs, AuthPcs, TypeOK
    <3>5. CASE Load(r)
      BY <3>1, <3>2, <3>3, <3>5 DEF Load, Pcs, TypeOK
    <3>6. CASE Store(r)
      BY <3>0, <3>2, <3>6 DEF Store
    <3> QED
      BY <1>4, <3>4, <3>5, <3>6
  <2> QED
    BY <1>3, <2>1, <2>2
<1>5. ASSUME NEW r \in Requests, NEW call \in Calls,
             Arrive(r, call) \/ \E t \in tokens : ArriveWithToken(r, call, t)
      PROVE  VersionsInv'
  <2>1. UNCHANGED <<user, tokens>>
    BY <1>5 DEF Arrive, ArriveWithToken
  <2>2. /\ \A s \in Requests \ {r} : request'[s] = request[s]
        /\ request'[r].pc # "answer"
    <3>0. request[r] \in RequestStates
      BY DEF TypeOK
    <3>1. CASE Arrive(r, call)
      BY <3>0, <3>1 DEF Arrive, TypeOK, RequestStates
    <3>2. ASSUME NEW t \in tokens, ArriveWithToken(r, call, t) PROVE <2>2
      BY <3>0, <3>2 DEF ArriveWithToken, TypeOK, RequestStates
    <3> QED
      BY <1>5, <3>1, <3>2
  <2> QED
    BY <1>3, <2>1, <2>2
<1>6. ASSUME UNCHANGED <<user, tokens, request>> PROVE VersionsInv'
  BY <1>1, <1>6
<1> QED
  BY <1>2, <1>4, <1>5, <1>6, EnvironmentStep DEF Next, Step, vars

(* A token of the current version says what the account says: whoever      *)
(* writes role or password makes the tokens outdated that say otherwise,   *)
(* whatever was read before (auth.service.ts, user.service.ts).            *)
THEOREM CurrentTokensAgree == Spec => []TokensAgree
<1>1. Init => TypeOK /\ VersionsInv
  BY InitType, VersionsInit
<1>2. TypeOK /\ VersionsInv /\ [Next]_vars => (TypeOK /\ VersionsInv)'
  BY TypeStep, VersionsStep
<1>3. TypeOK /\ VersionsInv => TokensAgree
  BY DEF TypeOK, VersionsInv, TokensAgree, Old, Later, Users, Tokens
<1> QED
  BY <1>1, <1>2, <1>3, PTL DEF Spec

-----------------------------------------------------------------------------
(* The middleware.  What it must remember of a request: that an outdated   *)
(* token stays so, and that the document it holds is the account itself    *)
(* unless the account was written meanwhile.                               *)

Outdated(t, u) == t.id < u.id \/ (t.id = u.id /\ t.token_version < u.token_version)

EntitledBy(u, t, call) ==
  /\ u.state = "live" /\ u.id = t.id /\ u.token_version = t.token_version
  /\ u.status # "blocked" /\ u.role \in RolesOf(call)

Looked(q, u) ==
  q.pc \in AuthPcs =>
    /\ q.id = q.token.id
    /\ q.old => Outdated(q.token, u)
    /\ ~q.touched /\ EntitledBy(u, q.token, q.call) => q.entitled
    /\ q.pc = "store" =>
         /\ q.seen.id = q.id /\ q.seen.state # "none"
         /\ q.old => q.seen.token_version # q.token.token_version
         /\ ~q.touched => q.seen = u

Decided(q) ==
  /\ q.call \in Authenticated /\ q.pc \notin AuthPcs \cup {"idle", "refused"}
  /\ ~q.hit
  => ~q.old /\ (q.entitled \/ q.touched)

AdmissionsInv ==
  \A r \in Requests : Looked(request[r], user) /\ Decided(request[r])

LEMMA OutdatedStays ==
  ASSUME NEW t \in Tokens, NEW u \in Users, NEW v \in Users, Outdated(t, u), Later(u, v)
  PROVE  Outdated(t, v)
BY DEF Outdated, Later, Tokens, Users

(* A request the middleware is at, while the account is written.           *)
LEMMA TouchedLooked ==
  ASSUME NEW q \in RequestStates, NEW u \in Users, NEW v \in Users, Later(u, v),
         Looked(q, u), Decided(q)
  PROVE  Looked(Touched(q), v) /\ Decided(Touched(q))
<1> DEFINE p == Touched(q)
<1>1. /\ p.pc = q.pc /\ p.id = q.id /\ p.token = q.token /\ p.seen = q.seen
      /\ p.call = q.call
  BY TouchedType DEF RequestStates
<1>2. /\ (p.hit <=> q.hit) /\ (p.old <=> q.old) /\ (p.entitled <=> q.entitled)
      /\ (p.touched <=> q.touched \/ q.pc \in AuthPcs)
  BY TouchedType DEF RequestStates
<1> HIDE DEF p
<1>3. q.old /\ q.pc \in AuthPcs => Outdated(q.token, v)
  BY OutdatedStays DEF Looked, RequestStates
<1>4. q.pc \in AuthPcs =>
        /\ p.id = p.token.id /\ (p.old => Outdated(p.token, v)) /\ p.touched
        /\ q.pc = "store" => /\ p.seen.id = p.id /\ p.seen.state # "none"
                             /\ p.old => p.seen.token_version # p.token.token_version
  BY <1>1, <1>2, <1>3 DEF Looked
<1>5. Looked(p, v)
  BY <1>1, <1>4 DEF Looked
<1>6. Decided(p)
  BY <1>1, <1>2 DEF Decided
<1> QED
  BY <1>5, <1>6 DEF p

(* The middleware admits an account that it read itself only to requests   *)
(* that were entitled, or during which it was written.                     *)
LEMMA ReadAdmission ==
  ASSUME TypeOK, NEW q \in RequestStates, NEW d \in Users, Looked(q, user), q.pc \in AuthPcs,
         d.id = q.id, d.state # "none", Admits(d, q.token, q.call),
         q.old => d.token_version # q.token.token_version,
         ~q.touched => d = user
  PROVE  ~q.old /\ (q.entitled \/ q.touched)
<1>1. d.token_version = q.token.token_version
  BY DEF Admits, SameVersion
<1>2. ~q.old
  BY <1>1
<1>3. ASSUME ~q.touched PROVE q.entitled
  <2>1. user.state = "live"
    BY <1>3 DEF Admits, TypeOK, Users
  <2>2. EntitledBy(user, q.token, q.call)
    BY <1>1, <1>3, <2>1 DEF EntitledBy, Admits, Looked
  <2> QED
    BY <1>3, <2>2 DEF Looked
<1> QED
  BY <1>2, <1>3

(* Deciding on d. *)
LEMMA DecideAdmission ==
  ASSUME TypeOK, NEW r \in Requests, NEW d \in Users, NEW hit \in BOOLEAN,
         Decide(r, d, hit),
         ~hit /\ Admits(d, request[r].token, request[r].call) =>
           ~request[r].old /\ (request[r].entitled \/ request[r].touched)
  PROVE  /\ \A s \in Requests \ {r} : request'[s] = request[s]
         /\ request'[r].pc \notin AuthPcs
         /\ Decided(request'[r])
<1>0. request[r] \in RequestStates
  BY DEF TypeOK
<1>1. PICK pc \in {"refused", "done", "write", "find"} :
        /\ DecidesTo(r, d, hit, pc)
        /\ pc # "refused" => Admits(d, request[r].token, request[r].call)
  BY DecideType
<1> DEFINE q == request[r]
           p == [request[r] EXCEPT !.seen = d, !.hit = hit, !.pc = pc]
<1>2. request'[r] = p /\ \A s \in Requests \ {r} : request'[s] = request[s]
  BY <1>1 DEF DecidesTo, TypeOK
<1>3. p.pc = pc /\ p.call = q.call
  BY <1>0 DEF RequestStates
<1>4. /\ (p.hit <=> hit) /\ (p.old <=> q.old) /\ (p.entitled <=> q.entitled)
      /\ (p.touched <=> q.touched)
  BY <1>0 DEF RequestStates
<1> HIDE DEF q, p
<1>5. Decided(p)
  BY <1>1, <1>3, <1>4 DEF Decided, q
<1> QED
  BY <1>2, <1>3, <1>5 DEF AuthPcs

LEMMA AdmissionsInit == Init => AdmissionsInv
BY DEF Init, AdmissionsInv, Looked, Decided, AuthPcs

(* The account is left alone, and one request moves. *)
LEMMA OneMoves ==
  ASSUME AdmissionsInv, user' = user, NEW r \in Requests,
         \A s \in Requests \ {r} : request'[s] = request[s],
         Looked(request'[r], user), Decided(request'[r])
  PROVE  AdmissionsInv'
BY DEF AdmissionsInv

LEMMA AdmissionsHandler ==
  ASSUME TypeOK, TypeOK', AdmissionsInv, NEW r \in Requests, Handled(r), Later(user, user')
  PROVE  AdmissionsInv'
<1>1. Looked(request'[r], user') /\ Decided(request'[r])
  <2>1. request'[r].pc \in HandlerPcs /\ request[r].pc \in HandlerPcs
        /\ Flags(request'[r]) = Flags(request[r])
    BY DEF Handled
  <2>2. Decided(request[r])
    BY DEF AdmissionsInv
  <2>3. Looked(request'[r], user')
    BY <2>1 DEF Looked, HandlerPcs, AuthPcs
  <2>4. Decided(request'[r])
    BY <2>1, <2>2 DEF Decided, Flags, HandlerPcs, AuthPcs
  <2> QED
    BY <2>3, <2>4
<1>2. ASSUME NEW s \in Requests \ {r}
      PROVE  Looked(request'[s], user') /\ Decided(request'[s])
  <2>0. request[s] \in RequestStates /\ user \in Users /\ user' \in Users
        /\ Looked(request[s], user) /\ Decided(request[s])
    BY DEF TypeOK, AdmissionsInv
  <2>1. CASE request'[s] = request[s] /\ user' = user
    BY <2>0, <2>1
  <2>2. CASE request'[s] = Touched(request[s])
    BY <2>0, <2>2, TouchedLooked
  <2> QED
    BY <2>1, <2>2 DEF Handled
<1> QED
  BY <1>1, <1>2 DEF AdmissionsInv

LEMMA AdmissionsArrive ==
  ASSUME TypeOK, VersionsInv, AdmissionsInv, NEW r \in Requests, NEW call \in Calls,
         Arrive(r, call) \/ \E t \in tokens : ArriveWithToken(r, call, t)
  PROVE  AdmissionsInv'
<1>0. request[r] \in RequestStates
  BY DEF TypeOK
<1>1. CASE Arrive(r, call)
  <2>1. /\ request'[r].pc \in {"write", "find"} /\ request'[r].call = call
        /\ \A s \in Requests \ {r} : request'[s] = request[s]
        /\ call \notin Authenticated /\ user' = user
    BY <1>0, <1>1 DEF Arrive, TypeOK, RequestStates
  <2>2. Looked(request'[r], user) /\ Decided(request'[r])
    BY <2>1 DEF Looked, Decided, AuthPcs
  <2> QED
    BY <2>1, <2>2, OneMoves
<1>2. ASSUME NEW t \in tokens, ArriveWithToken(r, call, t) PROVE AdmissionsInv'
  <2> DEFINE pc == IF call \in TokenCalls THEN "find"
                   ELSE IF redis_enabled THEN "lookup" ELSE "load"
             p == [request[r] EXCEPT !.call = call, !.id = t.id, !.token = t,
                    !.old = Old(t), !.entitled = Entitled(t, call), !.pc = pc]
  <2>1. request' = [request EXCEPT ![r] = p] /\ user' = user
    BY <1>2 DEF ArriveWithToken
  <2>2. request'[r] = p /\ \A s \in Requests \ {r} : request'[s] = request[s]
    BY <2>1 DEF TypeOK
  <2>3. p.call = call /\ p.id = t.id /\ p.token = t /\ p.pc = pc
    BY <1>0 DEF RequestStates
  <2>4. (p.old <=> Old(t)) /\ (p.entitled <=> Entitled(t, call))
    BY <1>0 DEF RequestStates
  <2>5. pc \in {"find", "lookup", "load"} /\ (pc = "find" => call \in TokenCalls)
    OBVIOUS
  <2>6. call \in TokenCalls => call \notin Authenticated
    BY DEF TokenCalls, Authenticated
  <2>7. Old(t) => Outdated(t, user)
    <3>1. Later(t, user)
      BY DEF VersionsInv
    <3> QED
      BY <3>1 DEF Old, Outdated, Later
  <2>8. EntitledBy(user, t, call) => Entitled(t, call)
    BY DEF EntitledBy, Entitled, Old, Live
  <2> HIDE DEF p, pc
  <2>9. Looked(p, user) /\ Decided(p)
    BY <2>3, <2>4, <2>5, <2>6, <2>7, <2>8 DEF Looked, Decided, AuthPcs
  <2> QED
    BY <2>1, <2>2, <2>9, OneMoves
<1> QED
  BY <1>1, <1>2

LEMMA AdmissionsMiddleware ==
  ASSUME TypeOK, AdmissionsInv, NEW r \in Requests, LookUp(r) \/ Load(r) \/ Store(r)
  PROVE  AdmissionsInv'
<1> DEFINE q == request[r]
<1>0. /\ q \in RequestStates /\ q.seen \in Users /\ user \in Users
      /\ Looked(q, user) /\ Decided(q)
  BY DEF TypeOK, RequestStates, AdmissionsInv
<1>1. ASSUME NEW d \in Users, NEW hit \in BOOLEAN, Decide(r, d, hit), user' = user,
             ~hit /\ Admits(d, q.token, q.call) => ~q.old /\ (q.entitled \/ q.touched)
      PROVE  AdmissionsInv'
  <2>1. /\ \A s \in Requests \ {r} : request'[s] = request[s]
        /\ request'[r].pc \notin AuthPcs /\ Decided(request'[r])
    BY <1>1, DecideAdmission
  <2>2. Looked(request'[r], user)
    BY <2>1 DEF Looked
  <2> QED
    BY <1>1, <2>1, <2>2, OneMoves
<1>2. ASSUME NEW pc \in {"load", "fallback", "refused"}, Goto(r, pc), user' = user,
             q.pc \in AuthPcs
      PROVE  AdmissionsInv'
  <2> DEFINE p == [request[r] EXCEPT !.pc = pc]
  <2>1. request' = [request EXCEPT ![r] = p]
    BY <1>2, GotoType DEF Pcs, AuthPcs
  <2>2. request'[r] = p /\ \A s \in Requests \ {r} : request'[s] = request[s]
    BY <2>1 DEF TypeOK
  <2>3. p.pc = pc /\ p.call = q.call /\ p.id = q.id /\ p.token = q.token
    BY <1>0 DEF RequestStates
  <2>4. (p.old <=> q.old) /\ (p.entitled <=> q.entitled) /\ (p.touched <=> q.touched)
    BY <1>0 DEF RequestStates
  <2> HIDE DEF p, q
  <2>5. Looked(p, user) /\ Decided(p)
    BY <1>0, <1>2, <2>3, <2>4 DEF Looked, Decided, AuthPcs
  <2> QED
    BY <1>2, <2>2, <2>5, OneMoves
<1>3. CASE LookUp(r)
  <2>1. user' = user /\ q.pc \in AuthPcs
    BY <1>3 DEF LookUp, AuthPcs
  <2>2. \/ \E d \in cached : Decide(r, d, TRUE)
        \/ Goto(r, "load") \/ Goto(r, "fallback")
    BY <1>3 DEF LookUp
  <2>3. cached \subseteq Users
    BY DEF TypeOK
  <2> QED
    BY <1>1, <1>2, <2>1, <2>2, <2>3
<1>4. CASE Load(r)
  <2>1. user' = user /\ q.pc \in AuthPcs
    BY <1>4 DEF Load, AuthPcs
  <2>2. CASE Goto(r, "refused")
    BY <1>2, <2>1, <2>2
  <2>3. ASSUME user.state # "none", user.id = q.id
        PROVE  q.old => user.token_version # q.token.token_version
    BY <1>0, <2>1, <2>3 DEF Looked, Outdated, Users, RequestStates, Tokens
  <2>4. CASE user.state # "none" /\ user.id = q.id /\ Decide(r, user, FALSE)
    <3>1. Admits(user, q.token, q.call) => ~q.old /\ (q.entitled \/ q.touched)
      BY <1>0, <2>1, <2>3, <2>4, ReadAdmission
    <3> QED
      BY <1>0, <1>1, <2>1, <2>4, <3>1
  <2>5. CASE /\ user.state # "none" /\ user.id = q.id
             /\ request' = [request EXCEPT ![r].seen = user, ![r].pc = "store"]
    <3> DEFINE p == [request[r] EXCEPT !.seen = user, !.pc = "store"]
    <3>1. request'[r] = p /\ \A s \in Requests \ {r} : request'[s] = request[s]
      BY <2>5 DEF TypeOK
    <3>2. /\ p.pc = "store" /\ p.call = q.call /\ p.id = q.id /\ p.token = q.token
          /\ p.seen = user
      BY <1>0 DEF RequestStates
    <3>3. (p.old <=> q.old) /\ (p.entitled <=> q.entitled) /\ (p.touched <=> q.touched)
      BY <1>0 DEF RequestStates
    <3> HIDE DEF p, q
    <3>4. Looked(p, user) /\ Decided(p)
      BY <1>0, <2>1, <2>3, <2>5, <3>2, <3>3 DEF Looked, Decided, AuthPcs
    <3> QED
      BY <2>1, <3>1, <3>4, OneMoves
  <2> QED
    BY <1>4, <2>2, <2>4, <2>5 DEF Load
<1>5. CASE Store(r)
  <2>1. user' = user /\ q.pc = "store" /\ q.pc \in AuthPcs /\ Decide(r, q.seen, FALSE)
    BY <1>5 DEF Store, AuthPcs
  <2>2. /\ q.seen.id = q.id /\ q.seen.state # "none"
        /\ q.old => q.seen.token_version # q.token.token_version
        /\ ~q.touched => q.seen = user
    BY <1>0, <2>1 DEF Looked
  <2>3. Admits(q.seen, q.token, q.call) => ~q.old /\ (q.entitled \/ q.touched)
    BY <1>0, <2>1, <2>2, ReadAdmission
  <2> QED
    BY <1>0, <1>1, <2>1, <2>3
<1> QED
  BY <1>3, <1>4, <1>5

LEMMA AdmissionsStep ==
  TypeOK /\ VersionsInv /\ AdmissionsInv /\ [Next]_vars => AdmissionsInv'
<1> SUFFICES ASSUME TypeOK, VersionsInv, AdmissionsInv, [Next]_vars
             PROVE  AdmissionsInv'
  OBVIOUS
<1>0. TypeOK'
  BY TypeStep
<1>1. ASSUME NEW r \in Requests,
             \/ Find(r) \/ FindAgain(r) \/ CreateUser(r) \/ LinkGoogle(r)
             \/ IssueTokens(r) \/ WriteUser(r) \/ ClearCached(r)
      PROVE  AdmissionsInv'
  <2>1. Handled(r) /\ Later(user, user')
    BY <1>1, HandlerStep
  <2> QED
    BY <1>0, <2>1, AdmissionsHandler
<1>2. ASSUME UNCHANGED <<user, request>> PROVE AdmissionsInv'
  BY <1>2 DEF AdmissionsInv
<1> QED
  BY <1>1, <1>2, AdmissionsArrive, AdmissionsMiddleware, EnvironmentStep
  DEF Next, Step, vars

(* Whatever writes, sign-ins and failures of Redis come in between, a      *)
(* request passes on the account itself only with a current token, to an   *)
(* account that is open to it (auth.middleware.ts); the copy in Redis is   *)
(* the only way around.                                                    *)
THEOREM OldOnlyThroughCache == Spec => []OldOnlyFromCache
<1>1. Init => TypeOK /\ VersionsInv /\ AdmissionsInv
  BY InitType, VersionsInit, AdmissionsInit
<1>2. TypeOK /\ VersionsInv /\ AdmissionsInv /\ [Next]_vars
        => (TypeOK /\ VersionsInv /\ AdmissionsInv)'
  BY TypeStep, VersionsStep, AdmissionsStep
<1>3. AdmissionsInv => OldOnlyFromCache
  BY DEF AdmissionsInv, Decided, OldOnlyFromCache, Admitted
<1> QED
  BY <1>1, <1>2, <1>3, PTL DEF Spec

(* A step of the middleware moves one request and leaves the account. *)
Proceeds(r) ==
  LET q == request[r]  p == request'[r] IN
  /\ UNCHANGED <<user, tokens, now>> /\ q.pc \in AuthPcs
  /\ \A s \in Requests \ {r} : request'[s] = request[s]
  /\ p.call = q.call /\ p.token = q.token /\ p.id = q.id
  /\ (p.old <=> q.old) /\ (p.entitled <=> q.entitled) /\ (p.touched <=> q.touched)
  /\ p.seen \in {q.seen, user} \cup cached
  /\ cached' \subseteq cached \cup {q.seen}
  /\ \/ p.pc \in {"load", "fallback", "done", "write", "find"}
     \/ p.pc = "store" /\ p.seen = user
     \/ p.pc = "refused" /\ p.hit
     \/ /\ p.pc = "refused" /\ ~Admits(p.seen, q.token, q.call)
        /\ p.seen = IF q.pc = "store" THEN q.seen ELSE user
     \/ p.pc = "refused" /\ q.pc # "store" /\ (user.state = "none" \/ user.id # q.id)

LEMMA MiddlewareMoves ==
  ASSUME TypeOK, NEW r \in Requests, LookUp(r) \/ Load(r) \/ Store(r)
  PROVE  Proceeds(r)
<1> DEFINE q == request[r]
<1>0. q \in RequestStates /\ q.pc \in AuthPcs /\ UNCHANGED <<user, tokens, now>>
  BY DEF TypeOK, LookUp, Load, Store, AuthPcs
<1>1. ASSUME NEW seen, NEW hit \in BOOLEAN, NEW pc,
             request' = [request EXCEPT ![r] = [q EXCEPT !.seen = seen, !.hit = hit, !.pc = pc]]
      PROVE  LET p == request'[r] IN
             /\ \A s \in Requests \ {r} : request'[s] = request[s]
             /\ p.call = q.call /\ p.token = q.token /\ p.id = q.id
             /\ (p.old <=> q.old) /\ (p.entitled <=> q.entitled) /\ (p.touched <=> q.touched)
             /\ p.seen = seen /\ p.pc = pc /\ (p.hit <=> hit)
  BY <1>0, <1>1 DEF TypeOK, RequestStates
<1>2. ASSUME NEW pc, Goto(r, pc)
      PROVE  request' = [request EXCEPT ![r] = [q EXCEPT !.seen = q.seen, !.hit = q.hit, !.pc = pc]]
  BY <1>0, <1>2 DEF Goto, TypeOK, RequestStates
<1>3. ASSUME NEW d, NEW hit \in BOOLEAN, Decide(r, d, hit)
      PROVE  \E pc \in {"refused", "done", "write", "find"} :
               /\ request' = [request EXCEPT ![r] = [q EXCEPT !.seen = d, !.hit = hit, !.pc = pc]]
               /\ pc = "refused" => ~Admits(d, q.token, q.call)
  <2> DEFINE pc == IF ~Admits(d, q.token, q.call) THEN "refused"
                   ELSE CASE q.call = "getSelf" -> "done"
                          [] q.call = "logoutAllSessions" -> "write"
                          [] OTHER -> "find"
  <2>1. pc \in {"refused", "done", "write", "find"} /\ (pc = "refused" => ~Admits(d, q.token, q.call))
    OBVIOUS
  <2>2. request' = [request EXCEPT ![r] = [q EXCEPT !.seen = d, !.hit = hit, !.pc = pc]]
    BY <1>3 DEF Decide
  <2> HIDE DEF pc
  <2> QED
    BY <2>1, <2>2
<1>4. q.hit \in BOOLEAN
  BY <1>0 DEF RequestStates
<1> DEFINE Fits(seen, hit, pc) ==
             \/ pc \in {"load", "fallback", "done", "write", "find"}
             \/ pc = "store" /\ seen = user
             \/ pc = "refused" /\ hit
             \/ /\ pc = "refused" /\ ~Admits(seen, q.token, q.call)
                /\ seen = IF q.pc = "store" THEN q.seen ELSE user
             \/ pc = "refused" /\ q.pc # "store" /\ (user.state = "none" \/ user.id # q.id)
<1>8. ASSUME cached' \subseteq cached \cup {q.seen},
             NEW seen \in {q.seen, user} \cup cached, NEW hit \in BOOLEAN, NEW pc,
             request' = [request EXCEPT ![r] = [q EXCEPT !.seen = seen, !.hit = hit, !.pc = pc]],
             Fits(seen, hit, pc)
      PROVE  Proceeds(r)
  <2>1. LET p == request'[r] IN
             /\ \A s \in Requests \ {r} : request'[s] = request[s]
             /\ p.call = q.call /\ p.token = q.token /\ p.id = q.id
             /\ (p.old <=> q.old) /\ (p.entitled <=> q.entitled) /\ (p.touched <=> q.touched)
             /\ p.seen = seen /\ p.pc = pc /\ (p.hit <=> hit)
    BY <1>1, <1>8
  <2> QED
    BY <1>0, <1>8, <2>1 DEF Proceeds
<1>9. ASSUME cached' \subseteq cached \cup {q.seen}, NEW pc, Goto(r, pc),
             Fits(q.seen, q.hit, pc)
      PROVE  Proceeds(r)
  <2>1. request' = [request EXCEPT ![r] =
                      [q EXCEPT !.seen = q.seen, !.hit = q.hit, !.pc = pc]]
    BY <1>2, <1>9
  <2> HIDE DEF Fits
  <2> QED
    BY <1>4, <1>8, <1>9, <2>1
<1>10. ASSUME cached' \subseteq cached \cup {q.seen},
             NEW d \in {q.seen, user} \cup cached, NEW hit \in BOOLEAN, Decide(r, d, hit),
             hit \/ d = IF q.pc = "store" THEN q.seen ELSE user
      PROVE  Proceeds(r)
  <2>1. PICK pc \in {"refused", "done", "write", "find"} :
               /\ request' = [request EXCEPT ![r] = [q EXCEPT !.seen = d, !.hit = hit, !.pc = pc]]
               /\ pc = "refused" => ~Admits(d, q.token, q.call)
    BY <1>3, <1>10
  <2>2. Fits(d, hit, pc)
    BY <1>10, <2>1
  <2> HIDE DEF Fits
  <2> QED
    BY <1>8, <1>10, <2>1, <2>2
<1>5. CASE LookUp(r)
  <2>1. cached' = cached
    BY <1>5 DEF LookUp
  <2>2. \/ \E d \in cached : Decide(r, d, TRUE)
        \/ Goto(r, "load") \/ Goto(r, "fallback")
    BY <1>5 DEF LookUp
  <2>3. Fits(q.seen, q.hit, "load") /\ Fits(q.seen, q.hit, "fallback")
    OBVIOUS
  <2> HIDE DEF Fits
  <2> QED
    BY <1>9, <1>10, <2>1, <2>2, <2>3
<1>6. CASE Load(r)
  <2>1. cached' = cached /\ q.pc # "store"
    BY <1>6 DEF Load
  <2>2. CASE Goto(r, "refused") /\ (user.state = "none" \/ user.id # q.id)
    <3>1. Fits(q.seen, q.hit, "refused")
      BY <2>1, <2>2
    <3> HIDE DEF Fits
    <3> QED
      BY <1>9, <2>1, <2>2, <3>1
  <2>3. CASE request' = [request EXCEPT ![r].seen = user, ![r].pc = "store"]
    <3>1. request' = [request EXCEPT ![r] = [q EXCEPT !.seen = user, !.hit = q.hit, !.pc = "store"]]
      BY <1>0, <2>3 DEF TypeOK, RequestStates
    <3>2. Fits(user, q.hit, "store")
      OBVIOUS
    <3> HIDE DEF Fits
    <3> QED
      BY <1>4, <1>8, <2>1, <3>1, <3>2
  <2>4. CASE Decide(r, user, FALSE)
    BY <1>10, <2>1, <2>4
  <2> QED
    BY <1>6, <2>2, <2>3, <2>4 DEF Load
<1>7. CASE Store(r)
  <2>1. cached' \subseteq cached \cup {q.seen} /\ q.pc = "store" /\ Decide(r, q.seen, FALSE)
    BY <1>7 DEF Store, Stored
  <2> QED
    BY <1>10, <2>1
<1> QED
  BY <1>5, <1>6, <1>7

-----------------------------------------------------------------------------
(* Refresh tokens.  One that was outdated on arrival still is when its     *)
(* account is looked up, and then is compared with that.                   *)

Refreshing(q, u) ==
  q.call = "refreshToken" /\ q.old =>
    \/ q.pc = "find" /\ Outdated(q.token, u)
    \/ q.pc = "rejected"
    \/ q.pc \in {"answer", "done"} /\ q.seen.id # q.token.id

RefreshInv == \A r \in Requests : Refreshing(request[r], user)

LEMMA RefreshingStays ==
  ASSUME NEW q \in RequestStates, NEW u \in Users, NEW v \in Users, Later(u, v),
         Refreshing(q, u)
  PROVE  Refreshing(q, v) /\ Refreshing(Touched(q), v)
<1>1. Refreshing(q, v)
  BY OutdatedStays DEF Refreshing, RequestStates
<1>2. /\ Touched(q).pc = q.pc /\ Touched(q).token = q.token /\ Touched(q).seen = q.seen
      /\ Touched(q).call = q.call /\ (Touched(q).old <=> q.old)
  BY TouchedType DEF RequestStates
<1> QED
  BY <1>1, <1>2 DEF Refreshing

(* The handler of a refresh token. *)
LEMMA RefreshHandler ==
  ASSUME TypeOK, TypeOK', RefreshInv, NEW r \in Requests,
         \/ Find(r) \/ FindAgain(r) \/ CreateUser(r) \/ LinkGoogle(r)
         \/ IssueTokens(r) \/ WriteUser(r) \/ ClearCached(r)
  PROVE  RefreshInv'
<1> DEFINE q == request[r]
<1>0. q \in RequestStates /\ q.seen \in Users /\ q.token \in Tokens /\ user \in Users
      /\ Refreshing(q, user)
  BY DEF TypeOK, RequestStates, RefreshInv
<1>1. Handled(r) /\ Later(user, user')
  BY HandlerStep
<1>2. ASSUME NEW s \in Requests \ {r}
      PROVE  Refreshing(request'[s], user')
  <2>1. /\ request'[s] = request[s] \/ request'[s] = Touched(request[s])
        /\ request[s] \in RequestStates /\ user' \in Users /\ Refreshing(request[s], user)
    BY <1>1 DEF Handled, TypeOK, RefreshInv
  <2> QED
    BY <1>0, <1>1, <2>1, RefreshingStays
<1>3. ASSUME q.call = "refreshToken", q.old
      PROVE  \/ request'[r].pc = "rejected"
             \/ request'[r].pc \in {"answer", "done"} /\ request'[r].seen.id # request'[r].token.id
  <2>1. CASE Find(r)
    <3> DEFINE seen == IF Finds(q) THEN user ELSE [NoUser EXCEPT !.password_changed_at = now]
               pc == IF Finds(q) THEN WithUser(q) ELSE WithoutUser(q)
               p == [request[r] EXCEPT !.seen = seen, !.pc = pc]
    <3>1. request' = [request EXCEPT ![r].seen = seen, ![r].pc = pc]
      BY <2>1 DEF Find
    <3>2. Outdated(q.token, user)
      BY <1>0, <1>3, <2>1 DEF Find, Refreshing
    <3>3. pc = "rejected" \/ (pc = "answer" /\ seen = user /\ Refreshable(q.token))
      BY <1>3 DEF WithUser, WithoutUser
    <3>4. Refreshable(q.token) => user.id # q.token.id
      BY <1>0, <3>2 DEF Refreshable, Outdated, Users, Tokens
    <3> HIDE DEF seen, pc
    <3>5. request'[r] = p
      BY <3>1 DEF TypeOK
    <3>6. p.pc = pc /\ p.seen = seen /\ p.token = q.token
      BY <1>0 DEF RequestStates
    <3> HIDE DEF p
    <3> QED
      BY <3>3, <3>4, <3>5, <3>6
  <2>2. CASE IssueTokens(r)
    <3>1. Goto(r, "done")
      BY <1>3, <2>2 DEF IssueTokens
    <3>2. request'[r] = [q EXCEPT !.pc = "done"]
      BY <3>1 DEF Goto, TypeOK
    <3>3. q.seen.id # q.token.id
      BY <1>0, <1>3, <2>2 DEF IssueTokens, Refreshing
    <3> QED
      BY <1>0, <3>2, <3>3 DEF RequestStates
  <2>3. CASE FindAgain(r) \/ CreateUser(r) \/ LinkGoogle(r) \/ WriteUser(r) \/ ClearCached(r)
    BY <1>0, <1>3, <2>3 DEF Refreshing, FindAgain, CreateUser, LinkGoogle, WriteUser, ClearCached
  <2> QED
    BY <2>1, <2>2, <2>3
<1>4. Refreshing(request'[r], user')
  <2>1. request'[r].call = q.call /\ (request'[r].old <=> q.old)
    BY <1>1 DEF Handled, Flags
  <2> QED
    BY <1>3, <2>1 DEF Refreshing
<1> QED
  BY <1>2, <1>4 DEF RefreshInv

LEMMA RefreshArrive ==
  ASSUME TypeOK, VersionsInv, RefreshInv, NEW r \in Requests, NEW call \in Calls,
         Arrive(r, call) \/ \E t \in tokens : ArriveWithToken(r, call, t)
  PROVE  RefreshInv'
<1>0. request[r] \in RequestStates
  BY DEF TypeOK
<1>1. CASE Arrive(r, call)
  <2>1. /\ request'[r].call = call /\ call # "refreshToken" /\ user' = user
        /\ \A s \in Requests \ {r} : request'[s] = request[s]
    BY <1>0, <1>1 DEF Arrive, TypeOK, RequestStates, TokenCalls
  <2> QED
    BY <2>1 DEF RefreshInv, Refreshing
<1>2. ASSUME NEW t \in tokens, ArriveWithToken(r, call, t) PROVE RefreshInv'
  <2> DEFINE pc == IF call \in TokenCalls THEN "find"
                   ELSE IF redis_enabled THEN "lookup" ELSE "load"
             p == [request[r] EXCEPT !.call = call, !.id = t.id, !.token = t,
                    !.old = Old(t), !.entitled = Entitled(t, call), !.pc = pc]
  <2>1. request' = [request EXCEPT ![r] = p] /\ user' = user
    BY <1>2 DEF ArriveWithToken
  <2>2. request'[r] = p /\ \A s \in Requests \ {r} : request'[s] = request[s]
    BY <2>1 DEF TypeOK
  <2>3. p.call = call /\ p.token = t /\ p.pc = pc /\ (p.old <=> Old(t))
    BY <1>0 DEF RequestStates
  <2>4. call = "refreshToken" => pc = "find"
    BY DEF TokenCalls
  <2>5. Old(t) => Outdated(t, user)
    BY DEF VersionsInv, Old, Outdated, Later
  <2> HIDE DEF p, pc
  <2> QED
    BY <2>1, <2>2, <2>3, <2>4, <2>5 DEF RefreshInv, Refreshing
<1> QED
  BY <1>1, <1>2

(* The middleware is at no refresh token. *)
LEMMA RefreshMiddleware ==
  ASSUME TypeOK, RefreshInv, NEW r \in Requests, LookUp(r) \/ Load(r) \/ Store(r)
  PROVE  RefreshInv'
<1>1. request[r].pc \in AuthPcs /\ user' = user
  BY DEF LookUp, Load, Store, AuthPcs
<1>2. ~(request[r].call = "refreshToken" /\ request[r].old)
  BY <1>1 DEF RefreshInv, Refreshing, AuthPcs
<1>3. /\ \A s \in Requests \ {r} : request'[s] = request[s]
      /\ request'[r].call = request[r].call /\ (request'[r].old <=> request[r].old)
  BY MiddlewareMoves DEF Proceeds
<1> QED
  BY <1>1, <1>2, <1>3 DEF RefreshInv, Refreshing

LEMMA RefreshStep == TypeOK /\ VersionsInv /\ RefreshInv /\ [Next]_vars => RefreshInv'
<1> SUFFICES ASSUME TypeOK, VersionsInv, RefreshInv, [Next]_vars
             PROVE  RefreshInv'
  OBVIOUS
<1>1. TypeOK'
  BY TypeStep
<1>2. ASSUME UNCHANGED <<user, request>> PROVE RefreshInv'
  BY <1>2 DEF RefreshInv
<1> QED
  BY <1>1, <1>2, RefreshHandler, RefreshArrive, RefreshMiddleware, EnvironmentStep
  DEF Next, Step, vars

(* A refresh token that was outdated when it arrived gets no new tokens of *)
(* its account, whatever is written while it is looked at; only an account *)
(* made anew under the same email answers it (auth.service.ts, 223-265).   *)
THEOREM OutdatedNotRefreshed == Spec => []RefreshesCurrent
<1>1. Init => TypeOK /\ VersionsInv /\ RefreshInv
  BY InitType, VersionsInit DEF Init, RefreshInv, Refreshing
<1>2. TypeOK /\ VersionsInv /\ RefreshInv /\ [Next]_vars
        => (TypeOK /\ VersionsInv /\ RefreshInv)'
  BY TypeStep, VersionsStep, RefreshStep
<1>3. RefreshInv => RefreshesCurrent
  BY DEF RefreshInv, Refreshing, RefreshesCurrent
<1> QED
  BY <1>1, <1>2, <1>3, PTL DEF Spec

-----------------------------------------------------------------------------
(* Current tokens.  A token of the current version was issued no earlier   *)
(* than in the second of the last change of the password.                  *)

Ages ==
  /\ user.password_changed_at <= now
  /\ \A d \in cached : d.password_changed_at <= now
  /\ \A r \in Requests : request[r].seen.password_changed_at <= now
SameVersions(u, v) == u.id = v.id /\ u.token_version = v.token_version
Dated ==
  /\ \A t \in tokens : SameVersions(t, user) =>
       user.password_changed_at \div TicksPerSecond <= t.iat
  /\ \A r \in Requests : request[r].pc = "answer" /\ SameVersions(request[r].seen, user) =>
       request[r].seen.password_changed_at = user.password_changed_at

(* A request the middleware is at shows a token that was issued; if it is  *)
(* entitled, it stays so as long as the account is not written.            *)
Worked(q, u, issued) ==
  /\ q.pc \in AuthPcs => q.token \in issued
  /\ q.entitled /\ ~q.touched =>
       /\ q.pc \in AuthPcs => EntitledBy(u, q.token, q.call)
       /\ q.pc = "refused" =>
            q.hit \/ q.seen.password_changed_at \div TicksPerSecond = q.token.iat
WorkInv == \A r \in Requests : Worked(request[r], user, tokens)

LEMMA RevisionDates ==
  ASSUME TypeOK, NEW call, NEW new \in Revisions(call)
  PROVE  /\ SameVersions(new, user) => new.password_changed_at = user.password_changed_at
         /\ new.password_changed_at \in {user.password_changed_at, now}
<1>0. user \in Users /\ user.token_version \in Nat
  BY DEF TypeOK, Users
<1>1. /\ Incremented(user) \in Users /\ Incremented(user).token_version # user.token_version
      /\ Incremented(user).password_changed_at = user.password_changed_at
  BY <1>0, IncrementedType DEF Incremented, Users
<1>2. \A e \in NewPasswords : e.token_version # user.token_version /\ e.password_changed_at = now
  BY <1>1 DEF NewPasswords, Users
<1>3. \A e \in NewRights : /\ e.token_version # user.token_version
                           /\ e.password_changed_at = user.password_changed_at
  BY <1>1 DEF NewRights, Users
<1>4. \A state : \A e \in Moved(state) : e.password_changed_at = user.password_changed_at
  BY <1>0 DEF Moved, Users
<1>5. \/ Revisions(call) \in {NewPasswords, NewRights, {Incremented(user)}}
      \/ Revisions(call) \in {Moved("live"), Moved("none"), Moved("deleted")}
  BY DEF Revisions
<1> QED
  BY <1>1, <1>2, <1>3, <1>4, <1>5 DEF SameVersions

LEMMA HandlerDates ==
  ASSUME TypeOK, NEW r \in Requests,
         \/ Find(r) \/ FindAgain(r) \/ CreateUser(r) \/ LinkGoogle(r)
         \/ IssueTokens(r) \/ WriteUser(r) \/ ClearCached(r)
  PROVE  /\ SameVersions(user', user) => user'.password_changed_at = user.password_changed_at
         /\ user'.password_changed_at \in
              {user.password_changed_at, now, request[r].seen.password_changed_at}
         /\ request'[r].seen.password_changed_at \in
              {user'.password_changed_at, now, request[r].seen.password_changed_at}
         /\ cached' \subseteq cached /\ now' = now
<1> DEFINE q == request[r]
<1>0. /\ q \in RequestStates /\ q.seen \in Users /\ user \in Users /\ now \in Nat
      /\ user.id \in Nat /\ user.token_version \in Nat
  BY DEF TypeOK, RequestStates, Users
<1>1. cached' \subseteq cached /\ now' = now
  BY DEF Find, FindAgain, CreateUser, LinkGoogle, IssueTokens, WriteUser, ClearCached
<1>2. ASSUME NEW pc, Goto(r, pc) PROVE request'[r].seen = q.seen
  BY <1>0, <1>2 DEF Goto, TypeOK, RequestStates
<1>3. CASE Find(r)
  <2> DEFINE seen == IF Finds(q) THEN user ELSE [NoUser EXCEPT !.password_changed_at = now]
             pc == IF Finds(q) THEN WithUser(q) ELSE WithoutUser(q)
  <2>1. request' = [request EXCEPT ![r].seen = seen, ![r].pc = pc] /\ user' = user
    BY <1>3 DEF Find
  <2>2. seen.password_changed_at \in {user.password_changed_at, now}
    BY DEF NoUser
  <2> HIDE DEF seen, pc
  <2>3. request'[r].seen = seen
    BY <1>0, <2>1 DEF TypeOK, RequestStates
  <2> QED
    BY <1>1, <2>1, <2>2, <2>3
<1>4. CASE FindAgain(r) \/ IssueTokens(r) \/ ClearCached(r)
  <2>1. user' = user /\ \E pc : Goto(r, pc)
    BY <1>4 DEF FindAgain, IssueTokens, ClearCached
  <2> QED
    BY <1>1, <1>2, <2>1
<1>5. CASE CreateUser(r)
  <2>1. CASE user' = user /\ \E pc : Goto(r, pc)
    BY <1>1, <1>2, <2>1
  <2>2. ASSUME NEW p, NEW source,
               LET new == Created(user.id + 1, q.seen.password_changed_at, p, source)
               IN Revise(r, new, [q EXCEPT !.pc = "answer", !.seen = new])
        PROVE  /\ user'.id # user.id /\ user'.password_changed_at = q.seen.password_changed_at
               /\ request'[r].seen = user'
    <3> DEFINE new == Created(user.id + 1, q.seen.password_changed_at, p, source)
               e == [q EXCEPT !.pc = "answer", !.seen = new]
    <3>1. user' = new /\ request'[r] = e
      BY <2>2 DEF Revise
    <3>2. new.id = user.id + 1 /\ new.password_changed_at = q.seen.password_changed_at
      BY DEF Created, NoUser
    <3> HIDE DEF new
    <3>3. e.seen = new
      BY <1>0 DEF RequestStates
    <3> QED
      BY <1>0, <3>1, <3>2, <3>3
  <2> QED
    BY <1>1, <1>5, <2>1, <2>2 DEF CreateUser, SameVersions
<1>6. CASE LinkGoogle(r)
  <2>1. CASE user' = user /\ \E pc : Goto(r, pc)
    BY <1>1, <1>2, <2>1
  <2>2. CASE ~(user' = user /\ \E pc : Goto(r, pc))
    <3> DEFINE new == [user EXCEPT !.auth_source = "google"]
               e == [q EXCEPT !.seen = new, !.pc = IF NotBlocked THEN "answer" ELSE "rejected"]
    <3>1. Revise(r, new, e)
      BY <1>6, <2>2 DEF LinkGoogle
    <3>2. new.password_changed_at = user.password_changed_at
      BY <1>0 DEF Users
    <3>3. user' = new /\ request'[r] = e
      BY <3>1 DEF Revise
    <3> HIDE DEF new
    <3>4. e.seen = new
      BY <1>0 DEF RequestStates
    <3> QED
      BY <1>1, <3>2, <3>3, <3>4
  <2> QED
    BY <2>1, <2>2
<1>7. CASE WriteUser(r)
  <2>1. CASE user' = user /\ \E pc : Goto(r, pc)
    BY <1>1, <1>2, <2>1
  <2>2. ASSUME NEW new \in Revisions(q.call), NEW pc, Revise(r, new, [q EXCEPT !.pc = pc])
        PROVE  /\ SameVersions(user', user) =>
                    user'.password_changed_at = user.password_changed_at
               /\ user'.password_changed_at \in {user.password_changed_at, now}
               /\ request'[r].seen = q.seen
    <3>1. user' = new /\ request'[r] = [q EXCEPT !.pc = pc]
      BY <2>2 DEF Revise
    <3>2. [q EXCEPT !.pc = pc].seen = q.seen
      BY <1>0 DEF RequestStates
    <3>3. /\ SameVersions(new, user) => new.password_changed_at = user.password_changed_at
          /\ new.password_changed_at \in {user.password_changed_at, now}
      BY RevisionDates
    <3> QED
      BY <3>1, <3>2, <3>3
  <2> QED
    BY <1>1, <1>7, <2>1, <2>2 DEF WriteUser
<1> QED
  BY <1>3, <1>4, <1>5, <1>6, <1>7

LEMMA AgesStep == TypeOK /\ Ages /\ [Next]_vars => Ages'
<1> SUFFICES ASSUME TypeOK, Ages, [Next]_vars PROVE Ages'
  OBVIOUS
<1>0. /\ user \in Users /\ user.password_changed_at \in Nat /\ now \in Nat /\ cached \subseteq Users
      /\ \A d \in cached : d.password_changed_at \in Nat
      /\ \A r \in Requests : request[r] \in RequestStates
                            /\ request[r].seen.password_changed_at \in Nat
  BY DEF TypeOK, Users, RequestStates
<1>1. ASSUME NEW r \in Requests,
             \/ Find(r) \/ FindAgain(r) \/ CreateUser(r) \/ LinkGoogle(r)
             \/ IssueTokens(r) \/ WriteUser(r) \/ ClearCached(r)
      PROVE  Ages'
  <2>1. /\ user'.password_changed_at \in
              {user.password_changed_at, now, request[r].seen.password_changed_at}
        /\ request'[r].seen.password_changed_at \in
              {user'.password_changed_at, now, request[r].seen.password_changed_at}
        /\ cached' \subseteq cached /\ now' = now
    BY <1>1, HandlerDates
  <2>2. \A s \in Requests \ {r} : request'[s].seen = request[s].seen
    BY <1>0, <1>1, HandlerStep, TouchedType DEF Handled, RequestStates
  <2> QED
    BY <1>0, <2>1, <2>2 DEF Ages
<1>2. ASSUME NEW r \in Requests, LookUp(r) \/ Load(r) \/ Store(r)
      PROVE  Ages'
  <2>1. /\ UNCHANGED <<user, now>> /\ request'[r].seen \in {request[r].seen, user} \cup cached
        /\ cached' \subseteq cached \cup {request[r].seen}
        /\ \A s \in Requests \ {r} : request'[s] = request[s]
    BY <1>2, MiddlewareMoves DEF Proceeds
  <2>2. request'[r].seen.password_changed_at <= now
    BY <1>0, <2>1 DEF Ages
  <2>3. \A d \in cached' : d.password_changed_at <= now
    BY <2>1 DEF Ages
  <2> QED
    BY <2>1, <2>2, <2>3 DEF Ages
<1>3. ASSUME NEW r \in Requests, NEW call \in Calls,
             Arrive(r, call) \/ \E t \in tokens : ArriveWithToken(r, call, t)
      PROVE  Ages'
  <2>1. UNCHANGED <<user, cached, now>>
    BY <1>3 DEF Arrive, ArriveWithToken
  <2>2. \A s \in Requests : request'[s].seen = request[s].seen
    <3>1. CASE Arrive(r, call)
      BY <1>0, <3>1 DEF Arrive, TypeOK, RequestStates
    <3>2. ASSUME NEW t \in tokens, ArriveWithToken(r, call, t) PROVE <2>2
      BY <1>0, <3>2 DEF ArriveWithToken, TypeOK, RequestStates
    <3> QED
      BY <1>3, <3>1, <3>2
  <2> QED
    BY <1>0, <2>1, <2>2 DEF Ages
<1>4. CASE Tick
  BY <1>0, <1>4 DEF Tick, Ages
<1>5. CASE CopyExpires
  BY <1>5 DEF CopyExpires, Ages
<1>6. CASE UNCHANGED vars
  BY <1>6 DEF vars, Ages
<1> QED
  BY <1>1, <1>2, <1>3, <1>4, <1>5, <1>6 DEF Next, Step

LEMMA SecondsMonotone ==
  ASSUME NEW m \in Nat, NEW n \in Nat, m <= n
  PROVE  m \div TicksPerSecond <= n \div TicksPerSecond
BY DEF TicksPerSecond

LEMMA SameBefore ==
  ASSUME NEW d \in Users \cup Tokens, NEW u \in Users, NEW v \in Users, Later(d, u), Later(u, v),
         SameVersions(d, v)
  PROVE  SameVersions(d, u) /\ SameVersions(v, u)
BY DEF SameVersions, Later, Users, Tokens

LEMMA DatedStep == TypeOK /\ VersionsInv /\ Ages /\ Dated /\ [Next]_vars => Dated'
<1> SUFFICES ASSUME TypeOK, VersionsInv, Ages, Dated, [Next]_vars PROVE Dated'
  OBVIOUS
<1>0. /\ user \in Users /\ user.password_changed_at \in Nat /\ now \in Nat /\ tokens \subseteq Tokens
      /\ \A r \in Requests : request[r] \in RequestStates /\ request[r].seen \in Users
                            /\ request[r].seen.password_changed_at \in Nat
      /\ user' \in Users /\ tokens' \subseteq Tokens
  BY TypeStep DEF TypeOK, Users, RequestStates
<1>1. ASSUME NEW r \in Requests,
             \/ Find(r) \/ FindAgain(r) \/ CreateUser(r) \/ LinkGoogle(r)
             \/ IssueTokens(r) \/ WriteUser(r) \/ ClearCached(r)
      PROVE  Dated'
  <2>1. /\ Handled(r) /\ Later(user, user')
        /\ \A t \in tokens' :
             \/ t \in tokens
             \/ /\ request[r].pc = "answer"
                /\ \E k \in Kinds : t = IssuedFrom(request[r].seen, k, now)
    BY <1>1, HandlerStep
  <2>2. SameVersions(user', user) => user'.password_changed_at = user.password_changed_at
    BY <1>1, HandlerDates
  <2>3. ASSUME NEW t \in tokens', SameVersions(t, user')
        PROVE  user'.password_changed_at \div TicksPerSecond <= t.iat
    <3>1. CASE t \in tokens
      <4>1. SameVersions(t, user) /\ SameVersions(user', user)
        BY <1>0, <2>1, <2>3, <3>1, SameBefore DEF VersionsInv
      <4> QED
        BY <2>2, <3>1, <4>1 DEF Dated
    <3>2. ASSUME request[r].pc = "answer", NEW k \in Kinds,
                 t = IssuedFrom(request[r].seen, k, now)
          PROVE  user'.password_changed_at \div TicksPerSecond <= t.iat
      <4>1. SameVersions(request[r].seen, user') /\ t.iat = now \div TicksPerSecond
        BY <2>3, <3>2 DEF SameVersions, IssuedFrom
      <4>2. SameVersions(request[r].seen, user) /\ SameVersions(user', user)
        BY <1>0, <2>1, <3>2, <4>1, SameBefore DEF VersionsInv
      <4>3. user'.password_changed_at = user.password_changed_at
        BY <2>2, <4>2
      <4> QED
        BY <1>0, <4>1, <4>3, SecondsMonotone DEF Ages
    <3> QED
      BY <2>1, <2>3, <3>1, <3>2
  <2>4. ASSUME NEW s \in Requests, request'[s].pc = "answer", SameVersions(request'[s].seen, user')
        PROVE  request'[s].seen.password_changed_at = user'.password_changed_at
    <3>1. CASE s = r
      BY <2>1, <2>4, <3>1 DEF Handled
    <3>2. CASE s # r
      <4>1. request'[s].pc = request[s].pc /\ request'[s].seen = request[s].seen
        BY <1>0, <2>1, <3>2, TouchedType DEF Handled, RequestStates
      <4>2. SameVersions(request[s].seen, user) /\ SameVersions(user', user)
        BY <1>0, <2>1, <2>4, <4>1, SameBefore DEF VersionsInv
      <4> QED
        BY <2>2, <2>4, <4>1, <4>2 DEF Dated
    <3> QED
      BY <3>1, <3>2
  <2> QED
    BY <2>3, <2>4 DEF Dated
<1>2. ASSUME NEW r \in Requests, LookUp(r) \/ Load(r) \/ Store(r)
      PROVE  Dated'
  BY <1>0, <1>2, MiddlewareMoves DEF Proceeds, Dated
<1>3. ASSUME NEW r \in Requests, NEW call \in Calls,
             Arrive(r, call) \/ \E t \in tokens : ArriveWithToken(r, call, t)
      PROVE  Dated'
  <2>1. UNCHANGED <<user, tokens>>
    BY <1>3 DEF Arrive, ArriveWithToken
  <2>2. \A s \in Requests : request'[s].pc = "answer" => request'[s] = request[s]
    <3>1. CASE Arrive(r, call)
      BY <1>0, <3>1 DEF Arrive, TypeOK, RequestStates
    <3>2. ASSUME NEW t \in tokens, ArriveWithToken(r, call, t) PROVE <2>2
      BY <1>0, <3>2 DEF ArriveWithToken, TypeOK, RequestStates
    <3> QED
      BY <1>3, <3>1, <3>2
  <2> QED
    BY <2>1, <2>2 DEF Dated
<1>4. ASSUME UNCHANGED <<user, tokens, request>> PROVE Dated'
  BY <1>4 DEF Dated
<1> QED
  BY <1>1, <1>2, <1>3, <1>4, EnvironmentStep DEF Next, Step, vars

(* The account itself refuses an entitled request only in the second of a  *)
(* change of the password.                                                 *)
LEMMA RefusedInTheSecond ==
  ASSUME TypeOK, VersionsInv, Dated, NEW t \in tokens, NEW call,
         EntitledBy(user, t, call), ~Admits(user, t, call)
  PROVE  user.password_changed_at \div TicksPerSecond = t.iat
<1>1. /\ t \in Tokens /\ t.iat \in Nat /\ user \in Users /\ user.password_changed_at \in Nat
      /\ t.role = user.role
  BY DEF TypeOK, Tokens, Users, VersionsInv, Later, EntitledBy
<1>2. PasswordChangedSince(user, t)
  BY <1>1 DEF EntitledBy, Admits, SameVersion
<1>3. user.password_changed_at \div TicksPerSecond <= t.iat
  BY DEF Dated, SameVersions, EntitledBy
<1> QED
  BY <1>1, <1>2, <1>3 DEF PasswordChangedSince, TicksPerSecond

LEMMA WorkStep ==
  TypeOK /\ VersionsInv /\ AdmissionsInv /\ Dated /\ WorkInv /\ [Next]_vars => WorkInv'
<1> SUFFICES ASSUME TypeOK, VersionsInv, AdmissionsInv, Dated, WorkInv, [Next]_vars
             PROVE  WorkInv'
  OBVIOUS
<1>0. \A r \in Requests : request[r] \in RequestStates
  BY DEF TypeOK
<1>1. ASSUME NEW r \in Requests,
             \/ Find(r) \/ FindAgain(r) \/ CreateUser(r) \/ LinkGoogle(r)
             \/ IssueTokens(r) \/ WriteUser(r) \/ ClearCached(r)
      PROVE  WorkInv'
  <2>1. Handled(r)
    BY <1>1, HandlerStep
  <2>2. tokens \subseteq tokens'
    BY <1>1 DEF Find, FindAgain, CreateUser, LinkGoogle, IssueTokens, WriteUser, ClearCached
  <2>3. Worked(request'[r], user', tokens')
    BY <2>1 DEF Handled, Worked, HandlerPcs, AuthPcs
  <2>4. ASSUME NEW s \in Requests \ {r} PROVE Worked(request'[s], user', tokens')
    <3>1. CASE request'[s] = request[s] /\ user' = user
      BY <2>2, <3>1 DEF WorkInv, Worked
    <3>2. CASE request'[s] = Touched(request[s])
      <4> DEFINE q == request[s]
      <4>1. /\ Touched(q).pc = q.pc /\ Touched(q).token = q.token /\ Touched(q).seen = q.seen
            /\ (Touched(q).entitled <=> q.entitled) /\ (Touched(q).hit <=> q.hit)
            /\ (Touched(q).touched <=> q.touched \/ q.pc \in AuthPcs)
        BY <1>0, TouchedType DEF RequestStates
      <4> QED
        BY <2>2, <3>2, <4>1 DEF WorkInv, Worked, AuthPcs
    <3> QED
      BY <2>1, <3>1, <3>2 DEF Handled
  <2> QED
    BY <2>3, <2>4 DEF WorkInv
<1>2. ASSUME NEW r \in Requests, LookUp(r) \/ Load(r) \/ Store(r)
      PROVE  WorkInv'
  <2> DEFINE q == request[r]
             p == request'[r]
  <2>1. /\ UNCHANGED <<user, tokens>> /\ q.pc \in AuthPcs
        /\ \A s \in Requests \ {r} : request'[s] = request[s]
        /\ p.call = q.call /\ p.token = q.token
        /\ (p.entitled <=> q.entitled) /\ (p.touched <=> q.touched)
        /\ \/ p.pc \in {"load", "fallback", "done", "write", "find"}
           \/ p.pc = "store" /\ p.seen = user
           \/ p.pc = "refused" /\ p.hit
           \/ /\ p.pc = "refused" /\ ~Admits(p.seen, q.token, q.call)
              /\ p.seen = IF q.pc = "store" THEN q.seen ELSE user
           \/ p.pc = "refused" /\ q.pc # "store" /\ (user.state = "none" \/ user.id # q.id)
    BY <1>2, MiddlewareMoves DEF Proceeds
  <2>2. q.token \in tokens /\ Worked(q, user, tokens) /\ Looked(q, user)
    BY <2>1 DEF WorkInv, Worked, AdmissionsInv
  <2>3. q.entitled /\ ~q.touched =>
          /\ EntitledBy(user, q.token, q.call) /\ user.state = "live" /\ user.id = q.id
          /\ q.pc = "store" => q.seen = user
    BY <2>1, <2>2 DEF Worked, Looked, EntitledBy
  <2>4. q.entitled /\ ~q.touched /\ p.pc = "refused" =>
          p.hit \/ p.seen.password_changed_at \div TicksPerSecond = q.token.iat
    BY <2>1, <2>2, <2>3, RefusedInTheSecond
  <2>5. Worked(p, user', tokens')
    BY <2>1, <2>2, <2>3, <2>4 DEF Worked
  <2> QED
    BY <2>1, <2>5 DEF WorkInv, Worked
<1>3. ASSUME NEW r \in Requests, NEW call \in Calls,
             Arrive(r, call) \/ \E t \in tokens : ArriveWithToken(r, call, t)
      PROVE  WorkInv'
  <2>1. CASE Arrive(r, call)
    <3>1. /\ request'[r].pc \in {"write", "find"} /\ UNCHANGED <<user, tokens>>
          /\ \A s \in Requests \ {r} : request'[s] = request[s]
      BY <1>0, <2>1 DEF Arrive, TypeOK, RequestStates
    <3> QED
      BY <3>1 DEF WorkInv, Worked, AuthPcs
  <2>2. ASSUME NEW t \in tokens, ArriveWithToken(r, call, t) PROVE WorkInv'
    <3> DEFINE pc == IF call \in TokenCalls THEN "find"
                     ELSE IF redis_enabled THEN "lookup" ELSE "load"
               e == Entitled(t, call)
               p == [request[r] EXCEPT !.call = call, !.id = t.id, !.token = t,
                      !.old = Old(t), !.entitled = e, !.pc = pc]
    <3>1. request' = [request EXCEPT ![r] = p] /\ UNCHANGED <<user, tokens>>
      BY <2>2 DEF ArriveWithToken
    <3>2. request'[r] = p /\ \A s \in Requests \ {r} : request'[s] = request[s]
      BY <3>1 DEF TypeOK
    <3>3. p.call = call /\ p.token = t /\ p.pc = pc /\ (p.entitled <=> e)
      BY <1>0 DEF RequestStates
    <3>4. pc # "refused"
      OBVIOUS
    <3>5. e => EntitledBy(user, t, call)
      BY DEF EntitledBy, Entitled, Old, Live
    <3> HIDE DEF p, pc, e
    <3> QED
      BY <3>1, <3>2, <3>3, <3>4, <3>5 DEF WorkInv, Worked
  <2> QED
    BY <1>3, <2>1, <2>2
<1>4. ASSUME UNCHANGED <<user, tokens, request>> PROVE WorkInv'
  BY <1>4 DEF WorkInv, Worked
<1> QED
  BY <1>1, <1>2, <1>3, <1>4, EnvironmentStep DEF Next, Step, vars

(* A request with a current token, to an account that is open to it, is    *)
(* refused by the account itself only if the token is of the second of a   *)
(* change of the password (auth.middleware.ts, 103); otherwise the copy in *)
(* Redis is to blame.                                                      *)
THEOREM CurrentAdmitted == Spec => []CurrentWorks
<1> DEFINE Inv == TypeOK /\ VersionsInv /\ AdmissionsInv /\ Ages /\ Dated /\ WorkInv
<1>1. Init => Inv
  <2> SUFFICES ASSUME Init PROVE Ages /\ Dated /\ WorkInv
    BY InitType, VersionsInit, AdmissionsInit
  <2>1. /\ \A r \in Requests : request[r].pc = "idle" /\ request[r].seen = NoUser
                               /\ ~request[r].entitled
        /\ cached = {} /\ now = TicksPerSecond
    BY DEF Init
  <2>2. user.password_changed_at = 0 /\ NoUser.password_changed_at = 0
    <3>1. \A p : Created(1, 0, p, "email").password_changed_at = 0
      BY DEF Created, NoUser
    <3>2. NoUser.password_changed_at = 0
      BY DEF NoUser
    <3> QED
      BY <3>1, <3>2 DEF Init
  <2>3. \A t \in tokens : t.iat = 1
    BY DEF Init, IssuedFrom, TicksPerSecond
  <2> QED
    BY <2>1, <2>2, <2>3 DEF Ages, Dated, WorkInv, Worked, AuthPcs, TicksPerSecond
<1>2. Inv /\ [Next]_vars => Inv'
  BY TypeStep, VersionsStep, AdmissionsStep, AgesStep, DatedStep, WorkStep
<1>3. Inv => CurrentWorks
  BY DEF WorkInv, Worked, CurrentWorks
<1> QED
  BY <1>1, <1>2, <1>3, PTL DEF Spec
=============================================================================
