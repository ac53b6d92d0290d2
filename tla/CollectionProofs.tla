--------------------------- MODULE CollectionProofs ---------------------------
(***************************************************************************)
(* The soft-deleted collections, proved for any number of documents,       *)
(* values and requests and for every kind of KindsAssumption.  A request   *)
(* that runs alone sees nothing change between its steps (Exclusive): what *)
(* its lookup found is what its write meets.  Whatever a request writes    *)
(* next to others is marked raced, and every other write either keeps what *)
(* the properties are about (Keeps) or is a create or an update.           *)
(***************************************************************************)
EXTENDS Collections, FiniteSetTheorems, TLAPS

Pcs == {"idle", "find", "check", "begin", "commit", "record", "load", "write",
        "clear", "get", "fetch", "store", "done", "rejected"}

Types ==
  /\ kind \in Kinds
  /\ doc \in [Docs -> DocStates]
  /\ rows \in [Docs -> Seq(Nat)]
  /\ cached \in [Keys -> SUBSET SUBSET Copies]
  /\ suspect \subseteq Keys
  /\ request \in [Requests -> RequestStates]
OneAnswer == \A k \in Keys : cached[k] = {} \/ \E a \in SUBSET Copies : cached[k] = {a}

(* What a call carries. *)
Carries(ask) ==
  /\ ask.call \in kind.routes
  /\ ask.call = "create" => ask.docs = {} /\ ask.value \in Values
  /\ ask.call \in Edits \ {"create"} => \E d \in Docs : ask.docs = {d}
  /\ ask.call = "read" => ask.key[1] \in service.keys
  /\ ask.call \notin {"create", "update"} => ask.value = NoValue

(* Which calls a step belongs to. *)
Belongs(q) ==
  /\ q.pc \in {"check", "record", "begin", "commit"} => q.ask.call \in {"create", "update"}
  /\ q.pc = "find" => q.ask.call \notin {"create", "restore", "restoreMany", "read"}
  /\ q.pc = "record" => q.ask.call = "update" /\ service.history = "after"
  /\ q.pc \in {"begin", "commit"} => Elects
  /\ q.pc = "load" => q.ask.call = "delete" /\ store.erase = "save"
  /\ q.pc \in {"get", "fetch", "store"} <=> q.ask.call = "read"
  /\ q.pc # "clear" => q.clears = {}

Proper == \A r \in Requests : ~AtRest(r) => Carries(request[r].ask) /\ Belongs(request[r])
RestsClear == \A r \in Requests : AtRest(r) => request[r].clears = {}

TypeInv == Types /\ OneAnswer /\ Proper /\ RestsClear

-----------------------------------------------------------------------------
(* Types *)

LEMMA KindTypes ==
  ASSUME Types
  PROVE  /\ kind \in CollectionKinds
         /\ service \in Services /\ store \in Stores /\ kind.schema \in Schemas
BY CollectionsAssumption DEF Types, CollectionKinds, service, store

LEMMA FreshTypes ==
  /\ Initial \in Keys
  /\ Fresh \in RequestStates
  /\ \A pc \in Pcs : /\ [Fresh EXCEPT !.pc = pc] \in RequestStates
                     /\ [Fresh EXCEPT !.pc = pc].pc = pc
                     /\ [Fresh EXCEPT !.pc = pc].clears = {}
<1>1. Initial \in Keys
  BY DEF Initial, Keys
<1>2. Bare("read", {}) \in Asks
  BY <1>1 DEF Bare, Ask, Asks, CallNames
<1> HIDE DEF Bare
<1>3. Fresh \in RequestStates
  BY <1>2 DEF Fresh, RequestStates
<1>4. \A pc \in Pcs : [Fresh EXCEPT !.pc = pc] \in RequestStates
  BY <1>3 DEF Pcs, RequestStates, Ended
<1> QED
  BY <1>1, <1>3, <1>4 DEF Fresh

(* The calls that arrive carry what they should. *)
LEMMA CallsCarry ==
  ASSUME Types, NEW r \in Requests, Calls(r)
  PROVE  \E ask \in Asks : Carries(ask) /\ Arrive(r, ask)
<1>1. /\ Initial \in Keys /\ Elects \in BOOLEAN
      /\ Edits = {"create", "update", "delete", "purge", "restore"}
      /\ Bulk = {"updateMany", "deleteMany", "purgeMany", "restoreMany"}
      /\ CallNames = Edits \cup Bulk \cup {"read"}
  BY FreshTypes DEF Elects, Edits, Bulk, CallNames, Writes
<1> DEFINE Q == \E ask \in Asks : Carries(ask) /\ Arrive(r, ask)
<1>2. ASSUME NEW call \in CallNames, NEW docs \in SUBSET Docs, NEW value \in Values \cup {NoValue},
             NEW initial \in BOOLEAN, NEW active \in {"yes", "no", "unset"}, call # "read",
             Arrive(r, Ask(call, docs, value, initial, active)),
             call = "create" => docs = {} /\ value \in Values,
             call \in Edits \ {"create"} => \E d \in Docs : docs = {d},
             call \notin {"create", "update"} => value = NoValue
      PROVE  Q
  <2> DEFINE ask == Ask(call, docs, value, initial, active)
  <2>1. ask.call \in kind.routes
    BY <1>2 DEF Arrive
  <2>2. ask \in Asks /\ Carries(ask)
    BY <1>1, <1>2, <2>1 DEF Ask, Asks, Carries
  <2> HIDE DEF ask
  <2> QED
    BY <1>2, <2>2 DEF ask
<1>3. ASSUME NEW key \in Keys, key[1] \in service.keys, Arrive(r, Reading(key))
      PROVE  Q
  <2> DEFINE ask == Reading(key)
  <2>1. ask.call \in kind.routes
    BY <1>3 DEF Arrive
  <2>2. ask \in Asks /\ Carries(ask)
    BY <1>1, <1>3, <2>1 DEF Reading, Bare, Ask, Asks, Carries
  <2> HIDE DEF ask
  <2> QED
    BY <1>3, <2>2 DEF ask
<1> HIDE DEF Q
<1>4. ASSUME NEW v \in Values, NEW i \in {Elects, FALSE},
             Arrive(r, Ask("create", {}, v, i, "unset"))
      PROVE  Q
  BY <1>1, <1>2, <1>4
<1>5. ASSUME NEW d \in Docs, NEW v \in Values, Arrive(r, Ask("update", {d}, v, FALSE, "unset"))
      PROVE  Q
  BY <1>1, <1>2, <1>5
<1>6. ASSUME NEW d \in Docs, NEW a \in {"yes", "no"},
             Arrive(r, Ask("update", {d}, NoValue, FALSE, a))
      PROVE  Q
  BY <1>1, <1>2, <1>6
<1>7. ASSUME NEW d \in Docs, Arrive(r, Ask("update", {d}, NoValue, Elects, "unset"))
      PROVE  Q
  BY <1>1, <1>2, <1>7
<1>8. ASSUME NEW S \in SUBSET Docs, NEW a \in {"yes", "no"},
             Arrive(r, Ask("updateMany", S, NoValue, FALSE, a))
      PROVE  Q
  BY <1>1, <1>2, <1>8
<1>9. ASSUME NEW S \in SUBSET Docs, NEW c \in CallNames \ {"create", "update", "read"},
             c \in Bulk \/ \E d \in Docs : S = {d}, Arrive(r, Bare(c, S))
      PROVE  Q
  BY <1>1, <1>2, <1>9 DEF Bare
<1>10. ASSUME NEW d \in Docs, NEW c \in {"delete", "purge", "restore"}, Arrive(r, Bare(c, {d}))
       PROVE  Q
  BY <1>1, <1>9, <1>10
<1>11. ASSUME NEW S \in (SUBSET Docs) \ {{}}, NEW c \in Bulk \ {"updateMany"}, Arrive(r, Bare(c, S))
       PROVE  Q
  BY <1>1, <1>9, <1>11
<1>12. Q
  BY <1>3, <1>4, <1>5, <1>6, <1>7, <1>8, <1>10, <1>11 DEF Calls
<1> QED
  BY <1>12 DEF Q

LEMMA InitTypes == Init => TypeInv
<1> SUFFICES ASSUME Init PROVE TypeInv
  OBVIOUS
<1>1. doc \in [Docs -> DocStates]
  <2>1. \A state \in [Docs -> {"none", "live", "deleted"}], value \in [Docs -> Values],
        only \in {{}} \cup {{d} : d \in Docs} : Earlier(state, value, only) \in [Docs -> DocStates]
    BY DEF Earlier, DocStates
  <2> QED
    BY <2>1 DEF Init
<1>2. /\ request \in [Requests -> RequestStates] /\ \A r \in Requests : AtRest(r)
      /\ \A r \in Requests : request[r].clears = {}
  BY FreshTypes DEF Init, AtRest, Fresh
<1> QED
  BY <1>1, <1>2 DEF Init, TypeInv, Types, OneAnswer, Proper, RestsClear

(* A step of request r leaves the others alone, but for their clash, *)
Same(p, q) ==
  /\ p.pc = q.pc /\ p.ask = q.ask /\ p.alone = q.alone /\ p.found = q.found
  /\ p.version = q.version /\ p.mine = q.mine /\ p.first = q.first
  /\ p.clears = q.clears /\ p.answer = q.answer
Others(r) == \A s \in Requests \ {r} : Same(request'[s], request[s])

(* and r where it should be. *)
Own(r) ==
  IF AtRest(r)' THEN request'[r].clears = {}
  ELSE Carries(request'[r].ask) /\ Belongs(request'[r])

LEMMA BecomeTypes ==
  ASSUME Types, NEW r \in Requests, NEW q \in RequestStates, Become(r, q)
  PROVE  /\ request' \in [Requests -> RequestStates]
         /\ request'[r] = q /\ Others(r)
BY DEF Become, Types, Others, Same

LEMMA FinishTypes ==
  ASSUME Types, NEW r \in Requests, NEW pc \in Ended, Finish(r, pc), kind' = kind
  PROVE  /\ request' \in [Requests -> RequestStates]
         /\ request'[r].pc = pc /\ Others(r) /\ Own(r) /\ request'[r].clears = {}
<1>1. pc \in Pcs
  BY DEF Ended, Pcs
<1> DEFINE q == [Fresh EXCEPT !.pc = pc]
<1>2. q \in RequestStates /\ q.pc = pc /\ q.clears = {}
  BY <1>1, FreshTypes
<1>3. Become(r, q)
  BY DEF Finish
<1> HIDE DEF q
<1> QED
  BY <1>2, <1>3, BecomeTypes DEF Own, AtRest, Ended

LEMMA GotoTypes ==
  ASSUME NEW q \in RequestStates, NEW pc \in Pcs
  PROVE  /\ [q EXCEPT !.pc = pc] \in RequestStates
         /\ [q EXCEPT !.pc = pc].pc = pc /\ [q EXCEPT !.pc = pc].ask = q.ask
         /\ [q EXCEPT !.pc = pc].alone = q.alone /\ [q EXCEPT !.pc = pc].found = q.found
         /\ [q EXCEPT !.pc = pc].version = q.version /\ [q EXCEPT !.pc = pc].clears = q.clears
BY DEF RequestStates, Ended, Pcs

LEMMA PutTypes ==
  ASSUME Types, NEW r \in Requests, NEW new \in [Docs -> DocStates], NEW v, Put(r, new, v),
         ClearedBy(request[r].ask.call, v) \subseteq Keys,
         Carries(request[r].ask), request[r].ask.call # "read"
  PROVE  /\ kind' = kind /\ cached' = cached
         /\ doc' \in [Docs -> DocStates] /\ suspect' \subseteq Keys
         /\ request' \in [Requests -> RequestStates]
         /\ Others(r) /\ Own(r) /\ request'[r].pc \in {"done", "clear"}
<1> DEFINE changed == {d \in Docs : new[d] # doc[d]}
           clears == ClearedBy(request[r].ask.call, v)
           done == [Fresh EXCEPT !.pc = "done"]
           clearing == [request[r] EXCEPT !.pc = "clear", !.clears = clears, !.mine = {}]
           clash(s) == [request[s] EXCEPT !.clash = @ \/ request[s].mine \cap changed # {}]
<1>1. /\ kind' = kind /\ cached' = cached
      /\ suspect' \subseteq Keys
  BY DEF Put, Types
<1>2. doc' \in [Docs -> DocStates]
  BY DEF Put, Types, DocStates
<1>3. done \in RequestStates /\ done.pc = "done" /\ done.clears = {}
  BY FreshTypes DEF Pcs
<1>4. /\ clearing \in RequestStates /\ clearing.pc = "clear" /\ clearing.ask = request[r].ask
  BY DEF Types, RequestStates
<1>5. \A s \in Requests : clash(s) \in RequestStates /\ Same(clash(s), request[s])
  <2>1. ASSUME NEW q \in RequestStates, NEW b \in BOOLEAN
        PROVE  [q EXCEPT !.clash = b] \in RequestStates /\ Same([q EXCEPT !.clash = b], q)
    BY DEF RequestStates, Same
  <2>2. \A s \in Requests : clash(s) =
          [request[s] EXCEPT !.clash = request[s].clash \/ request[s].mine \cap changed # {}]
    OBVIOUS
  <2>3. \A s \in Requests : request[s] \in RequestStates
          /\ (request[s].clash \/ request[s].mine \cap changed # {}) \in BOOLEAN
    BY DEF Types
  <2> HIDE DEF clash, changed
  <2> QED
    BY <2>1, <2>2, <2>3
<1>6. /\ \A s \in Requests \ {r} : request'[s] = clash(s)
      /\ request'[r] = IF clears = {} THEN done ELSE clearing
      /\ request' \in [Requests -> RequestStates]
  <2>1. request' = [s \in Requests |-> IF s # r THEN clash(s)
                                       ELSE IF clears = {} THEN done ELSE clearing]
    BY DEF Put
  <2> HIDE DEF done, clearing, clash
  <2> QED
    BY <1>3, <1>4, <1>5, <2>1
<1> HIDE DEF done, clearing, clash, clears
<1>7. Others(r)
  BY <1>5, <1>6 DEF Others
<1>8. Own(r)
  BY <1>1, <1>3, <1>4, <1>6 DEF Own, AtRest, Ended, Carries, Belongs, service, store, Elects
<1> QED
  BY <1>1, <1>2, <1>3, <1>4, <1>6, <1>7, <1>8

LEMMA ClearTypes ==
  ASSUME Types, NEW call, NEW v,
         v \in Values \/ call \notin {"create", "update", "delete"} \/ store.erase = "save"
  PROVE  ClearedBy(call, v) \subseteq Keys
BY KindsAssumption DEF Types, ClearedBy, Keys, Initial, service, store

-----------------------------------------------------------------------------
(* What the writes do *)

(* Every write but a create and an update leaves the value and the version *)
(* of a document, makes none initial and brings none to life but by a      *)
(* restore.                                                                *)
Keeps(p, q) ==
  /\ q.value = p.value /\ q.version = p.version
  /\ q.initial => p.initial
  /\ p.raced => q.raced
  /\ p.restored => q.restored
  /\ q.state = "none" <=> p.state = "none"
  /\ q.state \in {"live", "deleted"} => p.state \in {"live", "deleted"}
  /\ q.state = "live" => p.state = "live" \/ q.restored

LEMMA SomeFound ==
  ASSUME Types, NEW how, NEW S \in SUBSET Docs
  PROVE  /\ Found(how, S) \subseteq {d \in S : doc[d].state \in {"live", "deleted"}}
         /\ how \notin {"deleted", "unselected"} => {d \in S : Live(d)} \subseteq Found(how, S)
BY DEF Found, Sees, Live

LEMMA DocTypes ==
  ASSUME Types, NEW d \in Docs
  PROVE  /\ Keeps(doc[d], doc[d])
         /\ Deleted(d) \in DocStates
         /\ doc[d].state \in {"live", "deleted"} => Keeps(doc[d], Deleted(d))
         /\ [doc[d] EXCEPT !.state = "gone"] \in DocStates
         /\ doc[d].state # "none" => Keeps(doc[d], [doc[d] EXCEPT !.state = "gone"])
         /\ [doc[d] EXCEPT !.state = "deleted"] \in DocStates
         /\ doc[d].state \in {"live", "deleted"} => Keeps(doc[d], [doc[d] EXCEPT !.state = "deleted"])
         /\ [doc[d] EXCEPT !.initial = FALSE] \in DocStates
         /\ Keeps(doc[d], [doc[d] EXCEPT !.initial = FALSE])
<1>1. doc[d] \in DocStates
  BY DEF Types
<1>2. (doc[d].active /\ ~store.idles) \in BOOLEAN
  OBVIOUS
<1>3. \A a \in BOOLEAN : LET q == [doc[d] EXCEPT !.state = "deleted", !.active = a] IN
        q \in DocStates /\ (doc[d].state \in {"live", "deleted"} => Keeps(doc[d], q))
  BY <1>1 DEF DocStates, Keeps
<1>4. Deleted(d) = [doc[d] EXCEPT !.state = "deleted", !.active = doc[d].active /\ ~store.idles]
  BY DEF Deleted
<1>5. Deleted(d) \in DocStates /\ (doc[d].state \in {"live", "deleted"} => Keeps(doc[d], Deleted(d)))
  BY <1>2, <1>3, <1>4
<1> QED
  BY <1>1, <1>5 DEF DocStates, Keeps

(* A write that keeps.  What clears its own key writes no document of      *)
(* another value.                                                          *)
Owns == {"create", "update", "delete"}
Kept(r) ==
  \E new \in [Docs -> DocStates] : \E v :
    /\ Put(r, new, v) /\ \A d \in Docs : Keeps(doc[d], new[d])
    /\ ClearedBy(request[r].ask.call, v) \subseteq Keys
    /\ rows' = rows
    /\ request[r].ask.call \in Owns /\ store.erase = "update" =>
         \A d \in Docs : new[d] = doc[d] \/ doc[d].value = v
Refuses(r) ==
  Finish(r, "rejected") /\ UNCHANGED <<kind, doc, rows, cached, suspect>>

LEMMA DeleteKeeps ==
  ASSUME TypeInv, NEW r \in Requests, Delete(r)
  PROVE  Kept(r) \/ Refuses(r)
<1> DEFINE ask == request[r].ask
           hit == IF store.erase = "save"
                  THEN {d \in ask.docs : doc[d].state \in {"live", "deleted"}}
                  ELSE Found("plain", ask.docs)
           new == [e \in Docs |-> IF e \in hit THEN Deleted(e) ELSE doc[e]]
<1>1. ask.docs \in SUBSET Docs
  BY DEF TypeInv, Types, RequestStates, Asks
<1>2. Refuses(r) \/ \E d \in ask.docs : Put(r, new, doc[d].value) /\ rows' = rows
  BY DEF Delete, Refuses
<1>3. hit \subseteq {d \in Docs : doc[d].state \in {"live", "deleted"}}
  BY <1>1, SomeFound DEF TypeInv
<1> HIDE DEF hit
<1>4. new \in [Docs -> DocStates] /\ \A d \in Docs : Keeps(doc[d], new[d])
  BY <1>3, DocTypes DEF TypeInv, Types
<1>5. ASSUME NEW d \in ask.docs
      PROVE  ClearedBy(ask.call, doc[d].value) \subseteq Keys
  <2>1. doc[d].value \in Values
    BY <1>1 DEF TypeInv, Types, DocStates
  <2> QED
    BY <2>1, ClearTypes DEF TypeInv
<1>6. \A d \in ask.docs : store.erase = "update" =>
        \A e \in Docs : new[e] = doc[e] \/ doc[e].value = doc[d].value
  <2>1. \E d \in Docs : ask.docs = {d}
    BY DEF Delete, TypeInv, Proper, Carries, Edits, AtRest, Ended
  <2>2. store.erase = "update" => hit \subseteq ask.docs
    BY <1>1, SomeFound DEF hit, TypeInv
  <2> QED
    BY <2>1, <2>2
<1> HIDE DEF new
<1> QED
  BY <1>2, <1>4, <1>5, <1>6 DEF Kept

LEMMA PurgeKeeps ==
  ASSUME TypeInv, NEW r \in Requests, Purge(r)
  PROVE  Kept(r) \/ Refuses(r)
<1> DEFINE ask == request[r].ask
           new == Gone(Found(store.remove, ask.docs))
<1>1. ask.docs \in SUBSET Docs
  BY DEF TypeInv, Types, RequestStates, Asks
<1>2. Refuses(r) \/ (Put(r, new, NoValue) /\ rows' = rows)
  BY DEF Purge, Refuses
<1>3. Found(store.remove, ask.docs) \subseteq {d \in Docs : doc[d].state \in {"live", "deleted"}}
  BY <1>1, SomeFound DEF TypeInv
<1>4. new \in [Docs -> DocStates] /\ \A d \in Docs : Keeps(doc[d], new[d])
  BY <1>3, DocTypes DEF TypeInv, Types, Gone
<1>5. ClearedBy(ask.call, NoValue) \subseteq Keys
  BY ClearTypes DEF TypeInv, Purge
<1>6. ask.call \notin Owns \/ Refuses(r)
  BY DEF Purge, Owns
<1> HIDE DEF new
<1> QED
  BY <1>2, <1>4, <1>5, <1>6 DEF Kept

LEMMA RestoreKeeps ==
  ASSUME TypeInv, NEW r \in Requests, Restore(r)
  PROVE  Kept(r) \/ Refuses(r)
<1> DEFINE ask == request[r].ask
           hit == Found("deleted", ask.docs)
           new == Restored(hit)
           risen(d) == [doc[d] EXCEPT !.state = "live", !.active = doc[d].active /\ ~store.idles,
                                      !.restored = TRUE]
<1>1. ask.docs \in SUBSET Docs
  BY DEF TypeInv, Types, RequestStates, Asks
<1>2. Refuses(r) \/ (Put(r, new, NoValue) /\ rows' = rows)
  BY DEF Restore, Refuses
<1>3. hit \subseteq {d \in Docs : doc[d].state \in {"live", "deleted"}}
  BY <1>1, SomeFound DEF TypeInv
<1>4. \A d \in Docs : risen(d) \in DocStates
                      /\ (doc[d].state \in {"live", "deleted"} => Keeps(doc[d], risen(d)))
  <2>1. \A d \in Docs, a \in BOOLEAN :
          LET q == [doc[d] EXCEPT !.state = "live", !.active = a, !.restored = TRUE] IN
          q \in DocStates /\ (doc[d].state \in {"live", "deleted"} => Keeps(doc[d], q))
    BY DEF TypeInv, Types, DocStates, Keeps
  <2>2. \A d \in Docs : (doc[d].active /\ ~store.idles) \in BOOLEAN
    OBVIOUS
  <2> QED
    BY <2>1, <2>2
<1>5. new = [d \in Docs |-> IF d \in hit THEN risen(d) ELSE doc[d]]
  BY DEF Restored
<1> HIDE DEF risen, hit, new
<1>6. new \in [Docs -> DocStates] /\ \A d \in Docs : Keeps(doc[d], new[d])
  BY <1>3, <1>4, <1>5, DocTypes DEF TypeInv, Types
<1>7. ClearedBy(ask.call, NoValue) \subseteq Keys
  BY ClearTypes DEF TypeInv, Restore
<1>8. ask.call \notin Owns
  BY DEF Restore, Owns
<1> QED
  BY <1>2, <1>6, <1>7, <1>8 DEF Kept

LEMMA LoadKeeps ==
  ASSUME TypeInv, NEW r \in Requests, Load(r)
  PROVE  \/ Kept(r) \/ Refuses(r)
         \/ /\ Become(r, [request[r] EXCEPT !.pc = "write",
                                            !.found = Found("plain", request[r].ask.docs)])
            /\ UNCHANGED <<kind, doc, rows, cached, suspect>>
<1>1. \/ Become(r, [request[r] EXCEPT !.pc = "write",
                                      !.found = Found("plain", request[r].ask.docs)])
         /\ UNCHANGED <<kind, doc, rows, cached, suspect>>
      \/ Refuses(r)
      \/ Put(r, doc, NoValue) /\ rows' = rows
  BY DEF Load, Refuses
<1>2. request[r].pc = "load" /\ ~AtRest(r)
  BY DEF Load, AtRest, Ended
<1>3. store.erase = "save"
  BY <1>2 DEF TypeInv, Proper, Belongs
<1>4. ClearedBy(request[r].ask.call, NoValue) \subseteq Keys
  BY <1>3, ClearTypes DEF TypeInv
<1>5. doc \in [Docs -> DocStates] /\ \A d \in Docs : Keeps(doc[d], doc[d])
  BY DocTypes DEF TypeInv, Types
<1> QED
  BY <1>1, <1>3, <1>4, <1>5 DEF Kept

(* An update of one document, or of many. *)
LEMMA AppliedTypes ==
  ASSUME TypeInv, NEW ask \in Asks, NEW d \in Docs
  PROVE  /\ Applied(d, ask) \in DocStates
         /\ Applied(d, ask).state = doc[d].state
         /\ Applied(d, ask).initial = doc[d].initial
         /\ Applied(d, ask).version = doc[d].version
         /\ Applied(d, ask).raced = doc[d].raced /\ Applied(d, ask).restored = doc[d].restored
         /\ Applied(d, ask).value = IF ask.value # NoValue THEN ask.value ELSE doc[d].value
         /\ ask.value = NoValue => Keeps(doc[d], Applied(d, ask))
<1> DEFINE value == IF ask.value # NoValue THEN ask.value ELSE doc[d].value
           active == IF ask.active = "unset" THEN doc[d].active ELSE ask.active = "yes"
<1>1. doc[d] \in DocStates
  BY DEF TypeInv, Types
<1>2. value \in Values /\ active \in BOOLEAN
  BY <1>1 DEF DocStates, Asks
<1>3. Applied(d, ask) = [doc[d] EXCEPT !.value = value, !.active = active]
  BY DEF Applied
<1> HIDE DEF value, active
<1>4. /\ Applied(d, ask) \in DocStates
      /\ Applied(d, ask).state = doc[d].state
      /\ Applied(d, ask).initial = doc[d].initial
      /\ Applied(d, ask).version = doc[d].version
      /\ Applied(d, ask).raced = doc[d].raced /\ Applied(d, ask).restored = doc[d].restored
      /\ Applied(d, ask).value = value
  BY <1>1, <1>2, <1>3 DEF DocStates
<1> QED
  BY <1>4 DEF Keeps, value

LEMMA WriteManyKeeps ==
  ASSUME TypeInv, NEW r \in Requests, WriteMany(r)
  PROVE  Kept(r)
<1> DEFINE ask == request[r].ask
           stored == {d \in request[r].found : doc[d].state \in {"live", "deleted"}}
           updated == {d \in stored : kind.schema.hook = "always" => Live(d)}
           removed == {d \in stored : store.removeMany = "deleted" => ~Live(d)}
           applied == [d \in Docs |-> IF d \in updated THEN Applied(d, ask) ELSE doc[d]]
           erased == [d \in Docs |-> IF d \in updated
                                     THEN [doc[d] EXCEPT !.state = "deleted"] ELSE doc[d]]
<1>1. ask \in Asks /\ request[r].found \subseteq Docs
  BY DEF TypeInv, Types, RequestStates
<1>2. ask.call \in Listed /\ ~AtRest(r)
  BY DEF WriteMany, AtRest, Ended
<1>3. ask.value = NoValue
  BY <1>2 DEF TypeInv, Proper, Carries, Listed
<1>4. updated \subseteq stored /\ removed \subseteq stored
  OBVIOUS
<1>5. \A d \in stored : d \in Docs /\ doc[d].state \in {"live", "deleted"} /\ doc[d].state # "none"
  BY <1>1
<1>6. ClearedBy(ask.call, NoValue) \subseteq Keys
  BY <1>2, ClearTypes DEF TypeInv, Listed
<1>7. \/ Put(r, Gone(removed), NoValue) \/ Put(r, applied, NoValue) \/ Put(r, erased, NoValue)
  BY <1>2 DEF WriteMany, Listed
<1> HIDE DEF updated, removed, stored
<1>8. Gone(removed) \in [Docs -> DocStates] /\ \A d \in Docs : Keeps(doc[d], Gone(removed)[d])
  BY <1>4, <1>5, DocTypes DEF TypeInv, Types, Gone
<1>9. erased \in [Docs -> DocStates] /\ \A d \in Docs : Keeps(doc[d], erased[d])
  BY <1>4, <1>5, DocTypes DEF TypeInv, Types
<1>10. applied \in [Docs -> DocStates] /\ \A d \in Docs : Keeps(doc[d], applied[d])
  BY <1>1, <1>3, DocTypes, AppliedTypes DEF TypeInv, Types
<1>11. ask.call \notin Owns
  BY <1>2 DEF Listed, Owns
<1> HIDE DEF applied, erased
<1> QED
  BY <1>6, <1>7, <1>8, <1>9, <1>10, <1>11 DEF Kept, WriteMany

Alike(p, q) == Keeps(p, q) /\ q.state = p.state /\ q.active = p.active

(* A create fills the place of a document that was none; the others keep.  *)
Creation(r) ==
  \E new \in [Docs -> DocStates] : \E d \in Docs, initial \in BOOLEAN :
    LET ask == request[r].ask IN
    /\ Put(r, new, ask.value) /\ rows' = rows
    /\ ask.call = "create"
    /\ doc[d].state = "none" /\ ~Refused(d, ask.value)
    /\ new[d] = Created(d, ask, initial)
    /\ \A e \in Docs \ {d} : Alike(doc[e], new[e])
    /\ initial =>
         /\ request[r].pc = "commit" /\ (ask.initial \/ request[r].first) /\ ~request[r].clash
         /\ ask.initial => \A e \in request[r].mine \ {d} : e \in Docs => ~new[e].initial

(* An update writes one document, with its version or not. *)
Change(r) ==
  \E new \in [Docs -> DocStates] : \E d \in Docs :
    LET ask == request[r].ask IN
    /\ Put(r, new, new[d].value)
    /\ ask.call = "update" /\ ask.docs = {d}
    /\ doc[d].state \in {"live", "deleted"} /\ new[d].state = doc[d].state
    /\ ask.value # NoValue => ~Refused(d, ask.value)
    /\ new[d].value = IF ask.value # NoValue THEN ask.value ELSE doc[d].value
    /\ new[d].raced = doc[d].raced /\ new[d].restored = doc[d].restored
    /\ \A e \in Docs \ {d} : Alike(doc[e], new[e])
    /\ new[d].initial /\ ~doc[d].initial =>
         /\ request[r].pc = "commit" /\ ask.initial /\ ~request[r].clash
         /\ \A e \in request[r].mine \ {d} : e \in Docs => ~new[e].initial
    /\ CASE request[r].pc = "write" ->
              /\ rows' = rows
              /\ new[d].version = IF service.history = "after" THEN request[r].version + 1
                                  ELSE doc[d].version
         [] OTHER ->
              /\ rows' = [rows EXCEPT ![d] = Append(@, request[r].version)]
              /\ new[d].version = request[r].version + 1
              /\ request[r].pc = "commit"

LEMMA InsertCreates ==
  ASSUME TypeInv, NEW r \in Requests, Insert(r)
  PROVE  Creation(r) \/ Refuses(r)
<1> DEFINE ask == request[r].ask
<1>1. ask.value \in Values /\ ask.call = "create"
  BY DEF Insert, TypeInv, Proper, Carries, AtRest, Ended
<1>2. SUFFICES ASSUME NEW d \in Docs, doc[d].state = "none", ~Refused(d, ask.value),
                      Put(r, [doc EXCEPT ![d] = Created(d, ask, FALSE)], ask.value), rows' = rows
               PROVE  Creation(r)
  BY DEF Insert, Refuses
<1> DEFINE new == [doc EXCEPT ![d] = Created(d, ask, FALSE)]
<1>3. Created(d, ask, FALSE) \in DocStates
  BY <1>1 DEF Created, DocStates
<1>4. new \in [Docs -> DocStates] /\ new[d] = Created(d, ask, FALSE)
      /\ \A e \in Docs \ {d} : new[e] = doc[e]
  BY <1>3 DEF TypeInv, Types
<1>5. \A e \in Docs \ {d} : Alike(doc[e], new[e])
  BY <1>4, DocTypes DEF TypeInv, Alike
<1> HIDE DEF new
<1> QED
  BY <1>1, <1>2, <1>4, <1>5 DEF Creation, new

LEMMA UpdateChanges ==
  ASSUME TypeInv, NEW r \in Requests, Update(r)
  PROVE  Change(r) \/ Kept(r) \/ Refuses(r)
<1> DEFINE ask == request[r].ask
<1>1. PICK d \in Docs : ask.docs = {d} /\ ask.call = "update" /\ request[r].pc = "write"
  BY DEF Update, TypeInv, Proper, Carries, Edits, AtRest, Ended
<1>2. ask \in Asks /\ request[r].version \in Nat
  BY DEF TypeInv, Types, RequestStates
<1> DEFINE versioned == IF service.history = "after"
                        THEN [Applied(d, ask) EXCEPT !.version = request[r].version + 1]
                        ELSE Applied(d, ask)
           new == [doc EXCEPT ![d] = versioned]
<1>3. /\ versioned \in DocStates
      /\ versioned.state = doc[d].state /\ versioned.initial = doc[d].initial
      /\ versioned.raced = doc[d].raced /\ versioned.restored = doc[d].restored
      /\ versioned.value = IF ask.value # NoValue THEN ask.value ELSE doc[d].value
      /\ versioned.version = IF service.history = "after" THEN request[r].version + 1
                             ELSE doc[d].version
  BY <1>2, AppliedTypes DEF DocStates
<1>4. \/ Refuses(r)
      \/ Put(r, doc, doc[d].value) /\ rows' = rows
      \/ /\ Found("plain", {d}) # {} /\ ~Refused(d, versioned.value)
         /\ Put(r, new, versioned.value) /\ rows' = rows
  BY <1>1 DEF Update, Refuses
<1> HIDE DEF versioned
<1>5. CASE Put(r, doc, doc[d].value) /\ rows' = rows
  <2>1. doc \in [Docs -> DocStates] /\ \A e \in Docs : Keeps(doc[e], doc[e])
    BY DocTypes DEF TypeInv, Types
  <2>2. ClearedBy(ask.call, doc[d].value) \subseteq Keys
    BY <2>1, ClearTypes DEF TypeInv, DocStates
  <2> QED
    BY <1>5, <2>1, <2>2 DEF Kept
<1>6. CASE /\ Found("plain", {d}) # {} /\ ~Refused(d, versioned.value)
           /\ Put(r, new, versioned.value) /\ rows' = rows
  <2>1. doc[d].state \in {"live", "deleted"}
    BY <1>6, SomeFound DEF TypeInv
  <2>2. new \in [Docs -> DocStates] /\ new[d] = versioned
        /\ \A e \in Docs \ {d} : new[e] = doc[e]
    BY <1>3 DEF TypeInv, Types
  <2>3. \A e \in Docs \ {d} : Alike(doc[e], new[e])
    BY <2>2, DocTypes DEF TypeInv, Alike
  <2> HIDE DEF new
  <2> QED
    BY <1>1, <1>3, <1>6, <2>1, <2>2, <2>3 DEF Change
<1> QED
  BY <1>4, <1>5, <1>6

LEMMA CommitChanges ==
  ASSUME TypeInv, NEW r \in Requests, Commit(r)
  PROVE  Creation(r) \/ Change(r) \/ Refuses(r)
<1> DEFINE ask == request[r].ask
           others == Demoted(request[r].mine \ ask.docs)
           initial == ask.initial \/ request[r].first
           updated(d) == [Applied(d, ask) EXCEPT !.initial = @ \/ ask.initial,
                                                 !.version = request[r].version + 1]
<1>1. /\ request[r].pc = "commit" /\ ask.call \in {"create", "update"} /\ ask \in Asks
      /\ ask.call = "create" => ask.value \in Values
      /\ ask.call = "update" => \E d \in Docs : ask.docs = {d}
      /\ request[r].version \in Nat /\ initial \in BOOLEAN /\ request[r].mine \subseteq Docs
  BY DEF Commit, TypeInv, Proper, Carries, Belongs, Edits, AtRest, Ended, Types, RequestStates, Asks
<1>2. /\ others \in [Docs -> DocStates]
      /\ \A e \in Docs : /\ Alike(doc[e], others[e])
                         /\ e \in request[r].mine \ ask.docs => ~others[e].initial
  <2>1. \A d \in Docs : LET q == [doc[d] EXCEPT !.initial = FALSE] IN
          q \in DocStates /\ Alike(doc[d], q) /\ ~q.initial
    BY DocTypes DEF TypeInv, Types, DocStates, Alike
  <2>2. \A d \in Docs : Alike(doc[d], doc[d]) /\ doc[d] \in DocStates
    BY DocTypes DEF TypeInv, Types, Alike
  <2> QED
    BY <2>1, <2>2 DEF Demoted
<1>3. \/ Refuses(r)
      \/ /\ ask.call = "create" /\ ~request[r].clash
         /\ \E d \in Docs : /\ doc[d].state = "none" /\ ~Refused(d, ask.value) /\ rows' = rows
                            /\ Put(r, [others EXCEPT ![d] = Created(d, ask, initial)], ask.value)
      \/ /\ ask.call = "update" /\ ~request[r].clash
         /\ \E d \in ask.docs :
              /\ ~Refused(d, ask.value) /\ Found("plain", {d}) # {}
              /\ Put(r, [others EXCEPT ![d] = updated(d)], updated(d).value)
              /\ rows' = [rows EXCEPT ![d] = Append(@, request[r].version)]
  BY <1>1 DEF Commit, Refuses
<1> HIDE DEF others, initial
<1>4. ASSUME NEW d \in Docs, doc[d].state = "none", ~Refused(d, ask.value), rows' = rows,
             ask.call = "create", ~request[r].clash,
             Put(r, [others EXCEPT ![d] = Created(d, ask, initial)], ask.value)
      PROVE  Creation(r)
  <2> DEFINE new == [others EXCEPT ![d] = Created(d, ask, initial)]
  <2>1. Created(d, ask, initial) \in DocStates
    BY <1>1, <1>4 DEF Created, DocStates
  <2>2. /\ new \in [Docs -> DocStates] /\ new[d] = Created(d, ask, initial)
        /\ \A e \in Docs \ {d} : new[e] = others[e]
    BY <1>2, <2>1
  <2>3. ask.docs = {}
    BY <1>1, <1>4 DEF TypeInv, Proper, Carries, AtRest, Ended
  <2>4. \A e \in Docs \ {d} : /\ Alike(doc[e], new[e])
                              /\ e \in request[r].mine => ~new[e].initial
    BY <1>2, <2>2, <2>3
  <2>5. initial => ask.initial \/ request[r].first
    BY DEF initial
  <2> HIDE DEF new
  <2> QED
    BY <1>1, <1>4, <2>2, <2>4, <2>5 DEF Creation, new
<1>5. ASSUME NEW d \in Docs, ask.docs = {d}, ~Refused(d, ask.value), Found("plain", {d}) # {},
             ask.call = "update", ~request[r].clash,
             Put(r, [others EXCEPT ![d] = updated(d)], updated(d).value),
             rows' = [rows EXCEPT ![d] = Append(@, request[r].version)]
      PROVE  Change(r)
  <2> DEFINE new == [others EXCEPT ![d] = updated(d)]
  <2>1. /\ updated(d) \in DocStates
        /\ updated(d).state = doc[d].state
        /\ updated(d).initial = (doc[d].initial \/ ask.initial)
        /\ updated(d).raced = doc[d].raced /\ updated(d).restored = doc[d].restored
        /\ updated(d).value = IF ask.value # NoValue THEN ask.value ELSE doc[d].value
        /\ updated(d).version = request[r].version + 1
    <3>1. updated(d) = [Applied(d, ask) EXCEPT !.initial = Applied(d, ask).initial \/ ask.initial,
                                               !.version = request[r].version + 1]
      OBVIOUS
    <3>2. /\ Applied(d, ask) \in DocStates
          /\ (Applied(d, ask).initial \/ ask.initial) \in BOOLEAN
          /\ request[r].version + 1 \in Nat
      BY <1>1, AppliedTypes
    <3> HIDE DEF updated
    <3> DEFINE q == Applied(d, ask)
               b == q.initial \/ ask.initial
               v == request[r].version + 1
    <3>3. q \in DocStates /\ b \in BOOLEAN /\ v \in Nat
          /\ updated(d) = [q EXCEPT !.initial = b, !.version = v]
      BY <3>1, <3>2
    <3>4. b = (doc[d].initial \/ ask.initial)
      BY <1>1, AppliedTypes
    <3>5. /\ q.state = doc[d].state /\ q.raced = doc[d].raced /\ q.restored = doc[d].restored
          /\ q.value = IF ask.value # NoValue THEN ask.value ELSE doc[d].value
      BY <1>1, AppliedTypes
    <3> HIDE DEF q, b, v
    <3>6. /\ updated(d) \in DocStates /\ updated(d).state = q.state /\ updated(d).initial = b
          /\ updated(d).raced = q.raced /\ updated(d).restored = q.restored
          /\ updated(d).value = q.value /\ updated(d).version = v
      BY <3>3 DEF DocStates
    <3> QED
      BY <3>4, <3>5, <3>6 DEF v
  <2> HIDE DEF updated
  <2>2. /\ new \in [Docs -> DocStates] /\ new[d] = updated(d)
        /\ \A e \in Docs \ {d} : new[e] = others[e]
    BY <1>2, <2>1
  <2>3. doc[d].state \in {"live", "deleted"}
    BY <1>5, SomeFound DEF TypeInv
  <2>4. \A e \in Docs \ {d} : /\ Alike(doc[e], new[e])
                              /\ e \in request[r].mine => ~new[e].initial
    BY <1>2, <1>5, <2>2
  <2> HIDE DEF new
  <2> QED
    BY <1>1, <1>5, <2>1, <2>2, <2>3, <2>4 DEF Change, new
<1> QED
  BY <1>1, <1>3, <1>4, <1>5

-----------------------------------------------------------------------------
(* Every step *)

Writing(r) == Kept(r) \/ Creation(r) \/ Change(r)

LEMMA WritingTypes ==
  ASSUME TypeInv, NEW r \in Requests, Writing(r), request[r].pc \in {"load", "write", "commit"}
  PROVE  /\ kind' = kind /\ cached' = cached
         /\ Types' /\ Others(r) /\ Own(r) /\ request'[r].pc \in {"done", "clear"}
<1>1. ~AtRest(r) /\ Carries(request[r].ask) /\ request[r].ask.call # "read"
      /\ request[r].version \in Nat /\ request[r].ask.call \in CallNames
  BY DEF TypeInv, Types, Proper, Belongs, AtRest, Ended, RequestStates, Asks
<1>2. PICK new \in [Docs -> DocStates] : \E v :
        Put(r, new, v) /\ ClearedBy(request[r].ask.call, v) \subseteq Keys
  <2>1. CASE Kept(r)
    BY <2>1 DEF Kept
  <2>2. CASE Creation(r)
    <3>1. PICK new \in [Docs -> DocStates] : Put(r, new, request[r].ask.value)
                                             /\ request[r].ask.call = "create"
      BY <2>2 DEF Creation
    <3>2. ClearedBy(request[r].ask.call, request[r].ask.value) \subseteq Keys
      BY <1>1, <3>1, ClearTypes DEF Carries, TypeInv
    <3> QED
      BY <3>1, <3>2
  <2>3. CASE Change(r)
    <3>1. PICK new \in [Docs -> DocStates], d \in Docs : Put(r, new, new[d].value)
      BY <2>3 DEF Change
    <3>2. new[d].value \in Values
      BY DEF DocStates
    <3>3. ClearedBy(request[r].ask.call, new[d].value) \subseteq Keys
      BY <3>2, ClearTypes DEF TypeInv
    <3> QED
      BY <3>1, <3>3
  <2> QED
    BY <2>1, <2>2, <2>3 DEF Writing
<1>3. /\ kind' = kind /\ cached' = cached
      /\ doc' \in [Docs -> DocStates] /\ suspect' \subseteq Keys
      /\ request' \in [Requests -> RequestStates]
      /\ Others(r) /\ Own(r) /\ request'[r].pc \in {"done", "clear"}
  BY <1>1, <1>2, PutTypes DEF TypeInv
<1>4. rows' \in [Docs -> Seq(Nat)]
  <2>1. rows' = rows \/ \E d \in Docs : rows' = [rows EXCEPT ![d] = Append(@, request[r].version)]
    BY DEF Writing, Kept, Creation, Change
  <2>2. \A d \in Docs : Append(rows[d], request[r].version) \in Seq(Nat)
    BY <1>1 DEF TypeInv, Types
  <2> QED
    BY <2>1, <2>2 DEF TypeInv, Types
<1> QED
  BY <1>3, <1>4 DEF TypeInv, Types

(* The steps that write nothing. *)
Quietly == UNCHANGED <<kind, doc, cached, suspect>>
Waits(r) == Find(r) \/ Check(r) \/ Record(r) \/ Begin(r) \/ Get(r) \/ Fetch(r)

LEMMA PrepareTypes ==
  ASSUME Types, NEW call \in {"create", "update"}, NEW checked \in BOOLEAN, NEW value,
         NEW q \in RequestStates, q.pc = Prepare(call, checked, value), q.ask.call = call,
         q.clears = {}
  PROVE  q.pc \in {"check", "begin", "record", "write"} /\ Belongs(q)
<1>1. q.pc \in {"check", "begin", "record", "write"}
  BY DEF Prepare
<1>2. q.pc = "record" => call = "update" /\ service.history = "after"
  BY DEF Prepare
<1>3. q.pc = "begin" => Elects
  BY DEF Prepare
<1> QED
  BY <1>1, <1>2, <1>3 DEF Belongs

LEMMA FindTypes ==
  ASSUME TypeInv, NEW r \in Requests, Find(r)
  PROVE  request' \in [Requests -> RequestStates] /\ Others(r) /\ Own(r)
<1> DEFINE ask == request[r].ask
           found == Found(How(ask.call), ask.docs)
<1>1. /\ request[r].pc = "find" /\ ask \in Asks /\ request[r] \in RequestStates
      /\ request[r].clears = {} /\ Carries(ask) /\ Belongs(request[r]) /\ kind' = kind
  BY DEF Find, TypeInv, Proper, Belongs, AtRest, Ended, Types, RequestStates
<1>2. CASE Finish(r, "rejected")
  BY <1>1, <1>2, FinishTypes DEF TypeInv, Ended
<1>3. CASE ~(found = {} /\ ask.call \in Edits)
  <2> DEFINE version == IF ask.call = "update" /\ service.history # "none"
                        THEN doc[CHOOSE d \in found : TRUE].version ELSE 0
             pc == CASE ask.call = "update" -> Prepare("update", FALSE, ask.value)
                     [] ask.call = "delete" /\ store.erase = "save" -> "load"
                     [] OTHER -> "write"
             q == [request[r] EXCEPT !.found = found, !.version = version, !.pc = pc]
  <2>1. Become(r, q)
    BY <1>3 DEF Find
  <2>2. found \in SUBSET Docs
    BY <1>1 DEF Found, Asks
  <2>3. version \in Nat
    <3>1. CASE ask.call = "update"
      <4>1. found # {}
        BY <1>3, <3>1 DEF Edits
      <4> QED
        BY <2>2, <4>1 DEF TypeInv, Types, DocStates
    <3> QED
      BY <3>1
  <2>4. pc \in {"check", "begin", "record", "write", "load"}
    BY DEF Prepare
  <2> HIDE DEF found, version, pc
  <2>5. q \in RequestStates /\ q.pc = pc /\ q.ask = ask /\ q.clears = {}
    BY <1>1, <2>2, <2>3, <2>4 DEF RequestStates
  <2> HIDE DEF q
  <2>6. Belongs(q)
    <3>1. CASE ask.call = "update"
      BY <2>5, <3>1, PrepareTypes DEF pc, TypeInv
    <3>2. CASE ask.call = "delete" /\ store.erase = "save"
      BY <2>5, <3>2 DEF pc, Belongs
    <3>3. CASE ask.call # "update" /\ ~(ask.call = "delete" /\ store.erase = "save")
      BY <1>1, <2>5, <3>3 DEF pc, Belongs
    <3> QED
      BY <3>1, <3>2, <3>3
  <2> QED
    BY <1>1, <2>1, <2>5, <2>6, BecomeTypes DEF Own, AtRest, TypeInv
<1> QED
  BY <1>2, <1>3 DEF Find

LEMMA WaitsTypes ==
  ASSUME TypeInv, NEW r \in Requests, Waits(r)
  PROVE  /\ Types' /\ Others(r) /\ Own(r)
         /\ Quietly
<1> DEFINE ask == request[r].ask
<1>1. Quietly
  BY DEF Waits, Find, Check, Record, Begin, Get, Fetch, Quietly
<1>2. /\ ask \in Asks /\ request[r] \in RequestStates /\ request[r].version \in Nat
      /\ request[r].clears = {} /\ Carries(ask) /\ Belongs(request[r]) /\ ask.docs \subseteq Docs
      /\ request[r].found \subseteq Docs
  BY DEF Waits, Find, Check, Record, Begin, Get, Fetch, TypeInv, Proper, Belongs, AtRest, Ended,
         Types, RequestStates, Asks
<1>3. rows' \in [Docs -> Seq(Nat)]
  <2>1. rows' = rows \/ \E d \in Docs : rows' = [rows EXCEPT ![d] = Append(@, request[r].version)]
    BY <1>2 DEF Waits, Find, Check, Record, Begin, Get, Fetch
  <2>2. \A d \in Docs : Append(rows[d], request[r].version) \in Seq(Nat)
    BY <1>2 DEF TypeInv, Types
  <2> QED
    BY <2>1, <2>2 DEF TypeInv, Types
<1> SUFFICES request' \in [Requests -> RequestStates] /\ Others(r) /\ Own(r)
  BY <1>1, <1>3 DEF TypeInv, Types, Quietly
<1>4. ASSUME NEW pc \in Pcs \ {"clear"}, Goto(r, pc),
             \A q \in RequestStates : q.pc = pc /\ q.ask = ask /\ q.clears = {} => Belongs(q)
      PROVE  request' \in [Requests -> RequestStates] /\ Others(r) /\ Own(r)
  <2> DEFINE q == [request[r] EXCEPT !.pc = pc]
  <2>1. q \in RequestStates /\ q.pc = pc /\ q.ask = ask /\ q.clears = {}
    BY <1>2, GotoTypes
  <2>2. Become(r, q)
    BY <1>4 DEF Goto
  <2> HIDE DEF q
  <2> QED
    BY <1>2, <1>4, <2>1, <2>2, BecomeTypes DEF Own, TypeInv
<1>5. ASSUME NEW pc \in Ended, Finish(r, pc)
      PROVE  request' \in [Requests -> RequestStates] /\ Others(r) /\ Own(r)
  BY <1>1, <1>5, FinishTypes DEF TypeInv, Quietly
<1>6. CASE Check(r)
  <2>1. request[r].pc = "check" /\ ask.call \in {"create", "update"}
    BY <1>2, <1>6 DEF Check, Belongs
  <2> DEFINE pc == Prepare(ask.call, TRUE, ask.value)
  <2>2. pc \in Pcs \ {"clear"}
    BY DEF Prepare, Pcs
  <2>3. \A q \in RequestStates : q.pc = pc /\ q.ask = ask /\ q.clears = {} => Belongs(q)
    <3> SUFFICES ASSUME NEW q \in RequestStates, q.pc = pc, q.ask = ask, q.clears = {}
                 PROVE  Belongs(q)
      OBVIOUS
    <3>1. q.ask.call = ask.call /\ q.pc = Prepare(ask.call, TRUE, ask.value)
      OBVIOUS
    <3>2. Types
      BY DEF TypeInv
    <3> QED
      BY <2>1, <3>1, <3>2, PrepareTypes
  <2>4. Finish(r, "rejected") \/ Goto(r, pc)
    BY <1>6 DEF Check
  <2> HIDE DEF pc
  <2> QED
    BY <1>4, <1>5, <2>2, <2>3, <2>4 DEF Ended
<1>7. CASE Record(r)
  <2>1. "write" \in Pcs \ {"clear"} /\ Goto(r, "write") /\ request[r].pc = "record"
    BY <1>7 DEF Record, Pcs
  <2>2. ask.call = "update"
    BY <1>2, <2>1 DEF Belongs
  <2>3. \A q \in RequestStates : q.pc = "write" /\ q.ask = ask /\ q.clears = {} => Belongs(q)
    BY <2>2 DEF Belongs
  <2> QED
    BY <1>4, <2>1, <2>3
<1>8. CASE Begin(r)
  <2> DEFINE mine == ask.docs \cup (IF ask.initial
                       THEN {d \in Docs : doc[d].initial /\ doc[d].state \in {"live", "deleted"}}
                       ELSE {})
             first == ask.call = "create" /\ ~ask.initial /\ \A d \in Docs : ~Live(d)
             q == [request[r] EXCEPT !.pc = "commit", !.clash = FALSE, !.mine = mine,
                                     !.first = first]
  <2>1. Become(r, q) /\ request[r].pc = "begin"
    BY <1>8 DEF Begin
  <2>2. mine \in SUBSET Docs /\ first \in BOOLEAN
    BY <1>2
  <2> HIDE DEF mine, first
  <2>3. q \in RequestStates /\ q.pc = "commit" /\ q.ask = ask /\ q.clears = {}
    BY <1>2, <2>2 DEF RequestStates
  <2> HIDE DEF q
  <2>4. Belongs(q)
    BY <1>2, <2>1, <2>3 DEF Belongs
  <2> QED
    BY <1>2, <2>1, <2>3, <2>4, BecomeTypes DEF Own, TypeInv
<1>9. CASE Get(r)
  <2>1. "fetch" \in Pcs \ {"clear"} /\ (Finish(r, "done") \/ Goto(r, "fetch"))
        /\ request[r].pc = "get"
    BY <1>9 DEF Get, Pcs
  <2>2. \A q \in RequestStates : q.pc = "fetch" /\ q.ask = ask /\ q.clears = {} => Belongs(q)
    BY <1>2, <2>1 DEF Belongs
  <2> QED
    BY <1>4, <1>5, <2>1, <2>2 DEF Ended
<1>10. CASE Fetch(r)
  <2>1. PICK answer \in Answers(ask.key) :
          \/ Finish(r, "rejected")
          \/ Become(r, [request[r] EXCEPT !.pc = "store", !.answer = answer])
    BY <1>10 DEF Fetch
  <2>2. answer \in SUBSET Copies
    <3>1. \A d \in Docs : Copy(d) \in Copies
      BY DEF Copy, Copies, TypeInv, Types, DocStates
    <3>2. PICK matching \in SUBSET Docs :
            Answers(ask.key) = IF ask.key[1] = "total" \/ matching = {}
                               THEN {{Copy(d) : d \in matching}} ELSE {{Copy(d)} : d \in matching}
      BY DEF Answers
    <3> QED
      BY <3>1, <3>2
  <2> DEFINE q == [request[r] EXCEPT !.pc = "store", !.answer = answer]
  <2>3. q \in RequestStates /\ q.pc = "store" /\ q.ask = ask /\ q.clears = {}
    BY <1>2, <2>2 DEF RequestStates
  <2> HIDE DEF q
  <2>4. Belongs(q)
    BY <1>2, <1>10, <2>3 DEF Belongs, Fetch
  <2> QED
    BY <1>2, <1>5, <2>1, <2>3, <2>4, BecomeTypes DEF Own, TypeInv, Ended, q
<1> QED
  BY <1>6, <1>7, <1>8, <1>9, <1>10, FindTypes DEF Waits

Loads(r) ==
  /\ Become(r, [request[r] EXCEPT !.pc = "write", !.found = Found("plain", request[r].ask.docs)])
  /\ request[r].pc = "load"
  /\ UNCHANGED <<kind, doc, rows, cached, suspect>>

LEMMA StepCases ==
  ASSUME TypeInv, NEW r \in Requests, Step(r)
  PROVE  /\ ~AtRest(r)
         /\ \/ Writing(r) /\ request[r].pc \in {"load", "write", "commit"}
            \/ Refuses(r) \/ Waits(r) \/ Loads(r) \/ Clear(r) \/ Store(r)
<1>1. ~AtRest(r)
  BY DEF Step, AtRest, Ended, Find, Check, Insert, Record, Update, Load, Delete, Purge, Restore,
         WriteMany, Begin, Commit, Clear, Get, Fetch, Store
<1>2. CASE Insert(r) \/ Update(r) \/ Delete(r) \/ Purge(r) \/ Restore(r) \/ WriteMany(r)
  <2>1. request[r].pc = "write"
    BY <1>2 DEF Insert, Update, Delete, Purge, Restore, WriteMany
  <2> QED
    BY <1>1, <1>2, <2>1, InsertCreates, UpdateChanges, DeleteKeeps, PurgeKeeps, RestoreKeeps,
       WriteManyKeeps DEF Writing
<1>3. CASE Load(r)
  <2>1. request[r].pc = "load"
    BY <1>3 DEF Load
  <2> QED
    BY <1>1, <1>3, <2>1, LoadKeeps DEF Writing, Loads
<1>4. CASE Commit(r)
  <2>1. request[r].pc = "commit"
    BY <1>4 DEF Commit
  <2> QED
    BY <1>1, <1>4, <2>1, CommitChanges DEF Writing
<1> QED
  BY <1>1, <1>2, <1>3, <1>4 DEF Step, Waits

LEMMA StepTypes ==
  ASSUME TypeInv, NEW r \in Requests, Step(r)
  PROVE  Types' /\ Others(r) /\ Own(r) /\ OneAnswer' /\ kind' = kind
<1>1. ~AtRest(r)
  BY StepCases
<1>2. /\ request[r] \in RequestStates /\ request[r].ask \in Asks /\ request[r].clears \subseteq Keys
      /\ Carries(request[r].ask) /\ Belongs(request[r]) /\ request[r].ask.docs \subseteq Docs
      /\ request[r].ask.key \in Keys /\ request[r].answer \subseteq Copies
  BY <1>1 DEF TypeInv, Types, Proper, RequestStates, Asks
<1>3. CASE Writing(r) /\ request[r].pc \in {"load", "write", "commit"}
  <2>1. Types' /\ Others(r) /\ Own(r) /\ kind' = kind /\ cached' = cached
    BY <1>3, WritingTypes
  <2>2. OneAnswer'
    BY <2>1 DEF TypeInv, OneAnswer, Keys, Copies
  <2> QED
    BY <2>1, <2>2
<1>4. CASE Refuses(r)
  <2>1. request' \in [Requests -> RequestStates] /\ Others(r) /\ Own(r)
    BY <1>4, FinishTypes DEF Refuses, TypeInv, Ended
  <2> QED
    BY <1>4, <2>1 DEF Refuses, TypeInv, Types, OneAnswer, Keys, Copies
<1>5. CASE Waits(r)
  BY <1>5, WaitsTypes DEF TypeInv, Types, OneAnswer, Keys, Copies, Quietly
<1>6. CASE Loads(r)
  <2> DEFINE found == Found("plain", request[r].ask.docs)
             q == [request[r] EXCEPT !.pc = "write", !.found = found]
  <2>1. found \in SUBSET Docs
    BY <1>2 DEF Found
  <2> HIDE DEF found
  <2>2. q \in RequestStates /\ q.pc = "write" /\ q.ask = request[r].ask
        /\ q.clears = request[r].clears
    BY <1>2, <2>1 DEF RequestStates
  <2>3. Become(r, q) /\ request[r].pc = "load"
    BY <1>6 DEF Loads, found
  <2> HIDE DEF q
  <2>4. Belongs(q)
    BY <1>2, <2>2, <2>3 DEF Belongs
  <2>5. request' \in [Requests -> RequestStates] /\ Others(r) /\ Own(r)
    BY <1>2, <2>2, <2>3, <2>4, BecomeTypes DEF Own, TypeInv, AtRest, Ended
  <2> QED
    BY <1>6, <2>5 DEF Loads, TypeInv, Types, OneAnswer, Keys, Copies
<1>7. CASE Clear(r) \/ Store(r)
  <2>1. /\ Finish(r, "done")
        /\ UNCHANGED <<kind, doc, rows>>
        /\ suspect' \subseteq Keys
    BY <1>2, <1>7 DEF Clear, Store, TypeInv, Types
  <2>2. request' \in [Requests -> RequestStates] /\ Others(r) /\ Own(r)
    BY <2>1, FinishTypes DEF TypeInv, Ended
  <2>3. \/ cached' = [k \in Keys |-> IF k \in request[r].clears THEN {} ELSE cached[k]]
        \/ cached' = [cached EXCEPT ![request[r].ask.key] = {request[r].answer}]
    BY <1>7 DEF Clear, Store
  <2>4. cached' \in [Keys -> SUBSET SUBSET Copies]
    <3>1. CASE cached' = [k \in Keys |-> IF k \in request[r].clears THEN {} ELSE cached[k]]
      BY <3>1 DEF TypeInv, Types
    <3>2. CASE cached' = [cached EXCEPT ![request[r].ask.key] = {request[r].answer}]
      BY <1>2, <3>2 DEF TypeInv, Types
    <3> QED
      BY <2>3, <3>1, <3>2
  <2>5. \A k \in Keys : cached'[k] = cached[k] \/ cached'[k] = {}
                        \/ cached'[k] = {request[r].answer}
    BY <1>2, <2>3 DEF TypeInv, Types
  <2>6. OneAnswer'
    <3> SUFFICES ASSUME NEW k \in Keys
                 PROVE  cached'[k] = {} \/ \E a \in SUBSET Copies : cached'[k] = {a}
      BY <2>1 DEF OneAnswer, Keys, Copies
    <3> QED
      BY <1>2, <2>5 DEF TypeInv, OneAnswer
  <2> QED
    BY <2>1, <2>2, <2>4, <2>6 DEF TypeInv, Types
<1> QED
  BY <1>3, <1>4, <1>5, <1>6, <1>7, StepCases

LEMMA EntryTypes ==
  ASSUME TypeInv, NEW q \in RequestStates, Carries(q.ask), q.pc = Entry(q.ask), q.clears = {}
  PROVE  q.pc \in Pcs \ {"idle", "done", "rejected"} /\ Belongs(q)
<1> DEFINE ask == q.ask
<1>1. /\ service.looks \subseteq Writes /\ ask.call \in CallNames
      /\ service.looks \cap {"create", "restore", "restoreMany"} = {}
      /\ service.history # "none" => "update" \in service.looks
  BY KindTypes, KindsAssumption DEF TypeInv, Types, Services, service, RequestStates, Asks
<1>2. CASE ask.call = "read"
  BY <1>1, <1>2 DEF Entry, Belongs, Pcs, Writes, Edits, Bulk
<1>3. CASE ask.call # "read" /\ (ask.call \in service.looks
                                 \/ (ask.call = "purge" /\ service.purge # "none"))
  BY <1>1, <1>3 DEF Entry, Belongs, Pcs
<1>4. CASE ask.call = "create" /\ ask.call \notin service.looks
  <2>1. q.pc = Prepare("create", FALSE, ask.value)
    BY <1>4 DEF Entry
  <2>2. FALSE \in BOOLEAN /\ Types
    BY DEF TypeInv
  <2> QED
    BY <1>4, <2>1, <2>2, PrepareTypes DEF Pcs
<1>5. CASE /\ ask.call \notin service.looks \cup {"create", "read"}
           /\ ~(ask.call = "purge" /\ service.purge # "none")
  BY <1>1, <1>5 DEF Entry, Belongs, Pcs
<1> QED
  BY <1>1, <1>2, <1>3, <1>4, <1>5

LEMMA ArriveTypes ==
  ASSUME TypeInv, NEW r \in Requests, NEW ask \in Asks, Carries(ask), Arrive(r, ask)
  PROVE  /\ request' \in [Requests -> RequestStates] /\ Own(r) /\ ~AtRest(r)'
         /\ request'[r].alone <=> UnderWay = {}
         /\ request'[r].pc = Entry(ask) /\ request'[r].ask = ask /\ request'[r].found = ask.docs
         /\ request'[r].answer = {} /\ request'[r].version = 0
         /\ \A s \in Requests \ {r} :
              /\ AtRest(s) => request'[s] = request[s]
              /\ ~AtRest(s) => request'[s] = [request[s] EXCEPT !.alone = FALSE]
<1> DEFINE b == UnderWay = {}
           q == [Fresh EXCEPT !.pc = Entry(ask), !.ask = ask, !.found = ask.docs, !.alone = b]
<1>1. Entry(ask) \in Pcs
  BY DEF Entry, Prepare, Pcs
<1>2. b \in BOOLEAN /\ ask.docs \in SUBSET Docs
  BY DEF Asks
<1> HIDE DEF b
<1>3. /\ q \in RequestStates /\ q.pc = Entry(ask) /\ q.ask = ask /\ q.found = ask.docs
      /\ q.alone = b /\ q.clears = {} /\ q.answer = {} /\ q.version = 0
  <2>1. /\ Fresh \in RequestStates /\ Fresh.clears = {} /\ Fresh.answer = {} /\ Fresh.version = 0
    BY FreshTypes DEF Fresh
  <2> QED
    BY <1>1, <1>2, <2>1 DEF RequestStates, Pcs, Ended
<1> HIDE DEF q
<1>4. /\ request'[r] = q
      /\ \A s \in Requests \ {r} : request'[s] =
           IF s \in UnderWay THEN [request[s] EXCEPT !.alone = FALSE] ELSE request[s]
      /\ request' = [s \in Requests |-> request'[s]]
  <2>1. request' = [s \in Requests |-> IF s = r THEN q ELSE IF s \in UnderWay
                                       THEN [request[s] EXCEPT !.alone = FALSE] ELSE request[s]]
    BY DEF Arrive, q, b
  <2> QED
    BY <2>1
<1>5. \A s \in Requests \ {r} :
        /\ AtRest(s) => request'[s] = request[s]
        /\ ~AtRest(s) => request'[s] = [request[s] EXCEPT !.alone = FALSE]
  <2>1. \A s \in Requests : s \in UnderWay <=> ~AtRest(s)
    BY DEF UnderWay
  <2> QED
    BY <1>4, <2>1
<1>6. \A s \in Requests \ {r} : [request[s] EXCEPT !.alone = FALSE] \in RequestStates
                               /\ request[s] \in RequestStates
  <2>1. \A s \in Requests : request[s] \in RequestStates
    BY DEF TypeInv, Types
  <2>2. \A p \in RequestStates : [p EXCEPT !.alone = FALSE] \in RequestStates
    BY DEF RequestStates
  <2> QED
    BY <2>1, <2>2
<1>7. request' \in [Requests -> RequestStates]
  BY <1>3, <1>4, <1>5, <1>6
<1>8. q.pc \in Pcs \ {"idle", "done", "rejected"} /\ Belongs(q)
  BY <1>3, EntryTypes
<1>9. Own(r) /\ ~AtRest(r)'
  BY <1>3, <1>4, <1>8 DEF Own, AtRest, Ended
<1> QED
  BY <1>3, <1>4, <1>5, <1>7, <1>9 DEF b

LEMMA NextTypes == TypeInv /\ [Next]_vars => TypeInv'
<1> SUFFICES ASSUME TypeInv, [Next]_vars PROVE TypeInv'
  OBVIOUS
<1>1. ASSUME NEW r \in Requests, Step(r)
      PROVE  TypeInv'
  <2>1. Types' /\ Others(r) /\ Own(r) /\ OneAnswer' /\ kind' = kind
    BY <1>1, StepTypes
  <2>2. Proper' /\ RestsClear'
    BY <2>1 DEF TypeInv, Proper, RestsClear, Own, Others, Same, AtRest, Carries, Belongs,
                service, store, Elects
  <2> QED
    BY <2>1, <2>2 DEF TypeInv
<1>2. ASSUME NEW r \in Requests, Calls(r)
      PROVE  TypeInv'
  <2>1. PICK ask \in Asks : Carries(ask) /\ Arrive(r, ask)
    BY <1>2, CallsCarry DEF TypeInv
  <2>2. UNCHANGED <<kind, doc, rows, cached, suspect>>
    BY <2>1 DEF Arrive
  <2>3. /\ request' \in [Requests -> RequestStates] /\ Own(r)
        /\ \A s \in Requests \ {r} :
             /\ AtRest(s) => request'[s] = request[s]
             /\ ~AtRest(s) => request'[s] = [request[s] EXCEPT !.alone = FALSE]
    BY <2>1, ArriveTypes
  <2>4. \A s \in Requests \ {r} : request'[s].pc = request[s].pc /\ request'[s].ask = request[s].ask
                                  /\ request'[s].clears = request[s].clears
    BY <2>3 DEF TypeInv, Types, RequestStates
  <2>5. Proper' /\ RestsClear'
    BY <2>2, <2>3, <2>4 DEF TypeInv, Proper, RestsClear, Own, AtRest, Carries, Belongs,
                service, store, Elects
  <2> QED
    BY <2>2, <2>3, <2>5 DEF TypeInv, Types, OneAnswer, Keys, Copies
<1>3. CASE UNCHANGED vars
  BY <1>3 DEF vars, TypeInv, Types, OneAnswer, Keys, Copies, Proper, RestsClear, AtRest, Carries,
              Belongs, service, store, Elects
<1> QED
  BY <1>1, <1>2, <1>3 DEF Next

(* Every variable keeps its type, whatever the requests do.                *)
THEOREM TypeCorrect == Spec => []TypeOK
<1>1. TypeInv => TypeOK
  <2> SUFFICES ASSUME TypeInv PROVE TypeOK
    OBVIOUS
  <2>1. \A k \in Keys : Cardinality(cached[k]) <= 1
    <3> SUFFICES ASSUME NEW k \in Keys PROVE Cardinality(cached[k]) <= 1
      OBVIOUS
    <3>1. CASE cached[k] = {}
      BY <3>1, FS_EmptySet
    <3>2. ASSUME NEW a, cached[k] = {a} PROVE Cardinality(cached[k]) = 1
      BY <3>2, FS_Singleton
    <3> QED
      BY <3>1, <3>2 DEF TypeInv, OneAnswer
  <2>2. \A d \in Docs : \A n \in DOMAIN rows[d] : rows[d][n] \in Nat
    BY DEF TypeInv, Types
  <2> QED
    BY <2>1, <2>2, CollectionsAssumption DEF TypeInv, Types, TypeOK
<1> QED
  BY <1>1, InitTypes, NextTypes, PTL DEF Spec

-----------------------------------------------------------------------------
(* What a step changes *)

LEMMA PutEffect ==
  ASSUME TypeInv, NEW r \in Requests, NEW new \in [Docs -> DocStates], NEW v, Put(r, new, v),
         NEW d \in Docs
  PROVE  /\ doc'[d].state = new[d].state /\ doc'[d].value = new[d].value
         /\ doc'[d].active = new[d].active /\ doc'[d].initial = new[d].initial
         /\ doc'[d].version = new[d].version /\ doc'[d].restored = new[d].restored
         /\ new[d].raced => doc'[d].raced
         /\ new[d] = doc[d] \/ request[r].alone => doc'[d] = new[d]
         /\ new[d] # doc[d] /\ ~request[r].alone => doc'[d].raced
<1>1. doc'[d] = IF new[d] # doc[d] /\ ~request[r].alone THEN [new[d] EXCEPT !.raced = TRUE]
                ELSE new[d]
  BY DEF Put
<1>2. CASE new[d] # doc[d] /\ ~request[r].alone
  BY <1>1, <1>2 DEF DocStates
<1>3. CASE ~(new[d] # doc[d] /\ ~request[r].alone)
  BY <1>1, <1>3
<1> QED
  BY <1>2, <1>3

AllKeep == rows' = rows /\ \A d \in Docs : Keeps(doc[d], doc'[d])

Creates(r, d) ==
  LET ask == request[r].ask IN
  /\ ask.call = "create" /\ rows' = rows
  /\ doc[d].state = "none" /\ ~Refused(d, ask.value)
  /\ doc'[d].state = "live" /\ doc'[d].value = ask.value /\ doc'[d].version = 1
  /\ ~request[r].alone => doc'[d].raced
  /\ \A e \in Docs \ {d} : Keeps(doc[e], doc'[e]) /\ doc'[e].state = doc[e].state
  /\ doc'[d].initial =>
       /\ request[r].pc = "commit" /\ (ask.initial \/ request[r].first)
       /\ ask.initial => \A e \in request[r].mine \ {d} : e \in Docs => ~doc'[e].initial

Changes(r, d) ==
  LET ask == request[r].ask IN
  /\ ask.call = "update" /\ ask.docs = {d}
  /\ doc[d].state \in {"live", "deleted"} /\ doc'[d].state = doc[d].state
  /\ ask.value # NoValue => ~Refused(d, ask.value)
  /\ doc'[d].value = IF ask.value # NoValue THEN ask.value ELSE doc[d].value
  /\ doc[d].raced => doc'[d].raced
  /\ doc'[d].restored = doc[d].restored
  /\ ~request[r].alone => doc'[d] = doc[d] \/ doc'[d].raced
  /\ \A e \in Docs \ {d} : Keeps(doc[e], doc'[e]) /\ doc'[e].state = doc[e].state
  /\ doc'[d].initial /\ ~doc[d].initial =>
       /\ request[r].pc = "commit" /\ ask.initial
       /\ \A e \in request[r].mine \ {d} : e \in Docs => ~doc'[e].initial
  /\ IF request[r].pc = "write"
     THEN /\ rows' = rows
          /\ doc'[d].version = IF service.history = "after" THEN request[r].version + 1
                               ELSE doc[d].version
     ELSE /\ rows' = [rows EXCEPT ![d] = Append(@, request[r].version)]
          /\ doc'[d].version = request[r].version + 1
          /\ request[r].pc = "commit"

LEMMA KeepsOn ==
  ASSUME TypeInv, NEW r \in Requests, NEW new \in [Docs -> DocStates], NEW v, Put(r, new, v),
         NEW d \in Docs, Keeps(doc[d], new[d])
  PROVE  Keeps(doc[d], doc'[d])
BY PutEffect DEF Keeps

LEMMA WritingEffect ==
  ASSUME TypeInv, NEW r \in Requests, Writing(r)
  PROVE  AllKeep \/ \E d \in Docs : Creates(r, d) \/ Changes(r, d)
<1>1. CASE Kept(r)
  BY <1>1, KeepsOn DEF Kept, AllKeep
<1>2. CASE Creation(r)
  <2> DEFINE ask == request[r].ask
  <2>1. PICK new \in [Docs -> DocStates], d \in Docs, initial \in BOOLEAN :
          /\ Put(r, new, ask.value) /\ rows' = rows
          /\ ask.call = "create"
          /\ doc[d].state = "none" /\ ~Refused(d, ask.value)
          /\ new[d] = Created(d, ask, initial)
          /\ \A e \in Docs \ {d} : Alike(doc[e], new[e])
          /\ initial =>
               /\ request[r].pc = "commit" /\ (ask.initial \/ request[r].first)
               /\ ask.initial => \A e \in request[r].mine \ {d} : e \in Docs => ~new[e].initial
    BY <1>2 DEF Creation
  <2>2. /\ new[d].state = "live" /\ new[d].value = ask.value /\ new[d].version = 1
        /\ new[d].initial = initial
    BY <2>1 DEF Created
  <2>3. new[d] # doc[d]
    BY <2>1, <2>2
  <2>4. /\ \A e \in Docs : doc'[e].state = new[e].state /\ (doc'[e].initial <=> new[e].initial)
        /\ doc'[d].value = new[d].value /\ doc'[d].version = new[d].version
        /\ ~request[r].alone => doc'[d].raced
    BY <2>1, <2>3, PutEffect
  <2>5. \A e \in Docs \ {d} : Keeps(doc[e], doc'[e]) /\ doc'[e].state = doc[e].state
    BY <2>1, <2>4, KeepsOn DEF Alike
  <2>6. Creates(r, d)
    BY <2>1, <2>2, <2>4, <2>5 DEF Creates
  <2> QED
    BY <2>6
<1>3. CASE Change(r)
  <2> DEFINE ask == request[r].ask
  <2>1. PICK new \in [Docs -> DocStates], d \in Docs :
          /\ Put(r, new, new[d].value)
          /\ ask.call = "update" /\ ask.docs = {d}
          /\ doc[d].state \in {"live", "deleted"} /\ new[d].state = doc[d].state
          /\ ask.value # NoValue => ~Refused(d, ask.value)
          /\ new[d].value = IF ask.value # NoValue THEN ask.value ELSE doc[d].value
          /\ new[d].raced = doc[d].raced /\ new[d].restored = doc[d].restored
          /\ \A e \in Docs \ {d} : Alike(doc[e], new[e])
          /\ new[d].initial /\ ~doc[d].initial =>
               /\ request[r].pc = "commit" /\ ask.initial
               /\ \A e \in request[r].mine \ {d} : e \in Docs => ~new[e].initial
          /\ IF request[r].pc = "write"
             THEN /\ rows' = rows
                  /\ new[d].version = IF service.history = "after" THEN request[r].version + 1
                                      ELSE doc[d].version
             ELSE /\ rows' = [rows EXCEPT ![d] = Append(@, request[r].version)]
                  /\ new[d].version = request[r].version + 1
                  /\ request[r].pc = "commit"
    BY <1>3 DEF Change
  <2>2. /\ \A e \in Docs : doc'[e].state = new[e].state /\ (doc'[e].initial <=> new[e].initial)
        /\ doc'[d].value = new[d].value /\ doc'[d].version = new[d].version
        /\ doc'[d].restored = new[d].restored
        /\ new[d].raced => doc'[d].raced
        /\ ~request[r].alone => doc'[d] = doc[d] \/ doc'[d].raced
    BY <2>1, PutEffect
  <2>3. \A e \in Docs \ {d} : Keeps(doc[e], doc'[e]) /\ doc'[e].state = doc[e].state
    BY <2>1, <2>2, KeepsOn DEF Alike
  <2>4. Changes(r, d)
    BY <2>1, <2>2, <2>3 DEF Changes
  <2> QED
    BY <2>4
<1> QED
  BY <1>1, <1>2, <1>3 DEF Writing

LEMMA Effects ==
  ASSUME TypeInv, [Next]_vars
  PROVE  \/ AllKeep
         \/ UNCHANGED doc /\ \E r \in Requests : Record(r)
         \/ \E r \in Requests, d \in Docs :
              /\ Step(r) /\ request[r].pc \in {"write", "commit"}
              /\ Creates(r, d) \/ Changes(r, d)
<1> DEFINE still == UNCHANGED <<doc, rows>>
<1>1. still => AllKeep
  BY DocTypes DEF AllKeep, TypeInv
<1>2. ASSUME NEW r \in Requests, Step(r)
      PROVE  \/ still \/ AllKeep
             \/ UNCHANGED doc /\ Record(r)
             \/ \E d \in Docs : /\ request[r].pc \in {"write", "commit"}
                                /\ Creates(r, d) \/ Changes(r, d)
  <2>1. CASE Writing(r) /\ request[r].pc \in {"load", "write", "commit"}
    <3>1. request[r].pc = "load" => request[r].ask.call = "delete" /\ ~AtRest(r)
      BY DEF TypeInv, Proper, Belongs, AtRest, Ended
    <3>2. request[r].pc = "load" => \A d \in Docs : ~Creates(r, d) /\ ~Changes(r, d)
      BY <3>1 DEF Creates, Changes
    <3> QED
      BY <2>1, <3>2, WritingEffect
  <2>2. CASE Waits(r)
    BY <2>2 DEF Waits, Find, Check, Record, Begin, Get, Fetch
  <2>3. CASE Refuses(r) \/ Loads(r) \/ Clear(r) \/ Store(r)
    BY <2>3 DEF Refuses, Loads, Clear, Store
  <2> QED
    BY <1>2, <2>1, <2>2, <2>3, StepCases
<1>3. ASSUME NEW r \in Requests, Calls(r)
      PROVE  still
  BY <1>3, CallsCarry DEF Arrive, TypeInv
<1>4. CASE UNCHANGED vars
  BY <1>1, <1>4 DEF vars
<1> HIDE DEF still
<1> QED
  BY <1>1, <1>2, <1>3, <1>4 DEF Next

-----------------------------------------------------------------------------
(* How a request goes on *)

Finds(r) ==
  LET p == request[r] q == request'[r] IN
  /\ p.pc = "find" /\ q.pc \in {"check", "record", "begin", "write", "load"}
  /\ q.found = Found(How(p.ask.call), p.ask.docs)
  /\ p.ask.call \in Edits => q.found # {}
  /\ p.ask.call = "update" =>
       /\ q.pc = Prepare("update", FALSE, p.ask.value)
       /\ \A d \in p.ask.docs : /\ doc[d].state \in {"live", "deleted"}
                                /\ service.history # "none" => q.version = doc[d].version
Checks(r) ==
  LET p == request[r] q == request'[r] IN
  /\ p.pc = "check" /\ q.pc = Prepare(p.ask.call, TRUE, p.ask.value)
  /\ q.version = p.version /\ q.found = p.found
  /\ \A e \in Docs \ p.ask.docs : Live(e) => doc[e].value # p.ask.value
Records(r) ==
  LET p == request[r] q == request'[r] IN
  /\ p.pc = "record" /\ q.pc = "write" /\ q.version = p.version /\ q.found = p.found
  /\ \E d \in p.found : rows' = [rows EXCEPT ![d] = Append(@, p.version)]
Begins(r) ==
  LET p == request[r] q == request'[r] IN
  /\ p.pc = "begin" /\ q.pc = "commit" /\ q.version = p.version /\ q.found = p.found
  /\ q.ask.initial =>
       {d \in Docs : doc[d].initial /\ doc[d].state \in {"live", "deleted"}} \subseteq q.mine
  /\ q.first => \A d \in Docs : ~Live(d)
Reads(r) ==
  LET p == request[r] q == request'[r] IN
  /\ q.found = p.found
  /\ \/ p.pc = "get" /\ q.pc = "fetch"
     \/ p.pc = "fetch" /\ q.pc = "store" /\ q.answer \in Answers(p.ask.key)
Waited(r) ==
  /\ Quietly
  /\ Finds(r) \/ Checks(r) \/ Records(r) \/ Begins(r) \/ Reads(r) \/ Loads(r)
  /\ Records(r) \/ rows' = rows

LEMMA FindMoves ==
  ASSUME TypeInv, NEW r \in Requests, Find(r), ~AtRest(r)'
  PROVE  Finds(r) /\ request'[r].ask = request[r].ask /\ request'[r].alone = request[r].alone
<1> DEFINE ask == request[r].ask
           found == Found(How(ask.call), ask.docs)
           version == IF ask.call = "update" /\ service.history # "none"
                      THEN doc[CHOOSE d \in found : TRUE].version ELSE 0
           pc == CASE ask.call = "update" -> Prepare("update", FALSE, ask.value)
                   [] ask.call = "delete" /\ store.erase = "save" -> "load"
                   [] OTHER -> "write"
           q == [request[r] EXCEPT !.found = found, !.version = version, !.pc = pc]
<1>1. /\ request[r].pc = "find" /\ request[r] \in RequestStates /\ Carries(ask) /\ kind' = kind
      /\ ask.docs \subseteq Docs
  BY DEF Find, TypeInv, Proper, AtRest, Ended, Types, RequestStates, Asks
<1>2. ~Finish(r, "rejected")
  BY <1>1, FinishTypes DEF AtRest, TypeInv, Ended
<1>3. Become(r, q) /\ ~(found = {} /\ ask.call \in Edits)
  BY <1>2 DEF Find
<1>4. found \subseteq {d \in ask.docs : doc[d].state \in {"live", "deleted"}}
  BY <1>1, SomeFound DEF TypeInv
<1>5. ask.call = "update" =>
        \A d \in ask.docs : /\ doc[d].state \in {"live", "deleted"}
                            /\ service.history # "none" => version = doc[d].version
  <2> SUFFICES ASSUME ask.call = "update", NEW d \in ask.docs
               PROVE  /\ doc[d].state \in {"live", "deleted"}
                      /\ service.history # "none" => version = doc[d].version
    OBVIOUS
  <2>1. ask.docs = {d} /\ found # {}
    BY <1>1, <1>3 DEF Carries, Edits
  <2>2. found = {d}
    BY <1>4, <2>1
  <2> HIDE DEF found
  <2> QED
    BY <1>4, <2>1, <2>2
<1>6. pc \in {"check", "record", "begin", "write", "load"}
  BY DEF Prepare
<1>7. ask.call = "update" => pc = Prepare("update", FALSE, ask.value)
  OBVIOUS
<1> HIDE DEF found, version, pc
<1>8. request'[r] = q /\ q.pc = pc /\ q.found = found /\ q.version = version /\ q.ask = ask
      /\ q.alone = request[r].alone
  BY <1>1, <1>3 DEF Become, TypeInv, Types, RequestStates
<1> HIDE DEF q
<1> QED
  BY <1>1, <1>3, <1>5, <1>6, <1>7, <1>8 DEF Finds, found

LEMMA WaitMoves ==
  ASSUME TypeInv, NEW r \in Requests, Waits(r) \/ Loads(r), ~AtRest(r)'
  PROVE  Waited(r) /\ request'[r].ask = request[r].ask /\ request'[r].alone = request[r].alone
<1> DEFINE p == request[r]
           ask == p.ask
           Stays == request'[r].ask = ask /\ request'[r].alone = p.alone
<1>1. p \in RequestStates /\ request \in [Requests -> RequestStates]
  BY DEF TypeInv, Types
<1>2. kind' = kind => ~Finish(r, "rejected") /\ ~Finish(r, "done")
  BY FinishTypes DEF AtRest, TypeInv, Ended
<1>3. ASSUME NEW pc \in Pcs, Goto(r, pc)
      PROVE  /\ request'[r].pc = pc /\ request'[r].version = p.version
             /\ request'[r].found = p.found /\ Stays
  BY <1>1, <1>3, GotoTypes DEF Goto, Become
<1>4. CASE Find(r)
  BY <1>4, FindMoves DEF Waited, Find, Quietly
<1>5. CASE Check(r)
  <2>1. /\ Goto(r, Prepare(ask.call, TRUE, ask.value)) /\ Quietly /\ rows' = rows /\ p.pc = "check"
        /\ \A e \in Docs \ ask.docs : Live(e) => doc[e].value # ask.value
    BY <1>2, <1>5 DEF Check, Quietly
  <2>2. Prepare(ask.call, TRUE, ask.value) \in Pcs
    BY DEF Prepare, Pcs
  <2> QED
    BY <1>3, <2>1, <2>2 DEF Waited, Checks
<1>6. CASE Record(r)
  <2>1. "write" \in Pcs
    BY DEF Pcs
  <2> QED
    BY <1>3, <1>6, <2>1 DEF Record, Waited, Records, Quietly
<1>7. CASE Begin(r)
  <2> DEFINE stored == {d \in Docs : doc[d].initial /\ doc[d].state \in {"live", "deleted"}}
             mine == ask.docs \cup (IF ask.initial THEN stored ELSE {})
             first == ask.call = "create" /\ ~ask.initial /\ \A d \in Docs : ~Live(d)
             q == [p EXCEPT !.pc = "commit", !.clash = FALSE, !.mine = mine, !.first = first]
  <2>1. Become(r, q) /\ p.pc = "begin" /\ Quietly /\ rows' = rows
    BY <1>7 DEF Begin, Quietly
  <2>2. (ask.initial => stored \subseteq mine) /\ (first => \A d \in Docs : ~Live(d))
    OBVIOUS
  <2> HIDE DEF mine, first, stored
  <2>3. request'[r] = q /\ q.pc = "commit" /\ q.version = p.version /\ q.ask = ask
        /\ q.alone = p.alone /\ q.mine = mine /\ q.first = first /\ q.found = p.found
    BY <1>1, <2>1 DEF Become, RequestStates
  <2> HIDE DEF q
  <2> QED
    BY <2>1, <2>2, <2>3 DEF Waited, Begins, stored
<1>8. CASE Get(r)
  <2>1. "fetch" \in Pcs
    BY DEF Pcs
  <2> QED
    BY <1>2, <1>3, <1>8, <2>1 DEF Get, Waited, Reads, Quietly
<1>9. CASE Fetch(r)
  <2>1. PICK answer \in Answers(ask.key) : Become(r, [p EXCEPT !.pc = "store", !.answer = answer])
    BY <1>2, <1>9 DEF Fetch
  <2> DEFINE q == [p EXCEPT !.pc = "store", !.answer = answer]
  <2>2. request'[r] = q /\ q.pc = "store" /\ q.answer = answer /\ q.ask = ask /\ q.alone = p.alone
        /\ q.found = p.found
    BY <1>1, <2>1 DEF Become, RequestStates
  <2> HIDE DEF q
  <2> QED
    BY <1>9, <2>2 DEF Fetch, Waited, Reads, Quietly
<1>10. CASE Loads(r)
  <2> DEFINE found == Found("plain", ask.docs)
             q == [p EXCEPT !.pc = "write", !.found = found]
  <2> HIDE DEF found
  <2>1. request'[r] = q /\ q.ask = ask /\ q.alone = p.alone
    BY <1>1, <1>10 DEF Loads, Become, RequestStates, found
  <2> HIDE DEF q
  <2> QED
    BY <1>10, <2>1 DEF Loads, Waited, Quietly
<1> QED
  BY <1>4, <1>5, <1>6, <1>7, <1>8, <1>9, <1>10 DEF Waits

LEMMA StepMoves ==
  ASSUME TypeInv, NEW r \in Requests, Step(r), ~AtRest(r)'
  PROVE  /\ request'[r].ask = request[r].ask /\ request'[r].alone = request[r].alone
         /\ \/ Waited(r)
            \/ Writing(r) /\ request'[r].pc = "clear" /\ request'[r].found = request[r].found
<1>1. CASE Writing(r) /\ request[r].pc \in {"load", "write", "commit"}
  <2>1. request'[r].pc = "clear"
    BY <1>1, WritingTypes DEF AtRest, Ended
  <2>2. PICK new, v : Put(r, new, v)
    BY <1>1 DEF Writing, Kept, Creation, Change
  <2> DEFINE clears == ClearedBy(request[r].ask.call, v)
             q == [request[r] EXCEPT !.pc = "clear", !.clears = clears, !.mine = {}]
  <2>3. request'[r] = IF clears = {} THEN [Fresh EXCEPT !.pc = "done"] ELSE q
    BY <2>2 DEF Put
  <2>4. [Fresh EXCEPT !.pc = "done"].pc = "done"
    BY FreshTypes DEF Pcs
  <2> HIDE DEF clears
  <2>5. q.ask = request[r].ask /\ q.alone = request[r].alone /\ q.found = request[r].found
    BY DEF TypeInv, Types, RequestStates
  <2> HIDE DEF q
  <2> QED
    BY <1>1, <2>1, <2>3, <2>4, <2>5
<1>2. CASE Waits(r) \/ Loads(r)
  BY <1>2, WaitMoves
<1>3. CASE Refuses(r) \/ Clear(r) \/ Store(r)
  <2>1. Finish(r, "rejected") \/ Finish(r, "done")
    BY <1>3 DEF Refuses, Clear, Store
  <2>2. kind' = kind
    BY <1>3 DEF Refuses, Clear, Store
  <2> QED
    BY <2>1, <2>2, FinishTypes DEF TypeInv, AtRest, Ended
<1> QED
  BY <1>1, <1>2, <1>3, StepCases

-----------------------------------------------------------------------------
(* A request alone *)

Exclusive ==
  \A r \in Requests : request[r].alone /\ ~AtRest(r) => \A s \in Requests \ {r} : AtRest(s)

Arrives(r) == \E ask \in Asks : Carries(ask) /\ Arrive(r, ask)

(* A request that is alone after a step was so before, or has just come:   *)
(* no other one has taken a step.                                          *)
LEMMA AloneMoves ==
  ASSUME TypeInv, Exclusive, [Next]_vars, NEW r \in Requests, request'[r].alone, ~AtRest(r)'
  PROVE  \/ UNCHANGED vars
         \/ Step(r) /\ request[r].alone /\ ~AtRest(r)
         \/ Arrives(r) /\ UnderWay = {}
<1>1. ASSUME NEW s \in Requests, Step(s)
      PROVE  Step(r) /\ request[r].alone /\ ~AtRest(r)
  <2>1. ~AtRest(s) /\ Others(s)
    BY <1>1, StepCases, StepTypes
  <2>2. CASE s = r
    BY <1>1, <2>1, <2>2, StepMoves
  <2>3. CASE s # r
    BY <2>1, <2>3 DEF Exclusive, Others, Same, AtRest
  <2> QED
    BY <2>2, <2>3
<1>2. ASSUME NEW s \in Requests, Calls(s)
      PROVE  Arrives(r) /\ UnderWay = {}
  <2>1. PICK ask \in Asks : Carries(ask) /\ Arrive(s, ask)
    BY <1>2, CallsCarry DEF TypeInv
  <2>2. CASE s = r
    BY <2>1, <2>2, ArriveTypes DEF Arrives
  <2>3. CASE s # r
    <3>1. /\ AtRest(r) => request'[r] = request[r]
          /\ ~AtRest(r) => request'[r] = [request[r] EXCEPT !.alone = FALSE]
      BY <2>1, <2>3, ArriveTypes
    <3>2. [request[r] EXCEPT !.alone = FALSE].alone = FALSE
      BY DEF TypeInv, Types, RequestStates
    <3> QED
      BY <3>1, <3>2 DEF AtRest
  <2> QED
    BY <2>2, <2>3
<1> QED
  BY <1>1, <1>2 DEF Next

LEMMA ExclusiveNext == TypeInv /\ Exclusive /\ [Next]_vars => Exclusive'
<1> SUFFICES ASSUME TypeInv, Exclusive, [Next]_vars, NEW r \in Requests,
                    request'[r].alone, ~AtRest(r)', NEW s \in Requests \ {r}
             PROVE  AtRest(s)'
  BY DEF Exclusive
<1>1. CASE UNCHANGED vars
  BY <1>1 DEF vars, Exclusive, AtRest
<1>2. CASE Step(r) /\ request[r].alone /\ ~AtRest(r)
  BY <1>2, StepTypes DEF Exclusive, Others, Same, AtRest
<1>3. CASE Arrives(r) /\ UnderWay = {}
  BY <1>3, ArriveTypes DEF Arrives, UnderWay, AtRest
<1> QED
  BY <1>1, <1>2, <1>3, AloneMoves

-----------------------------------------------------------------------------
(* One initial setting *)

Stored(d) == doc[d].state \in {"live", "deleted"}

(* The transaction of a request alone has seen every initial document.     *)
Marks ==
  \A r \in Requests : request[r].alone /\ request[r].pc = "commit" =>
    /\ request[r].ask.initial => \A d \in Docs : doc[d].initial /\ Stored(d) => d \in request[r].mine
    /\ request[r].first => \A d \in Docs : ~Live(d)

LEMMA MarksNext == TypeInv /\ Exclusive /\ Marks /\ [Next]_vars => Marks'
<1> SUFFICES ASSUME TypeInv, Exclusive, Marks, [Next]_vars, NEW r \in Requests,
                    request'[r].alone, request'[r].pc = "commit"
             PROVE  /\ request'[r].ask.initial =>
                         \A d \in Docs : (doc[d].initial /\ Stored(d))' => d \in request'[r].mine
                    /\ request'[r].first => \A d \in Docs : ~Live(d)'
  BY DEF Marks
<1>1. ~AtRest(r)'
  BY DEF AtRest, Ended
<1>2. CASE UNCHANGED vars
  BY <1>2 DEF vars, Marks, Stored, Live
<1>3. CASE Step(r)
  <2>1. Waited(r) /\ request'[r].ask = request[r].ask
    BY <1>1, <1>3, StepMoves
  <2>2. Begins(r) /\ UNCHANGED doc
    <3>1. ~Finds(r) /\ ~Checks(r) /\ ~Records(r) /\ ~Reads(r)
      BY DEF Finds, Checks, Records, Reads, Prepare
    <3>2. Loads(r) => request'[r].pc = "write"
      <4>1. ASSUME Loads(r) PROVE request'[r].pc = "write"
        BY <4>1 DEF Loads, Become, TypeInv, Types, RequestStates
      <4> QED
        BY <4>1
    <3> QED
      BY <2>1, <3>1, <3>2 DEF Waited, Quietly
  <2> QED
    BY <2>1, <2>2 DEF Begins, Stored, Live
<1>4. CASE Arrives(r)
  <2>1. PICK ask \in Asks : request'[r].pc = Entry(ask)
    BY <1>4, ArriveTypes DEF Arrives
  <2> QED
    BY <2>1 DEF Entry, Prepare
<1> QED
  BY <1>1, <1>2, <1>3, <1>4, AloneMoves

InitialInv == TypeInv /\ Exclusive /\ Marks /\ OneInitialSetting

(* A setting that charges are computed with is the only live initial one,  *)
(* unless a race or a restore made another: the transaction of a request   *)
(* alone takes is_initial from every document that had it, and the first   *)
(* setting gets it only when none is live.                                 *)
THEOREM OneSettingIsInitial == Spec => []OneInitialSetting
<1>1. Init => InitialInv
  <2> SUFFICES ASSUME Init PROVE InitialInv
    OBVIOUS
  <2>1. \A r \in Requests : AtRest(r) /\ request[r].pc # "commit"
    BY DEF Init, AtRest, Fresh
  <2>2. OneInitialSetting
    <3>1. PICK state \in [Docs -> {"none", "live", "deleted"}], value \in [Docs -> Values],
               only \in {{}} \cup {{d} : d \in Docs} :
            /\ \A d, e \in Docs :
                 d # e /\ state[d] # "none" /\ state[e] # "none" => value[d] # value[e]
            /\ doc = Earlier(state, value, only)
      BY DEF Init
    <3>2. \A d \in Docs : doc[d].initial => d \in only
      BY <3>1 DEF Earlier
    <3>3. \A d, e \in only : d = e
      OBVIOUS
    <3> QED
      BY <3>2, <3>3 DEF OneInitialSetting
  <2> QED
    BY <2>1, <2>2, InitTypes DEF InitialInv, Exclusive, Marks
<1>2. InitialInv /\ [Next]_vars => InitialInv'
  <2> SUFFICES ASSUME InitialInv, [Next]_vars PROVE InitialInv'
    OBVIOUS
  <2> SUFFICES OneInitialSetting'
    BY NextTypes, ExclusiveNext, MarksNext DEF InitialInv
  <2> SUFFICES ASSUME NEW d \in Docs, NEW e \in Docs, d # e,
                      Live(d)', Live(e)', doc'[d].initial, doc'[e].initial,
                      \A x \in {d, e} : ~doc'[x].raced /\ ~doc'[x].restored
               PROVE  FALSE
    BY DEF OneInitialSetting
  <2>1. \A x \in {d, e} : Keeps(doc[x], doc'[x]) =>
          Live(x) /\ doc[x].initial /\ ~doc[x].raced /\ ~doc[x].restored
    BY DEF Keeps, Live
  <2>2. ~(Keeps(doc[d], doc'[d]) /\ Keeps(doc[e], doc'[e]))
    BY <2>1 DEF InitialInv, OneInitialSetting
  <2>3. ~UNCHANGED doc
    BY <2>2, DocTypes DEF InitialInv, TypeInv
  <2>4. PICK r \in Requests, w \in Docs : /\ Step(r) /\ request[r].pc \in {"write", "commit"}
                                          /\ Creates(r, w) \/ Changes(r, w)
    BY <2>2, <2>3, Effects DEF InitialInv, AllKeep
  <2>5. PICK o \in {d, e} : w \in {d, e} /\ o # w
    BY <2>2, <2>4 DEF Creates, Changes
  <2>6. /\ Keeps(doc[o], doc'[o]) /\ doc'[o].state = doc[o].state /\ o \in Docs
        /\ Live(o) /\ doc[o].initial /\ ~doc[o].raced /\ ~doc[o].restored
    BY <2>1, <2>4, <2>5 DEF Creates, Changes
  <2>7. doc'[o].initial /\ doc'[w].initial /\ ~doc'[w].raced /\ ~doc'[w].restored
    BY <2>5
  <2>8. CASE Creates(r, w)
    <3>1. /\ request[r].alone /\ request[r].pc = "commit"
          /\ request[r].ask.initial \/ request[r].first
          /\ request[r].ask.initial => o \notin request[r].mine
      BY <2>5, <2>6, <2>7, <2>8 DEF Creates
    <3> QED
      BY <2>6, <3>1 DEF InitialInv, Marks, Stored, Live
  <2>9. CASE Changes(r, w)
    <3>1. Live(w) /\ ~doc[w].raced /\ ~doc[w].restored
      BY <2>5, <2>7, <2>9 DEF Changes, Live
    <3>2. ~doc[w].initial
      BY <2>5, <2>6, <3>1 DEF InitialInv, OneInitialSetting
    <3>3. /\ request[r].pc = "commit" /\ request[r].ask.initial
          /\ o \notin request[r].mine
      BY <2>5, <2>6, <2>7, <2>9, <3>2 DEF Changes
    <3>4. request[r].alone
      BY <2>7, <2>9, <3>2 DEF Changes
    <3> QED
      BY <2>6, <3>3, <3>4 DEF InitialInv, Marks, Stored, Live
  <2> QED
    BY <2>4, <2>8, <2>9
<1>3. InitialInv => OneInitialSetting
  BY DEF InitialInv
<1> QED
  BY <1>1, <1>2, <1>3, PTL DEF Spec

-----------------------------------------------------------------------------
(* The rows of the versions *)

FoundAsked == \A r \in Requests : ~AtRest(r) => request[r].found \subseteq request[r].ask.docs

(* Every version up to n has a row. *)
Covers(d, n) == \A v \in 1 .. n : \E i \in DOMAIN rows[d] : rows[d][i] = v

(* An update knows the version of its document, unless another has raced   *)
(* with it, and has recorded it when it writes.                            *)
Updates(r) ==
  /\ request[r].ask.call = "update"
  /\ request[r].pc \in {"check", "record", "write", "begin", "commit"}
Known(r, d) ==
  /\ doc[d].state # "none"
  /\ Covers(d, request[r].version - 1)
  /\ request[r].pc = "write" => Covers(d, request[r].version)
  /\ ~doc[d].raced => request[r].version = doc[d].version
VersionsCovered == \A d \in Docs : Covers(d, doc[d].version - 1)
NoneBlank == \A d \in Docs : doc[d].state = "none" => rows[d] = <<>>
AllKnown == \A r \in Requests : Updates(r) => \A d \in request[r].ask.docs : Known(r, d)
Recorded == service.history # "none" => VersionsCovered /\ NoneBlank /\ AllKnown
Once ==
  Elects => \A d \in Docs : ~doc[d].raced =>
    /\ \A n \in DOMAIN rows[d] : rows[d][n] < doc[d].version
    /\ \A m, n \in DOMAIN rows[d] : rows[d][m] = rows[d][n] => m = n

VersionInv == TypeInv /\ Exclusive /\ FoundAsked /\ Recorded /\ Once

LEMMA FoundAskedNext == TypeInv /\ FoundAsked /\ [Next]_vars => FoundAsked'
<1> SUFFICES ASSUME TypeInv, FoundAsked, [Next]_vars, NEW r \in Requests, ~AtRest(r)'
             PROVE  request'[r].found \subseteq request'[r].ask.docs
  BY DEF FoundAsked
<1>1. CASE UNCHANGED vars
  BY <1>1 DEF vars, FoundAsked, AtRest
<1>2. ASSUME NEW s \in Requests, Step(s)
      PROVE  request'[r].found \subseteq request'[r].ask.docs
  <2>1. CASE s # r
    BY <1>2, <2>1, StepTypes DEF Others, Same, FoundAsked, AtRest
  <2>2. CASE s = r
    <3>1. request'[r].ask = request[r].ask /\ ~AtRest(r) /\ request[r].ask.docs \subseteq Docs
      BY <1>2, <2>2, StepMoves, StepCases DEF TypeInv, Types, RequestStates, Asks
    <3>2. CASE Waited(r)
      <4>1. CASE Finds(r)
        BY <3>1, <4>1 DEF Finds, Found
      <4>2. CASE Loads(r)
        <5>1. request'[r].found = Found("plain", request[r].ask.docs)
          BY <4>2 DEF Loads, Become, TypeInv, Types, RequestStates
        <5> QED
          BY <3>1, <5>1 DEF Found
      <4> QED
        BY <3>1, <3>2, <4>1, <4>2 DEF Waited, Checks, Records, Begins, Reads, FoundAsked
    <3>3. CASE request'[r].found = request[r].found
      BY <3>1, <3>3 DEF FoundAsked
    <3> QED
      BY <1>2, <2>2, <3>2, <3>3, StepMoves
  <2> QED
    BY <2>1, <2>2
<1>3. ASSUME NEW s \in Requests, Calls(s)
      PROVE  request'[r].found \subseteq request'[r].ask.docs
  <2>1. PICK ask \in Asks : Carries(ask) /\ Arrive(s, ask)
    BY <1>3, CallsCarry DEF TypeInv
  <2>2. CASE s = r
    BY <2>1, <2>2, ArriveTypes
  <2>3. CASE s # r
    <3>1. /\ AtRest(r) => request'[r] = request[r]
          /\ ~AtRest(r) => request'[r] = [request[r] EXCEPT !.alone = FALSE]
      BY <2>1, <2>3, ArriveTypes
    <3>2. request'[r].found = request[r].found /\ request'[r].ask = request[r].ask
          /\ request'[r].pc = request[r].pc
      BY <3>1 DEF TypeInv, Types, RequestStates
    <3> QED
      BY <3>2 DEF FoundAsked, AtRest
  <2> QED
    BY <2>2, <2>3
<1> QED
  BY <1>1, <1>2, <1>3 DEF Next

Covered(d, n) == \A v \in 1 .. n : \E i \in DOMAIN rows'[d] : rows'[d][i] = v

LEMMA CoversOn ==
  ASSUME TypeInv, NEW d \in Docs, NEW n \in Nat, rows'[d] = Append(rows[d], n)
  PROVE  /\ \A m \in Int : Covers(d, m) => Covered(d, m)
         /\ Covers(d, n - 1) => Covered(d, n)
<1>1. rows[d] \in Seq(Nat)
  BY DEF TypeInv, Types
<1>2. /\ \A i \in DOMAIN rows[d] : i \in DOMAIN rows'[d] /\ rows'[d][i] = rows[d][i]
      /\ \E i \in DOMAIN rows'[d] : rows'[d][i] = n
  <2>1. Len(rows[d]) + 1 \in DOMAIN rows'[d] /\ rows'[d][Len(rows[d]) + 1] = n
    BY <1>1
  <2> QED
    BY <1>1, <2>1
<1>3. \A v \in 1 .. n : v \in 1 .. n - 1 \/ v = n
  OBVIOUS
<1> QED
  BY <1>2, <1>3 DEF Covers, Covered

(* The rows of the documents grow, one at a time. *)
Grow == \A d \in Docs : rows'[d] = rows[d] \/ \E n \in Nat : rows'[d] = Append(rows[d], n)

LEMMA CoversGrow ==
  ASSUME TypeInv, Grow, NEW d \in Docs, NEW m \in Int, Covers(d, m)
  PROVE  Covered(d, m)
BY CoversOn DEF Grow, Covers, Covered

(* A request that takes no step knows what it knew. *)
LEMMA KnownOn ==
  ASSUME TypeInv, Grow, NEW r \in Requests, NEW d \in Docs, Known(r, d),
         request'[r].pc = request[r].pc, request'[r].version = request[r].version,
         doc'[d].state # "none", ~doc'[d].raced => ~doc[d].raced /\ doc'[d].version = doc[d].version
  PROVE  Known(r, d)'
<1>1. request[r].version \in Nat
  BY DEF TypeInv, Types, RequestStates
<1> QED
  BY <1>1, CoversGrow DEF Known, Covers, Covered

(* The steps, by what they do to documents and rows. *)
LEMMA StepKinds ==
  ASSUME TypeInv, NEW s \in Requests, Step(s)
  PROVE  /\ ~AtRest(s) /\ kind' = kind
         /\ \A r \in Requests \ {s} : Same(request'[r], request[r])
         /\ \/ /\ request'[s].pc \in {"clear", "done"}
               /\ AllKeep \/ \E d \in Docs : /\ request[s].pc \in {"write", "commit"}
                                             /\ Creates(s, d) \/ Changes(s, d)
            \/ Waited(s) /\ request'[s].ask = request[s].ask /\ ~AtRest(s)'
            \/ UNCHANGED <<doc, rows>> /\ AtRest(s)'
<1>1. ~AtRest(s) /\ kind' = kind /\ Others(s)
  BY StepCases, StepTypes
<1>2. CASE Writing(s) /\ request[s].pc \in {"load", "write", "commit"}
  <2>1. request'[s].pc \in {"clear", "done"}
    BY <1>2, WritingTypes
  <2>2. request[s].pc = "load" => request[s].ask.call = "delete"
    BY <1>1 DEF TypeInv, Proper, Belongs
  <2>3. request[s].pc = "load" => \A d \in Docs : ~Creates(s, d) /\ ~Changes(s, d)
    BY <2>2 DEF Creates, Changes
  <2> QED
    BY <1>1, <1>2, <2>1, <2>3, WritingEffect DEF Others
<1>3. CASE Waits(s) \/ Loads(s)
  <2>1. CASE ~AtRest(s)'
    BY <1>1, <1>3, <2>1, WaitMoves DEF Others
  <2>2. CASE AtRest(s)'
    <3>1. ~Record(s)
      BY <2>2, GotoTypes DEF Record, Goto, Become, AtRest, Ended, TypeInv, Types, RequestStates
    <3>2. UNCHANGED <<doc, rows>>
      BY <1>3, <3>1 DEF Waits, Find, Check, Begin, Get, Fetch, Loads
    <3> QED
      BY <1>1, <2>2, <3>2 DEF Others
  <2> QED
    BY <2>1, <2>2
<1>4. CASE Refuses(s) \/ Clear(s) \/ Store(s)
  <2>1. Finish(s, "rejected") \/ Finish(s, "done")
    BY <1>4 DEF Refuses, Clear, Store
  <2>2. UNCHANGED <<doc, rows>>
    BY <1>4 DEF Refuses, Clear, Store
  <2> QED
    BY <1>1, <2>1, <2>2, FinishTypes DEF TypeInv, Ended, Others, AtRest
<1> QED
  BY <1>2, <1>3, <1>4, StepCases

Recording == TypeInv /\ Exclusive /\ FoundAsked /\ Recorded /\ service.history # "none"

LEMMA VersionTypes ==
  ASSUME TypeInv
  PROVE  /\ \A r \in Requests : request[r].version \in Nat /\ request[r].ask.docs \subseteq Docs
         /\ \A d \in Docs : doc[d].version \in Nat
         /\ \A r \in Requests : Updates(r) => ~AtRest(r)
         /\ \A r \in Requests : Updates(r) => \E d \in Docs : request[r].ask.docs = {d}
BY DEF TypeInv, Types, RequestStates, Asks, DocStates, Updates, AtRest, Ended, Proper, Carries,
       Edits

(* The other updates, when a request writes. *)
LEMMA WriteRecords ==
  ASSUME Recording, NEW s \in Requests, ~AtRest(s), kind' = kind, TypeInv',
         request'[s].pc \in {"clear", "done"},
         \A r \in Requests \ {s} : Same(request'[r], request[r]),
         AllKeep \/ \E w \in Docs : /\ request[s].pc \in {"write", "commit"}
                                    /\ Creates(s, w) \/ Changes(s, w)
  PROVE  Recorded'
<1>1. TypeInv
  BY DEF Recording
<1>2. ASSUME NEW r \in Requests, Updates(r)', NEW d \in request'[r].ask.docs
      PROVE  r # s /\ d \in Docs /\ Updates(r) /\ Known(r, d) /\ ~request[s].alone
             /\ request'[r].pc = request[r].pc /\ request'[r].version = request[r].version
             /\ d \in request[r].ask.docs
  <2>1. r # s
    BY <1>2 DEF Updates
  <2>2. Same(request'[r], request[r])
    BY <2>1
  <2>3. Updates(r) /\ d \in request[r].ask.docs
    BY <1>2, <2>2 DEF Updates, Same
  <2>4. ~AtRest(r) /\ d \in Docs
    BY <1>1, <2>3, VersionTypes
  <2> QED
    BY <2>1, <2>2, <2>3, <2>4 DEF Recording, Recorded, AllKnown, Exclusive, Same
<1>3. CASE AllKeep
  <2>1. Grow
    BY <1>3 DEF AllKeep, Grow
  <2>2. \A d \in Docs : /\ Covers(d, doc[d].version - 1)'
                        /\ doc'[d].state = "none" => rows'[d] = <<>>
    BY <1>1, <1>3, <2>1, CoversGrow, VersionTypes
       DEF AllKeep, Keeps, Recording, Recorded, VersionsCovered, NoneBlank, Covers, Covered
  <2>3. ASSUME NEW r \in Requests, Updates(r)', NEW d \in request'[r].ask.docs
        PROVE  Known(r, d)'
    <3>1. Keeps(doc[d], doc'[d])
      BY <1>2, <1>3, <2>3 DEF AllKeep
    <3>2. /\ doc'[d].state # "none"
          /\ ~doc'[d].raced => ~doc[d].raced /\ doc'[d].version = doc[d].version
      BY <1>2, <2>3, <3>1 DEF Keeps, Known
    <3> QED
      BY <1>1, <1>2, <2>1, <2>3, <3>2, KnownOn
  <2> QED
    <3>1. VersionsCovered'
      BY <2>2 DEF VersionsCovered
    <3>2. NoneBlank'
      BY <2>2 DEF NoneBlank
    <3>3. AllKnown'
      BY <2>3 DEF AllKnown
    <3> QED
      BY <3>1, <3>2, <3>3 DEF Recorded
<1>4. ASSUME NEW w \in Docs, Creates(s, w)
      PROVE  Recorded'
  <2>1. Grow
    BY <1>4 DEF Creates, Grow
  <2>2. doc[w].state = "none" /\ doc'[w].state = "live" /\ doc'[w].version = 1
        /\ \A e \in Docs \ {w} : Keeps(doc[e], doc'[e]) /\ rows' = rows
    BY <1>4 DEF Creates
  <2>3. \A d \in Docs : /\ Covers(d, doc[d].version - 1)'
                        /\ doc'[d].state = "none" => rows'[d] = <<>>
    <3> SUFFICES ASSUME NEW d \in Docs
                 PROVE  /\ Covers(d, doc[d].version - 1)'
                        /\ doc'[d].state = "none" => rows'[d] = <<>>
      OBVIOUS
    <3>1. CASE d = w
      BY <2>2, <3>1 DEF Covers
    <3>2. CASE d # w
      BY <1>1, <2>1, <2>2, <3>2, CoversGrow, VersionTypes
      DEF Keeps, Recording, Recorded, VersionsCovered, NoneBlank, Covers, Covered
    <3> QED
      BY <3>1, <3>2
  <2>4. ASSUME NEW r \in Requests, Updates(r)', NEW d \in request'[r].ask.docs
        PROVE  Known(r, d)'
    <3>1. d # w /\ d \in Docs
      BY <1>2, <2>2, <2>4 DEF Known
    <3>2. /\ doc'[d].state # "none"
          /\ ~doc'[d].raced => ~doc[d].raced /\ doc'[d].version = doc[d].version
      BY <1>2, <2>2, <2>4, <3>1 DEF Keeps, Known
    <3> QED
      BY <1>1, <1>2, <2>1, <2>4, <3>2, KnownOn
  <2> QED
    <3>1. VersionsCovered'
      BY <2>3 DEF VersionsCovered
    <3>2. NoneBlank'
      BY <2>3 DEF NoneBlank
    <3>3. AllKnown'
      BY <2>4 DEF AllKnown
    <3> QED
      BY <3>1, <3>2, <3>3 DEF Recorded
<1>5. ASSUME NEW w \in Docs, Changes(s, w), request[s].pc \in {"write", "commit"}
      PROVE  Recorded'
  <2>1. Updates(s) /\ Known(s, w) /\ request[s].version \in Nat
    BY <1>1, <1>5, VersionTypes DEF Changes, Updates, Recording, Recorded, AllKnown
  <2>2. /\ rows' = rows \/ (request[s].pc = "commit" /\ rows'[w] = Append(rows[w], request[s].version))
        /\ \A e \in Docs \ {w} : rows'[e] = rows[e]
    BY <1>1, <1>5 DEF Changes, TypeInv, Types
  <2>3. Grow
    BY <2>1, <2>2 DEF Grow
  <2>4. \A e \in Docs \ {w} : Keeps(doc[e], doc'[e])
    BY <1>5 DEF Changes
  <2>5. /\ doc'[w].state # "none" /\ (doc[w].raced => doc'[w].raced)
        /\ request[s].alone \/ doc'[w] = doc[w] \/ doc'[w].raced
    BY <1>5, <2>1 DEF Changes, Known
  <2>6. Covers(w, doc[w].version - 1)'
    <3>1. CASE request[s].pc = "write"
      <4>1. rows' = rows /\ Covers(w, request[s].version)
        BY <1>5, <2>1, <3>1 DEF Changes, Known
      <4>2. doc'[w].version = request[s].version + 1 \/ doc'[w].version = doc[w].version
        BY <1>5, <3>1 DEF Changes
      <4>3. Covers(w, doc[w].version - 1)
        BY DEF Recording, Recorded, VersionsCovered, NoneBlank, AllKnown
      <4>5. doc[w].version \in Nat /\ (request[s].version + 1) - 1 = request[s].version
        BY <1>1, <2>1, VersionTypes
      <4>6. Covers(w, doc'[w].version - 1)
        BY <4>1, <4>2, <4>3, <4>5
      <4>7. doc'[w].version - 1 \in Int
        BY <2>1, <4>2, <4>5
      <4> QED
        BY <4>1, <4>6 DEF Covers
    <3>2. CASE request[s].pc = "commit"
      <4>1. rows'[w] = Append(rows[w], request[s].version) /\ doc'[w].version = request[s].version + 1
        BY <1>1, <1>5, <3>2 DEF Changes, TypeInv, Types
      <4>2. Covered(w, request[s].version)
        BY <1>1, <2>1, <4>1, CoversOn DEF Known
      <4>3. \A v \in 1 .. request[s].version : \E i \in DOMAIN rows'[w] : rows'[w][i] = v
        BY <4>2 DEF Covered
      <4> QED
        BY <2>1, <4>1, <4>3 DEF Covers
    <3> QED
      BY <1>5, <3>1, <3>2
  <2>7. \A d \in Docs : /\ Covers(d, doc[d].version - 1)'
                        /\ doc'[d].state = "none" => rows'[d] = <<>>
    <3> SUFFICES ASSUME NEW d \in Docs, d # w
                 PROVE  /\ Covers(d, doc[d].version - 1)'
                        /\ doc'[d].state = "none" => rows'[d] = <<>>
      BY <2>5, <2>6
    <3> QED
      BY <1>1, <2>2, <2>3, <2>4, CoversGrow, VersionTypes
      DEF Keeps, Recording, Recorded, VersionsCovered, NoneBlank, Covers, Covered
  <2>8. ASSUME NEW r \in Requests, Updates(r)', NEW d \in request'[r].ask.docs
        PROVE  Known(r, d)'
    <3>1. /\ doc'[d].state # "none"
          /\ ~doc'[d].raced => ~doc[d].raced /\ doc'[d].version = doc[d].version
      BY <1>2, <2>4, <2>5, <2>8 DEF Keeps, Known
    <3> QED
      BY <1>1, <1>2, <2>3, <2>8, <3>1, KnownOn
  <2> QED
    <3>1. VersionsCovered'
      BY <2>7 DEF VersionsCovered
    <3>2. NoneBlank'
      BY <2>7 DEF NoneBlank
    <3>3. AllKnown'
      BY <2>8 DEF AllKnown
    <3> QED
      BY <3>1, <3>2, <3>3 DEF Recorded
<1> QED
  BY <1>3, <1>4, <1>5

(* The lookups, the checks and the rows of an update.                      *)
LEMMA WaitRecords ==
  ASSUME Recording, NEW s \in Requests, ~AtRest(s), kind' = kind, ~AtRest(s)',
         Waited(s), request'[s].ask = request[s].ask,
         \A r \in Requests \ {s} : Same(request'[r], request[r])
  PROVE  Recorded'
<1>1. TypeInv /\ doc' = doc
  BY DEF Recording, Waited, Quietly
<1>2. rows' = rows \/ Records(s)
  BY DEF Waited
<1>3. Records(s) =>
        /\ Updates(s)
        /\ \A d \in request[s].ask.docs :
             d \in Docs /\ Known(s, d) /\ rows'[d] = Append(rows[d], request[s].version)
        /\ \A d \in Docs \ request[s].ask.docs : rows'[d] = rows[d]
  <2> SUFFICES ASSUME Records(s)
               PROVE  /\ Updates(s)
                      /\ \A d \in request[s].ask.docs :
                           d \in Docs /\ Known(s, d) /\ rows'[d] = Append(rows[d], request[s].version)
                      /\ \A d \in Docs \ request[s].ask.docs : rows'[d] = rows[d]
    OBVIOUS
  <2>1. Updates(s)
    BY DEF Records, Updates, Recording, TypeInv, Proper, Belongs
  <2>2. PICK d \in Docs : request[s].ask.docs = {d}
    BY <1>1, <2>1, VersionTypes
  <2>3. PICK e \in request[s].found : rows' = [rows EXCEPT ![e] = Append(@, request[s].version)]
    BY DEF Records
  <2>4. e = d
    BY <2>2, <2>3 DEF Recording, FoundAsked
  <2>5. Known(s, d)
    BY <2>1, <2>2 DEF Recording, Recorded, AllKnown
  <2> QED
    BY <1>1, <2>1, <2>2, <2>3, <2>4, <2>5 DEF TypeInv, Types
<1>4. Grow
  BY <1>1, <1>2, <1>3, VersionTypes DEF Grow
<1>5. VersionsCovered'
  <2> SUFFICES ASSUME NEW d \in Docs PROVE Covers(d, doc[d].version - 1)'
    BY DEF VersionsCovered
  <2>1. Covers(d, doc[d].version - 1) /\ doc[d].version - 1 \in Int
    BY <1>1, VersionTypes DEF Recording, Recorded, VersionsCovered
  <2>2. Covered(d, doc[d].version - 1)
    BY <1>1, <1>4, <2>1, CoversGrow
  <2> QED
    BY <1>1, <2>2 DEF Covers, Covered
<1>6. NoneBlank'
  <2> SUFFICES ASSUME NEW d \in Docs, doc[d].state = "none" PROVE rows'[d] = <<>>
    BY <1>1 DEF NoneBlank
  <2>1. rows'[d] = rows[d]
    BY <1>2, <1>3 DEF Known
  <2> QED
    BY <2>1 DEF Recording, Recorded, NoneBlank
<1>7. AllKnown'
  <2> SUFFICES ASSUME NEW r \in Requests, Updates(r)', NEW d \in request'[r].ask.docs
               PROVE  Known(r, d)'
    BY DEF AllKnown
  <2>1. CASE r # s
    <3>1. Same(request'[r], request[r])
      BY <2>1
    <3>2. Updates(r) /\ d \in request[r].ask.docs
      BY <3>1 DEF Updates, Same
    <3>3. Known(r, d) /\ d \in Docs
      BY <1>1, <3>2, VersionTypes DEF Recording, Recorded, AllKnown
    <3> QED
      BY <1>1, <1>4, <3>1, <3>3, KnownOn DEF Known, Same
  <2>2. CASE r = s
    <3> DEFINE p == request[s] q == request'[s]
    <3>1. /\ p.ask.call = "update" /\ d \in p.ask.docs /\ d \in Docs
          /\ q.pc \in {"check", "record", "write", "begin", "commit"}
          /\ service.history \in {"after", "transaction"} /\ p.version \in Nat
      BY <1>1, <2>2, VersionTypes, KindTypes DEF Updates, TypeInv, Recording, Services
    <3>2. \A checked \in BOOLEAN : Prepare("update", checked, p.ask.value) # "write"
      BY <3>1 DEF Prepare, Elects
    <3>3. CASE Finds(s)
      <4>1. q.pc # "write" /\ doc[d].state \in {"live", "deleted"} /\ q.version = doc[d].version
        BY <3>1, <3>2, <3>3 DEF Finds, Recording
      <4>2. Covers(d, doc[d].version - 1)'
        BY <1>5, <3>1 DEF VersionsCovered
      <4> QED
        BY <1>1, <2>2, <4>1, <4>2 DEF Known, Covers
    <3>4. ASSUME p.pc \in {"check", "record", "begin"}, q.version = p.version,
                 q.pc = "write" => Covered(d, p.version)
          PROVE  Known(s, d)'
      <4>1. Known(s, d)
        BY <3>1, <3>4 DEF Updates, Recording, Recorded, AllKnown
      <4>2. Covered(d, p.version - 1)
        BY <1>1, <1>4, <3>1, <4>1, CoversGrow DEF Known
      <4> QED
        BY <1>1, <3>4, <4>1, <4>2 DEF Known, Covers, Covered
    <3>5. CASE Checks(s)
      BY <2>2, <3>1, <3>2, <3>4, <3>5 DEF Checks
    <3>6. CASE Records(s)
      <4>1. Covered(d, p.version)
        BY <1>1, <1>3, <3>1, <3>6, CoversOn DEF Known
      <4> QED
        BY <2>2, <3>4, <3>6, <4>1 DEF Records
    <3>7. CASE Begins(s)
      BY <2>2, <3>4, <3>7 DEF Begins
    <3>8. ~Reads(s) /\ ~Loads(s)
      BY <3>1 DEF Reads, Loads, Recording, TypeInv, Proper, Belongs
    <3> QED
      BY <2>2, <3>3, <3>5, <3>6, <3>7, <3>8 DEF Waited
  <2> QED
    BY <2>1, <2>2
<1> QED
  BY <1>5, <1>6, <1>7 DEF Recorded

LEMMA RecordedNext ==
  ASSUME TypeInv, Exclusive, FoundAsked, Recorded, [Next]_vars
  PROVE  Recorded'
<1>1. TypeInv'
  BY NextTypes
<1>2. CASE UNCHANGED vars
  BY <1>2 DEF vars, service, Recorded, VersionsCovered, NoneBlank, AllKnown, Updates, Known, Covers
<1>3. ASSUME UNCHANGED <<kind, doc, rows>>,
             \A r \in Requests : Updates(r)' =>
               /\ Updates(r) /\ request'[r].ask = request[r].ask
               /\ request'[r].pc = request[r].pc /\ request'[r].version = request[r].version
      PROVE  Recorded'
  <2> SUFFICES ASSUME service.history # "none" PROVE VersionsCovered' /\ NoneBlank' /\ AllKnown'
    BY <1>3 DEF service, Recorded
  <2>1. VersionsCovered' /\ NoneBlank'
    BY <1>3 DEF Recorded, VersionsCovered, NoneBlank, Covers
  <2>2. \A r \in Requests : Updates(r)' => \A d \in request'[r].ask.docs : Known(r, d)'
    BY <1>3 DEF Recorded, AllKnown, Known, Covers
  <2> QED
    BY <2>1, <2>2 DEF AllKnown
<1>4. ASSUME NEW s \in Requests, Step(s)
      PROVE  Recorded'
  <2>1. /\ ~AtRest(s) /\ kind' = kind
        /\ \A r \in Requests \ {s} : Same(request'[r], request[r])
    BY <1>4, StepKinds
  <2>2. CASE service.history = "none"
    BY <2>1, <2>2 DEF Recorded, service
  <2>3. CASE service.history # "none"
    <3>1. Recording
      BY <2>3 DEF Recording
    <3>2. CASE UNCHANGED <<doc, rows>> /\ AtRest(s)'
      <4>1. ~Updates(s)'
        BY <3>2 DEF Updates, AtRest, Ended
      <4>2. \A r \in Requests : Updates(r)' =>
              /\ Updates(r) /\ request'[r].ask = request[r].ask
              /\ request'[r].pc = request[r].pc /\ request'[r].version = request[r].version
        BY <2>1, <4>1 DEF Same, Updates
      <4> QED
        BY <1>3, <2>1, <3>2, <4>2
    <3> QED
      BY <1>1, <1>4, <2>1, <3>1, <3>2, StepKinds, WriteRecords, WaitRecords
  <2> QED
    BY <2>2, <2>3
<1>5. ASSUME NEW s \in Requests, Calls(s)
      PROVE  Recorded'
  <2>1. PICK ask \in Asks : Carries(ask) /\ Arrive(s, ask)
    BY <1>5, CallsCarry DEF TypeInv
  <2>2. UNCHANGED <<kind, doc, rows>>
    BY <2>1 DEF Arrive
  <2>3. CASE service.history = "none"
    BY <2>2, <2>3 DEF Recorded, service
  <2>4. CASE service.history # "none"
    <3>1. ~Updates(s)'
      <4>1. request'[s].pc = Entry(ask) /\ request'[s].ask = ask
        BY <2>1, ArriveTypes
      <4>2. "update" \in service.looks
        BY <2>4, KindsAssumption DEF TypeInv, Types, service
      <4>3. ask.call = "update" => Entry(ask) = "find"
        BY <4>2 DEF Entry
      <4> QED
        BY <4>1, <4>3 DEF Updates
    <3>2. ASSUME NEW r \in Requests \ {s}
          PROVE  /\ request'[r].ask = request[r].ask
                 /\ request'[r].pc = request[r].pc /\ request'[r].version = request[r].version
      <4>1. /\ AtRest(r) => request'[r] = request[r]
            /\ ~AtRest(r) => request'[r] = [request[r] EXCEPT !.alone = FALSE]
        BY <2>1, ArriveTypes
      <4> QED
        BY <4>1 DEF TypeInv, Types, RequestStates
    <3>3. \A r \in Requests : Updates(r)' =>
              /\ Updates(r) /\ request'[r].ask = request[r].ask
              /\ request'[r].pc = request[r].pc /\ request'[r].version = request[r].version
      BY <3>1, <3>2 DEF Updates
    <3> QED
      BY <1>3, <2>2, <3>3
  <2> QED
    BY <2>3, <2>4
<1> QED
  BY <1>2, <1>4, <1>5 DEF Next

LEMMA OnceNext ==
  ASSUME TypeInv, Recorded, Once, [Next]_vars
  PROVE  Once'
<1>1. kind' = kind
  <2>1. ASSUME NEW r \in Requests, Step(r) PROVE kind' = kind
    BY <2>1, StepTypes
  <2>2. ASSUME NEW r \in Requests, Calls(r) PROVE kind' = kind
    BY <2>2, CallsCarry DEF Arrive, TypeInv
  <2> QED
    BY <2>1, <2>2 DEF Next, vars
<1> SUFFICES ASSUME Elects, NEW d \in Docs, ~doc'[d].raced
             PROVE  /\ \A n \in DOMAIN rows'[d] : rows'[d][n] < doc'[d].version
                    /\ \A m, n \in DOMAIN rows'[d] : rows'[d][m] = rows'[d][n] => m = n
  BY <1>1 DEF Once, Elects, service
<1>2. /\ VersionsCovered /\ NoneBlank /\ AllKnown
      /\ rows[d] \in Seq(Nat) /\ doc[d].version \in Nat
  BY DEF Recorded, Elects, TypeInv, Types, DocStates
<1>3. CASE Keeps(doc[d], doc'[d]) /\ rows'[d] = rows[d]
  BY <1>3 DEF Once, Keeps
<1>4. CASE UNCHANGED doc /\ \E r \in Requests : Record(r)
  <2>1. PICK r \in Requests : request[r].pc = "record"
    BY <1>4 DEF Record
  <2> QED
    BY <2>1 DEF TypeInv, Proper, Belongs, AtRest, Ended, Elects
<1>5. ASSUME NEW r \in Requests, NEW w \in Docs, request[r].pc \in {"write", "commit"}, Creates(r, w)
      PROVE  /\ \A n \in DOMAIN rows'[d] : rows'[d][n] < doc'[d].version
             /\ \A m, n \in DOMAIN rows'[d] : rows'[d][m] = rows'[d][n] => m = n
  <2>1. d = w => rows'[d] = <<>>
    BY <1>2, <1>5 DEF NoneBlank, Creates
  <2>2. d # w => Keeps(doc[d], doc'[d]) /\ rows'[d] = rows[d]
    BY <1>5 DEF Creates
  <2> QED
    BY <1>3, <2>1, <2>2
<1>6. ASSUME NEW r \in Requests, NEW w \in Docs, request[r].pc \in {"write", "commit"}, Changes(r, w)
      PROVE  /\ \A n \in DOMAIN rows'[d] : rows'[d][n] < doc'[d].version
             /\ \A m, n \in DOMAIN rows'[d] : rows'[d][m] = rows'[d][n] => m = n
  <2>1. d # w => Keeps(doc[d], doc'[d]) /\ rows'[d] = rows[d]
    BY <1>6 DEF Changes, TypeInv, Types
  <2>2. CASE d = w /\ request[r].pc = "write"
    <3>1. rows' = rows /\ doc'[d].version = doc[d].version /\ ~doc[d].raced
      BY <1>6, <2>2 DEF Changes, Elects
    <3> QED
      BY <3>1 DEF Once
  <2>3. CASE d = w /\ request[r].pc = "commit"
    <3> DEFINE version == request[r].version
    <3>1. ~doc[d].raced /\ doc'[d].version = version + 1 /\ rows'[d] = Append(rows[d], version)
      BY <1>2, <1>6, <2>3 DEF Changes, TypeInv, Types
    <3>2. Known(r, d) /\ version \in Nat
      BY <1>2, <1>6, <2>3, VersionTypes DEF AllKnown, Updates, Changes
    <3>3. version = doc[d].version
      BY <3>1, <3>2 DEF Known
    <3>4. /\ \A n \in DOMAIN rows[d] : rows[d][n] < version
          /\ \A m, n \in DOMAIN rows[d] : rows[d][m] = rows[d][n] => m = n
      BY <3>1, <3>3 DEF Once
    <3> HIDE DEF version
    <3>5. \A n \in DOMAIN rows'[d] :
            \/ n = Len(rows[d]) + 1 /\ rows'[d][n] = version
            \/ n \in DOMAIN rows[d] /\ rows'[d][n] = rows[d][n]
      BY <1>2, <3>1
    <3>6. \A n \in DOMAIN rows[d] : rows[d][n] \in Nat
      BY <1>2
    <3> QED
      BY <3>1, <3>2, <3>4, <3>5, <3>6
  <2> QED
    BY <1>3, <1>6, <2>1, <2>2, <2>3
<1>7. CASE AllKeep
  BY <1>3, <1>7 DEF AllKeep
<1> QED
  BY <1>4, <1>5, <1>6, <1>7, Effects

(* Every version that a document has left has a row, for every kind that   *)
(* keeps a history, and a setting that no two requests wrote at once has   *)
(* one row of each: the row is in the transaction of the update, which     *)
(* writes the version after the one it has read.                           *)
THEOREM VersionsAreRecorded == Spec => []VersionsRecorded
<1>1. Init => VersionInv
  <2> SUFFICES ASSUME Init PROVE VersionInv
    OBVIOUS
  <2>1. \A r \in Requests : AtRest(r) /\ ~Updates(r)
    BY DEF Init, AtRest, Fresh, Updates
  <2>2. \A d \in Docs : doc[d].version = 1 /\ rows[d] = <<>>
    <3>1. rows = [d \in Docs |-> <<>>]
      BY DEF Init
    <3>2. PICK state, value, only : doc = Earlier(state, value, only)
      BY DEF Init
    <3> QED
      BY <3>1, <3>2 DEF Earlier
  <2>3. Recorded
    BY <2>1, <2>2 DEF Recorded, VersionsCovered, NoneBlank, AllKnown, Covers
  <2>4. Once
    BY <2>2 DEF Once
  <2> QED
    BY <2>1, <2>3, <2>4, InitTypes DEF VersionInv, Exclusive, FoundAsked
<1>2. VersionInv /\ [Next]_vars => VersionInv'
  BY NextTypes, ExclusiveNext, FoundAskedNext, RecordedNext, OnceNext DEF VersionInv
<1>3. VersionInv => VersionsRecorded
  <2> SUFFICES ASSUME VersionInv, NEW d \in Docs, service.history # "none"
               PROVE  /\ \A v \in 1 .. doc[d].version - 1 : \E n \in DOMAIN rows[d] : rows[d][n] = v
                      /\ Elects /\ ~doc[d].raced =>
                           \A m, n \in DOMAIN rows[d] : rows[d][m] = rows[d][n] => m = n
    BY DEF VersionsRecorded
  <2>1. Covers(d, doc[d].version - 1)
    BY DEF VersionInv, Recorded, VersionsCovered
  <2> QED
    BY <2>1 DEF Covers, VersionInv, Once
<1> QED
  BY <1>1, <1>2, <1>3, PTL DEF Spec

-----------------------------------------------------------------------------
(* Values that two documents share *)

(* A request alone that is past its check writes a value of its own.       *)
Unshared ==
  service.checks # {} /\ ~kind.schema.unique =>
    \A r \in Requests :
      (/\ request[r].alone /\ request[r].pc \in {"record", "write", "begin", "commit"}
       /\ request[r].ask.call \in {"create", "update"} /\ request[r].ask.value # NoValue) =>
           \A e \in Docs \ request[r].ask.docs : Live(e) => doc[e].value # request[r].ask.value

LEMMA KindNext ==
  ASSUME TypeInv, [Next]_vars
  PROVE  kind' = kind
<1>1. ASSUME NEW r \in Requests, Step(r) PROVE kind' = kind
  BY <1>1, StepTypes
<1>2. ASSUME NEW r \in Requests, Calls(r) PROVE kind' = kind
  BY <1>2, CallsCarry DEF Arrive, TypeInv
<1> QED
  BY <1>1, <1>2 DEF Next, vars

LEMMA UnsharedNext == TypeInv /\ Exclusive /\ Unshared /\ [Next]_vars => Unshared'
<1> SUFFICES ASSUME TypeInv, Exclusive, Unshared, [Next]_vars,
                    service.checks # {}, ~kind.schema.unique, NEW r \in Requests,
                    request'[r].alone, request'[r].pc \in {"record", "write", "begin", "commit"},
                    request'[r].ask.call \in {"create", "update"}, request'[r].ask.value # NoValue,
                    NEW e \in Docs \ request'[r].ask.docs, Live(e)'
             PROVE  doc'[e].value # request'[r].ask.value
  BY KindNext DEF Unshared, service
<1>1. ~AtRest(r)'
  BY DEF AtRest, Ended
<1>2. {"create", "update"} \subseteq service.checks /\ "update" \in service.looks
  BY KindsAssumption DEF TypeInv, Types, service
<1>3. \A call \in {"create", "update"}, value \in Values :
        Prepare(call, FALSE, value) = "check"
  BY <1>2, CollectionsAssumption DEF Prepare
<1>4. CASE UNCHANGED vars
  BY <1>4 DEF vars, Unshared, Live
<1>5. CASE Step(r)
  <2>1. Waited(r) /\ request'[r].ask = request[r].ask
    BY <1>1, <1>5, StepMoves
  <2>2. doc' = doc /\ request[r].alone /\ ~AtRest(r) /\ request[r].ask.value \in Values
    BY <1>1, <1>5, <2>1, StepMoves, StepCases
    DEF Waited, Quietly, TypeInv, Types, RequestStates, Asks
  <2>3. ~Finds(r)
    BY <1>3, <2>1, <2>2 DEF Finds, TypeInv, Proper, Belongs
  <2>4. ~Loads(r)
    BY <2>1, <2>2 DEF Loads, TypeInv, Proper, Belongs
  <2>5. CASE Checks(r)
    BY <2>1, <2>2, <2>5 DEF Checks, Live
  <2>6. CASE Records(r) \/ Begins(r)
    BY <2>1, <2>2, <2>6 DEF Records, Begins, Unshared, Live
  <2> QED
    BY <2>1, <2>3, <2>4, <2>5, <2>6 DEF Waited, Reads
<1>6. CASE Arrives(r)
  <2>1. PICK ask \in Asks : Carries(ask) /\ request'[r].pc = Entry(ask) /\ request'[r].ask = ask
    BY <1>6, ArriveTypes DEF Arrives
  <2>2. ask.call = "update" => Entry(ask) = "find"
    BY <1>2 DEF Entry
  <2>3. ask.call = "create" => Entry(ask) \in {"find", "check"}
    BY <1>3, <2>1 DEF Entry, Carries
  <2> QED
    BY <2>1, <2>2, <2>3
<1> QED
  BY <1>1, <1>4, <1>5, <1>6, AloneMoves

SharedInv == TypeInv /\ Exclusive /\ Unshared /\ SharedOnlyByRaceOrRestore

(* Two documents that share a value *)
Sharing(d, e) ==
  doc[d].value = doc[e].value /\ {doc[d].state, doc[e].state} \subseteq {"live", "deleted"}
Excused(d, e) ==
  /\ ~kind.schema.unique
  /\ Live(d) /\ Live(e) /\ service.checks # {} =>
       \E x \in {d, e} : doc[x].raced \/ doc[x].restored

(* Two documents share a value only where the code leaves room for it: a   *)
(* race between the check and the write, or a restore, which checks        *)
(* nothing; where there is a unique index they never do.                   *)
THEOREM SharedByRaceOrRestore == Spec => []SharedOnlyByRaceOrRestore
<1>1. Init => SharedInv
  <2> SUFFICES ASSUME Init PROVE SharedInv
    OBVIOUS
  <2>1. \A r \in Requests : AtRest(r) /\ request[r].pc = "idle"
    BY DEF Init, AtRest, Fresh
  <2>2. SharedOnlyByRaceOrRestore
    <3>1. PICK state \in [Docs -> {"none", "live", "deleted"}], value \in [Docs -> Values],
               only \in {{}} \cup {{d} : d \in Docs} :
            /\ \A d, e \in Docs :
                 d # e /\ state[d] # "none" /\ state[e] # "none" => value[d] # value[e]
            /\ doc = Earlier(state, value, only)
      BY DEF Init
    <3>2. \A d \in Docs : doc[d].state = state[d] /\ doc[d].value = value[d]
      BY <3>1 DEF Earlier
    <3> QED
      BY <3>1, <3>2 DEF SharedOnlyByRaceOrRestore
  <2> QED
    BY <2>1, <2>2, InitTypes DEF SharedInv, Exclusive, Unshared
<1>2. SharedInv /\ [Next]_vars => SharedInv'
  <2> SUFFICES ASSUME SharedInv, [Next]_vars PROVE SharedInv'
    OBVIOUS
  <2>1. kind' = kind /\ service' = service
    BY KindNext DEF SharedInv, service
  <2> SUFFICES SharedOnlyByRaceOrRestore'
    BY NextTypes, ExclusiveNext, UnsharedNext DEF SharedInv
  <2> SUFFICES ASSUME NEW d \in Docs, NEW e \in Docs \ {d}, Sharing(d, e)'
               PROVE  Excused(d, e)'
    BY DEF SharedOnlyByRaceOrRestore, Sharing, Excused
  <2>2. ASSUME Sharing(d, e),
               \A x \in {d, e} : Live(x)' => Live(x) \/ doc'[x].restored,
               \A x \in {d, e} : /\ doc[x].raced => doc'[x].raced
                                 /\ doc[x].restored => doc'[x].restored
        PROVE  Excused(d, e)'
    <3>1. Excused(d, e)
      BY <2>2 DEF SharedInv, SharedOnlyByRaceOrRestore, Sharing, Excused
    <3> QED
      BY <2>1, <2>2, <3>1 DEF Excused
  <2>3. CASE Keeps(doc[d], doc'[d]) /\ Keeps(doc[e], doc'[e])
    BY <2>2, <2>3 DEF Keeps, Sharing, Live
  <2>4. ASSUME ~(Keeps(doc[d], doc'[d]) /\ Keeps(doc[e], doc'[e]))
        PROVE  Excused(d, e)'
    <3>1. PICK r \in Requests, w \in Docs : /\ Step(r) /\ request[r].pc \in {"write", "commit"}
                                            /\ Creates(r, w) \/ Changes(r, w)
      <4>1. ~UNCHANGED doc
        BY <2>4, DocTypes DEF SharedInv, TypeInv
      <4> QED
        BY <2>4, <4>1, Effects DEF SharedInv, AllKeep
    <3>2. PICK o \in {d, e} : w \in {d, e} /\ o # w
      BY <2>4, <3>1 DEF Creates, Changes
    <3>3. /\ Keeps(doc[o], doc'[o]) /\ doc'[o].state = doc[o].state /\ o \in Docs
          /\ doc[o].value = doc'[w].value /\ doc[o].state \in {"live", "deleted"}
      BY <3>1, <3>2 DEF Creates, Changes, Keeps, Sharing
    <3> DEFINE ask == request[r].ask
    <3>4. ASSUME ~Refused(w, ask.value), doc'[w].value = ask.value, w \notin ask.docs \/ ask.docs = {w},
                 request[r].alone => ask.call \in {"create", "update"} /\ ask.value # NoValue,
                 request[r].alone \/ doc'[w].raced, o \notin ask.docs
          PROVE  Excused(d, e)'
      <4>1. ~kind.schema.unique
        BY <3>2, <3>3, <3>4 DEF Refused
      <4>2. ASSUME Live(o)', service.checks # {}
            PROVE  doc'[w].raced
        BY <3>1, <3>3, <3>4, <4>1, <4>2 DEF SharedInv, Unshared, Live
      <4> QED
        BY <2>1, <3>2, <4>1, <4>2 DEF Excused
    <3>5. CASE Creates(r, w)
      <4>1. ask.docs = {} /\ ask.value \in Values
        <5>1. ~AtRest(r) /\ ask.call = "create"
          BY <3>1, <3>5 DEF Creates, AtRest, Ended
        <5> QED
          BY <5>1 DEF SharedInv, TypeInv, Proper, Carries
      <4> QED
        BY <3>4, <3>5, <4>1, CollectionsAssumption DEF Creates
    <3>6. CASE Changes(r, w)
      <4>1. CASE doc'[w].value = doc[w].value
        <5>1. Sharing(d, e)
          BY <3>2, <3>3, <3>6, <4>1 DEF Changes, Sharing
        <5>2. \A x \in {d, e} : /\ doc[x].raced => doc'[x].raced
                                /\ doc[x].restored => doc'[x].restored
                                /\ Live(x)' => Live(x)
          BY <3>2, <3>3, <3>6 DEF Changes, Keeps, Live
        <5> QED
          BY <2>2, <5>1, <5>2
      <4>2. CASE doc'[w].value # doc[w].value
        BY <3>2, <3>4, <3>6, <4>2 DEF Changes
      <4> QED
        BY <4>1, <4>2
    <3> QED
      BY <3>1, <3>5, <3>6
  <2> QED
    BY <2>3, <2>4
<1>3. SharedInv => SharedOnlyByRaceOrRestore
  BY DEF SharedInv
<1> QED
  BY <1>1, <1>2, <1>3, PTL DEF Spec

-----------------------------------------------------------------------------
(* Cached copies *)

(* Only the keys of the service are cached, and a reader alone stores what *)
(* the database answers.                                                   *)
CachedKeys == \A k \in Keys : cached[k] # {} => k[1] \in service.keys
FreshAnswer ==
  \A r \in Requests : request[r].alone /\ request[r].pc = "store" =>
    request[r].answer \in Answers(request[r].ask.key)

LEMMA AnswersOn ==
  ASSUME doc' = doc, NEW k \in Keys
  PROVE  Answers(k)' = Answers(k)
BY DEF Answers, Live, Copy

(* Only a clearing request has keys to clear, and keeps them. *)
LEMMA ClearsOn ==
  ASSUME TypeInv, NEW s \in Requests, Step(s), ~Clear(s)
  PROVE  \A r \in Requests : request[r].clears \subseteq request'[r].clears
<1>1. ~AtRest(s) /\ Others(s)
  BY StepCases, StepTypes
<1>2. request[s].pc # "clear"
  BY DEF Step, Find, Check, Insert, Record, Update, Load, Delete, Purge, Restore,
         WriteMany, Begin, Commit, Clear, Get, Fetch, Store
<1>3. request[s].clears = {}
  BY <1>1, <1>2 DEF TypeInv, Proper, Belongs
<1> QED
  BY <1>1, <1>3 DEF Others, Same

LEMMA CachedKeysNext == TypeInv /\ CachedKeys /\ [Next]_vars => CachedKeys'
<1> SUFFICES ASSUME TypeInv, CachedKeys, [Next]_vars, NEW k \in Keys, cached'[k] # {},
                    cached'[k] # cached[k]
             PROVE  k[1] \in service.keys
  BY KindNext DEF CachedKeys, service, Keys
<1>1. PICK r \in Requests : Clear(r) \/ Store(r)
  <2>1. ASSUME NEW r \in Requests, Step(r), cached' # cached PROVE Clear(r) \/ Store(r)
    <3>1. CASE Writing(r) /\ request[r].pc \in {"load", "write", "commit"}
      BY <2>1, <3>1, WritingTypes
    <3>2. CASE Waits(r)
      BY <2>1, <3>2, WaitsTypes DEF Quietly
    <3> QED
      BY <2>1, <3>1, <3>2, StepCases DEF Refuses, Loads
  <2>2. ASSUME NEW r \in Requests, Calls(r) PROVE cached' = cached
    BY <2>2, CallsCarry DEF Arrive, TypeInv
  <2> QED
    BY <2>1, <2>2 DEF Next, vars
<1>2. CASE Clear(r)
  BY <1>2 DEF Clear, TypeInv, Types
<1>3. CASE Store(r)
  <2>1. request[r].pc = "store" /\ ~AtRest(r) /\ k = request[r].ask.key
    BY <1>3 DEF Store, AtRest, Ended, TypeInv, Types
  <2> QED
    BY <2>1 DEF TypeInv, Proper, Belongs, Carries
<1> QED
  BY <1>1, <1>2, <1>3

LEMMA FreshAnswerNext == TypeInv /\ Exclusive /\ FreshAnswer /\ [Next]_vars => FreshAnswer'
<1> SUFFICES ASSUME TypeInv, Exclusive, FreshAnswer, [Next]_vars, NEW r \in Requests,
                    request'[r].alone, request'[r].pc = "store"
             PROVE  (request[r].answer \in Answers(request[r].ask.key))'
  BY DEF FreshAnswer
<1>1. ~AtRest(r)'
  BY DEF AtRest, Ended
<1>2. CASE UNCHANGED vars
  BY <1>2 DEF vars, FreshAnswer, Answers, Live, Copy
<1>3. CASE Step(r)
  <2>1. Waited(r) /\ request'[r].ask = request[r].ask
    BY <1>1, <1>3, StepMoves
  <2>2. request'[r].pc = "write" \/ ~Loads(r)
    BY DEF Loads, Become, TypeInv, Types, RequestStates
  <2>3. request'[r].answer \in Answers(request[r].ask.key) /\ doc' = doc
    BY <2>1, <2>2 DEF Waited, Finds, Checks, Records, Begins, Reads, Prepare, Quietly
  <2>4. request[r].ask.key \in Keys
    BY DEF TypeInv, Types, RequestStates, Asks
  <2> QED
    BY <2>1, <2>3, <2>4 DEF Answers, Live, Copy
<1>4. CASE Arrives(r)
  <2>1. PICK ask \in Asks : request'[r].pc = Entry(ask)
    BY <1>4, ArriveTypes DEF Arrives
  <2> QED
    BY <2>1 DEF Entry, Prepare
<1> QED
  BY <1>1, <1>2, <1>3, <1>4, AloneMoves

(* A write takes the value w from a document, or demotes one that has it.  *)
Moves(new, w) ==
  \E d \in Docs :
    /\ doc[d].value = w
    /\ new[d].value # doc[d].value \/ (doc[d].initial /\ ~new[d].initial)

(* A write that clears the key of one value leaves what the keys of the    *)
(* other values stand for, but for those it moves.                         *)
LEMMA OwnAnswers ==
  ASSUME TypeInv, NEW r \in Requests, Writing(r), request[r].ask.call \in Owns,
         store.erase = "update", NEW w \in Values
  PROVE  \E new \in [Docs -> DocStates] : \E v :
           /\ Put(r, new, v)
           /\ v # w /\ ~Moves(new, w) => Answers(<<"value", w>>)' = Answers(<<"value", w>>)
<1> DEFINE ask == request[r].ask
<1> DEFINE Spares(new, v) ==
        /\ Put(r, new, v)
        /\ \A e \in Docs : new[e] = doc[e] \/ Alike(doc[e], new[e]) \/ new[e].value = v
<1>0. \E new \in [Docs -> DocStates] : \E v : Spares(new, v)
  <2>1. CASE Kept(r)
    <3>1. PICK new \in [Docs -> DocStates] : \E v :
            Put(r, new, v) /\ \A d \in Docs : Keeps(doc[d], new[d])
                                              /\ (new[d] = doc[d] \/ doc[d].value = v)
      BY <2>1 DEF Kept
    <3> QED
      BY <3>1 DEF Keeps
  <2>2. CASE Creation(r)
    BY <2>2 DEF Creation, Created
  <2>3. CASE Change(r)
    <3>1. PICK new \in [Docs -> DocStates], d \in Docs :
            /\ Put(r, new, new[d].value)
            /\ \A e \in Docs \ {d} : Alike(doc[e], new[e])
      BY <2>3 DEF Change
    <3> QED
      BY <3>1
  <2> QED
    BY <2>1, <2>2, <2>3 DEF Writing
<1>1. PICK new \in [Docs -> DocStates] : \E v : Spares(new, v)
  BY <1>0
<1>2. PICK v : Spares(new, v)
  BY <1>1
<1>3. ASSUME v # w, ~Moves(new, w)
      PROVE  Answers(<<"value", w>>)' = Answers(<<"value", w>>)
  <2>1. ASSUME NEW e \in Docs
        PROVE  /\ (Live(e) /\ doc[e].value = w /\ doc[e].active)'
                    <=> Live(e) /\ doc[e].value = w /\ doc[e].active
               /\ (Live(e) /\ doc[e].value = w /\ doc[e].active) => Copy(e)' = Copy(e)
    <3>1. /\ doc'[e].state = new[e].state /\ doc'[e].value = new[e].value
          /\ doc'[e].active = new[e].active /\ doc'[e].version = new[e].version
          /\ doc'[e].initial = new[e].initial
      BY <1>2, PutEffect
    <3>2. CASE new[e] = doc[e]
      BY <3>1, <3>2 DEF Live, Copy
    <3>3. CASE Alike(doc[e], new[e])
      <4>1. /\ doc'[e].state = doc[e].state /\ doc'[e].value = doc[e].value
            /\ doc'[e].active = doc[e].active /\ doc'[e].version = doc[e].version
            /\ doc'[e].initial => doc[e].initial
        BY <3>1, <3>3 DEF Alike, Keeps
      <4>2. doc[e].value = w => (doc[e].initial => doc'[e].initial)
        BY <1>3, <3>1 DEF Moves
      <4>3. doc[e].initial \in BOOLEAN /\ doc'[e].initial \in BOOLEAN
        BY <3>1 DEF TypeInv, Types, DocStates
      <4>4. doc[e].value = w => doc'[e].initial = doc[e].initial
        BY <4>1, <4>2, <4>3
      <4> QED
        BY <4>1, <4>4 DEF Live, Copy
    <3>4. CASE new[e].value = v
      <4>1. doc[e].value # w
        BY <1>3, <3>4 DEF Moves
      <4> QED
        BY <1>3, <3>1, <3>4, <4>1
    <3> QED
      BY <1>2, <3>2, <3>3, <3>4
  <2> DEFINE M == {e \in Docs : Live(e) /\ doc[e].value = w /\ doc[e].active}
  <2>2. Answers(<<"value", w>>) = IF M = {} THEN {{Copy(e) : e \in M}} ELSE {{Copy(e)} : e \in M}
    BY DEF Answers
  <2>3. Answers(<<"value", w>>)' = IF M' = {} THEN {{Copy(e)' : e \in M'}} ELSE {{Copy(e)'} : e \in M'}
    BY DEF Answers
  <2>4. M' = M
    BY <2>1
  <2>5. \A e \in M : Copy(e)' = Copy(e)
    BY <2>1
  <2> HIDE DEF M
  <2>6. {{Copy(e)'} : e \in M} = {{Copy(e)} : e \in M} /\ {Copy(e)' : e \in M} = {Copy(e) : e \in M}
    BY <2>5
  <2> QED
    BY <2>2, <2>3, <2>4, <2>6
<1> QED
  BY <1>2, <1>3

(* What a write does to the keys. *)
LEMMA PutKeys ==
  ASSUME TypeInv, NEW r \in Requests, NEW new \in [Docs -> DocStates], NEW v, Put(r, new, v)
  PROVE  /\ cached' = cached /\ suspect \subseteq suspect'
         /\ ClearedBy(request[r].ask.call, v) \subseteq request'[r].clears
         /\ doc' = doc \/ \A k \in Keys :
                 k[1] \in service.keys /\ Quiet(request[r].ask.call, new, k) => k \in suspect'
<1> DEFINE changed == {d \in Docs : new[d] # doc[d]}
           clears == ClearedBy(request[r].ask.call, v)
           done == [Fresh EXCEPT !.pc = "done"]
           clearing == [request[r] EXCEPT !.pc = "clear", !.clears = clears, !.mine = {}]
<1>1. /\ cached' = cached
      /\ suspect' = suspect \cup {k \in Keys : changed # {} /\ k[1] \in service.keys
                                      /\ Quiet(request[r].ask.call, new, k)}
      /\ request'[r] = IF clears = {} THEN done ELSE clearing
      /\ doc' = [d \in Docs |-> IF d \in changed /\ ~request[r].alone
                                THEN [new[d] EXCEPT !.raced = TRUE] ELSE new[d]]
  BY DEF Put
<1>2. changed = {} => doc' = doc
  BY <1>1 DEF TypeInv, Types
<1> HIDE DEF clears
<1>3. clearing.clears = clears
  BY DEF TypeInv, Types, RequestStates
<1> HIDE DEF changed, done, clearing
<1> QED
  BY <1>1, <1>2, <1>3 DEF clears

LEMMA WriteStale ==
  ASSUME TypeInv, CachedKeys, StaleOnlyIfSuspect, NEW r \in Requests, Writing(r),
         request[r].pc \in {"load", "write", "commit"}, Step(r)
  PROVE  StaleOnlyIfSuspect'
<1> DEFINE ask == request[r].ask
<1>1. /\ \A s \in Requests : request[s].clears \subseteq request'[s].clears
      /\ kind' = kind /\ ~AtRest(r)
  BY ClearsOn, StepCases, StepTypes DEF Clear
<1>2. PICK new \in [Docs -> DocStates] : \E v : Put(r, new, v)
  BY DEF Writing, Kept, Creation, Change
<1>3. PICK v : Put(r, new, v)
  BY <1>2
<1>4. /\ cached' = cached /\ suspect \subseteq suspect'
      /\ ClearedBy(ask.call, v) \subseteq request'[r].clears
  BY <1>3, PutKeys
<1> SUFFICES ASSUME NEW k \in Keys, NEW answer \in cached[k], answer \notin Answers(k)',
                    k \notin suspect', \A s \in Requests : k \notin request'[s].clears
             PROVE  FALSE
  BY <1>4 DEF StaleOnlyIfSuspect, Keys
<1>5. answer \in Answers(k)
  BY <1>1, <1>4 DEF StaleOnlyIfSuspect
<1>6. doc' # doc
  BY <1>5, AnswersOn
<1>7. k[1] \in service.keys
  BY DEF CachedKeys
<1>8. ASSUME NEW own \in [Docs -> DocStates], NEW x, Put(r, own, x)
       PROVE  ~Quiet(ask.call, own, k)
  BY <1>6, <1>7, <1>8, PutKeys
<1>9. ~Quiet(ask.call, new, k)
  BY <1>3, <1>8
<1>10. /\ ask.call \in kind.routes \cap Writes
      /\ service.clearsAll # {}
      /\ ask.call \notin service.clearsAll
  <2>1. ask.call \in kind.routes /\ ask.call \in CallNames /\ ask.call # "read"
    <3>1. Carries(ask) /\ Belongs(request[r])
      BY <1>1 DEF TypeInv, Proper
    <3>2. ask.call \in CallNames
      BY DEF TypeInv, Types, RequestStates, Asks
    <3> QED
      BY <3>1, <3>2 DEF Carries, Belongs
  <2>2. service.clearsAll # {}
    BY <1>9 DEF Quiet
  <2>3. ask.call \notin service.clearsAll
    BY <1>4 DEF ClearedBy
  <2> QED
    BY <2>1, <2>2, <2>3 DEF CallNames
<1>11. /\ ask.call \in service.clearsOwn \cap Owns
      /\ service.keys \subseteq {"value", "initial"} /\ store.erase = "update" /\ Elects
  <2>1. kind \in Kinds
    BY DEF TypeInv, Types
  <2>2. ask.call \in service.clearsOwn
    BY <1>10, <1>9, <2>1, KindsAssumption DEF Quiet, service, Elects
  <2> QED
    BY <2>1, <2>2, KindsAssumption DEF service, store, Elects, Owns
<1>12. k # Initial
  BY <1>4, <1>10, <1>11 DEF ClearedBy
<1>13. PICK w \in Values : k = <<"value", w>>
  BY <1>7, <1>11, <1>12 DEF Keys, Initial
<1>14. PICK own \in [Docs -> DocStates] : \E x :
         Put(r, own, x) /\ (x # w /\ ~Moves(own, w) => Answers(k)' = Answers(k))
  BY <1>11, <1>13, OwnAnswers
<1>15. PICK x : Put(r, own, x) /\ (x # w /\ ~Moves(own, w) => Answers(k)' = Answers(k))
  BY <1>14
<1>16. CASE x # w
  <2>1. ~Quiet(ask.call, own, k)
    BY <1>15, <1>8
  <2>2. ~Moves(own, w)
    BY <1>11, <1>13, <2>1 DEF Quiet, Moves
  <2> QED
    BY <1>5, <1>15, <1>16, <2>2
<1>17. CASE x = w
  <2>1. ClearedBy(ask.call, w) \subseteq request'[r].clears
    BY <1>15, <1>17, PutKeys
  <2> QED
    BY <1>10, <1>11, <1>13, <2>1 DEF ClearedBy
<1> QED
  BY <1>16, <1>17

CacheInv == TypeInv /\ Exclusive /\ CachedKeys /\ FreshAnswer /\ StaleOnlyIfSuspect

LEMMA ClearStale ==
  ASSUME CacheInv, NEW r \in Requests, Clear(r), Step(r)
  PROVE  StaleOnlyIfSuspect'
<1>1. /\ cached' = [k \in Keys |-> IF k \in request[r].clears THEN {} ELSE cached[k]]
      /\ suspect' = suspect \ request[r].clears /\ doc' = doc
  BY DEF Clear
<1>2. \A s \in Requests \ {r} : request'[s].clears = request[s].clears
  BY StepTypes DEF CacheInv, Others, Same
<1> SUFFICES ASSUME NEW k \in Keys, NEW answer \in cached'[k], answer \notin Answers(k)'
             PROVE  k \in suspect' \/ \E s \in Requests : k \in request'[s].clears
  BY DEF StaleOnlyIfSuspect, Keys
<1>3. k \notin request[r].clears /\ answer \in cached[k] /\ answer \notin Answers(k)
  BY <1>1, AnswersOn
<1> QED
  BY <1>1, <1>2, <1>3 DEF CacheInv, StaleOnlyIfSuspect

LEMMA StoreStale ==
  ASSUME CacheInv, NEW r \in Requests, Store(r), Step(r)
  PROVE  StaleOnlyIfSuspect'
<1> DEFINE key == request[r].ask.key
<1>1. /\ cached' = [cached EXCEPT ![key] = {request[r].answer}] /\ doc' = doc
      /\ suspect' = IF request[r].alone THEN suspect \ {key} ELSE suspect \cup {key}
      /\ request[r].pc = "store"
  BY DEF Store
<1>2. \A s \in Requests : request[s].clears \subseteq request'[s].clears
  <2>1. ~Clear(r)
    BY <1>1 DEF Clear
  <2> QED
    BY <2>1, ClearsOn DEF CacheInv
<1> HIDE DEF key
<1> SUFFICES ASSUME NEW k \in Keys, NEW answer \in cached'[k], answer \notin Answers(k)'
             PROVE  k \in suspect' \/ \E s \in Requests : k \in request'[s].clears
  BY DEF StaleOnlyIfSuspect, Keys
<1>3. answer \notin Answers(k)
  BY <1>1, AnswersOn
<1>4. CASE k = key
  <2>1. answer = request[r].answer
    BY <1>1, <1>4 DEF CacheInv, TypeInv, Types
  <2>2. ~request[r].alone
    BY <1>1, <1>3, <1>4, <2>1 DEF CacheInv, FreshAnswer, key
  <2> QED
    BY <1>1, <1>4, <2>2
<1>5. CASE k # key
  <2>1. answer \in cached[k]
    BY <1>1, <1>5 DEF CacheInv, TypeInv, Types
  <2> QED
    BY <1>1, <1>2, <1>3, <1>5, <2>1 DEF CacheInv, StaleOnlyIfSuspect
<1> QED
  BY <1>4, <1>5

LEMMA StaleNext == CacheInv /\ [Next]_vars => StaleOnlyIfSuspect'
<1> SUFFICES ASSUME CacheInv, [Next]_vars PROVE StaleOnlyIfSuspect'
  OBVIOUS
<1> USE DEF CacheInv
<1>1. ASSUME UNCHANGED <<doc, cached, suspect>>,
             \A r \in Requests : request[r].clears \subseteq request'[r].clears
      PROVE  StaleOnlyIfSuspect'
  <2>1. \A k \in Keys : Answers(k)' = Answers(k)
    BY <1>1, AnswersOn
  <2> QED
    BY <1>1, <2>1 DEF StaleOnlyIfSuspect, Keys
<1>2. CASE UNCHANGED vars
  BY <1>1, <1>2 DEF vars
<1>3. ASSUME NEW r \in Requests, Calls(r)
      PROVE  StaleOnlyIfSuspect'
  <2>1. PICK ask \in Asks : Carries(ask) /\ Arrive(r, ask)
    BY <1>3, CallsCarry DEF TypeInv
  <2>2. request[r].clears = {}
    BY <2>1 DEF Arrive, TypeInv, RestsClear, AtRest
  <2>3. \A s \in Requests \ {r} : request'[s].clears = request[s].clears
    <3>1. \A s \in Requests \ {r} :
            /\ AtRest(s) => request'[s] = request[s]
            /\ ~AtRest(s) => request'[s] = [request[s] EXCEPT !.alone = FALSE]
      BY <2>1, ArriveTypes
    <3> QED
      BY <3>1 DEF TypeInv, Types, RequestStates
  <2> QED
    BY <1>1, <2>1, <2>2, <2>3 DEF Arrive
<1>4. ASSUME NEW r \in Requests, Step(r)
      PROVE  StaleOnlyIfSuspect'
  <2>1. CASE Writing(r) /\ request[r].pc \in {"load", "write", "commit"}
    BY <1>4, <2>1, WriteStale
  <2>2. CASE Refuses(r) \/ Waits(r) \/ Loads(r)
    <3>1. UNCHANGED <<doc, cached, suspect>>
      BY <2>2 DEF Refuses, Loads, Waits, Find, Check, Record, Begin, Get, Fetch
    <3>2. CASE ~Clear(r)
      BY <1>1, <1>4, <3>1, <3>2, ClearsOn
    <3>3. CASE Clear(r)
      BY <1>4, <3>3, ClearStale
    <3> QED
      BY <3>2, <3>3
  <2>3. CASE Clear(r)
    BY <1>4, <2>3, ClearStale
  <2>4. CASE Store(r)
    BY <1>4, <2>4, StoreStale
  <2> QED
    BY <1>4, <2>1, <2>2, <2>3, <2>4, StepCases
<1> QED
  BY <1>2, <1>3, <1>4 DEF Next

(* A cached copy is what the database would answer, unless a reader raced  *)
(* with a writer, a writer has still to clear it, or the call that changed *)
(* it is one of those that clear nothing of the kind: every other call     *)
(* clears the keys of what it changes, is_initial and version included.    *)
THEOREM StaleIsSuspect == Spec => []StaleOnlyIfSuspect
<1>1. Init => CacheInv
  <2> SUFFICES ASSUME Init PROVE CacheInv
    OBVIOUS
  <2>1. \A r \in Requests : AtRest(r) /\ request[r].pc = "idle"
    BY DEF Init, AtRest, Fresh
  <2>2. \A k \in Keys : cached[k] = {}
    BY DEF Init
  <2> QED
    BY <2>1, <2>2, InitTypes
    DEF CacheInv, Exclusive, CachedKeys, FreshAnswer, StaleOnlyIfSuspect
<1>2. CacheInv /\ [Next]_vars => CacheInv'
  BY NextTypes, ExclusiveNext, CachedKeysNext, FreshAnswerNext, StaleNext DEF CacheInv
<1>3. CacheInv => StaleOnlyIfSuspect
  BY DEF CacheInv
<1> QED
  BY <1>1, <1>2, <1>3, PTL DEF Spec

-----------------------------------------------------------------------------
(* What a request alone reports *)

(* What it has found before it writes, *)
Ready(r) ==
  LET ask == request[r].ask IN
  /\ ask.call = "purge" /\ service.purge # "none" => ask.docs \subseteq Found(service.purge, ask.docs)
  /\ ask.call = "deleteMany" => \A d \in ask.docs : Live(d) => d \in request[r].found
  /\ ask.call = "purgeMany" => request[r].found = Found(service.purgeMany, ask.docs)

(* and what it has done when it has written. *)
HasDone(ask, found, state) ==
  \A d \in ask.docs :
    /\ ask.call \in {"delete", "deleteMany"} => state[d] # "live"
    /\ ask.call = "purge" => state[d] = "gone" \/ (Overlooks /\ state[d] = "deleted")
    /\ ask.call = "purgeMany" =>
         /\ d \in found => state[d] = "gone" \/ kind.schema.hook = "always"
         /\ "deleted" \in Sees(service.purgeMany) => state[d] # "deleted"
    /\ ask.call = "restore" => state[d] = "live"
States == [d \in Docs |-> doc[d].state]
Performs(r) == HasDone(request[r].ask, request[r].found, States')

Truthful ==
  \A r \in Requests : request[r].alone =>
    /\ request[r].pc = "write" => Ready(r)
    /\ request[r].pc = "clear" => HasDone(request[r].ask, request[r].found, States)

LEMMA Sight ==
  ASSUME Types
  PROVE  /\ Sees("plain") \subseteq Sees("bypass")
         /\ kind.schema.hook # "always" => "deleted" \in Sees("deleted")
         /\ kind.schema.hook \notin {"always", "none"} => Sees("deleted") = {"deleted"}
         /\ Sees("unselected") = {}
         /\ kind.schema.hook = "always" => "deleted" \notin Sees(service.purgeMany)
         /\ Sees("bypass") # Sees("plain") => kind.schema.hook = "optional"
BY DEF Sees

LEMMA PutStates ==
  ASSUME TypeInv, NEW r \in Requests, NEW new \in [Docs -> DocStates], NEW v, Put(r, new, v),
         NEW d \in Docs
  PROVE  States'[d] = new[d].state
BY PutEffect DEF States

LEMMA DeletePerforms ==
  ASSUME TypeInv, NEW r \in Requests, Delete(r)
  PROVE  Performs(r) \/ Refuses(r)
<1> DEFINE ask == request[r].ask
           hit == IF store.erase = "save"
                  THEN {d \in ask.docs : doc[d].state \in {"live", "deleted"}}
                  ELSE Found("plain", ask.docs)
           new == [e \in Docs |-> IF e \in hit THEN Deleted(e) ELSE doc[e]]
<1>1. ask.docs \in SUBSET Docs /\ ask.call = "delete"
  BY DEF Delete, TypeInv, Types, RequestStates, Asks
<1>2. Refuses(r) \/ \E d \in ask.docs : Put(r, new, doc[d].value)
  BY DEF Delete, Refuses
<1>3. \A d \in ask.docs : Live(d) => d \in hit
  BY <1>1, SomeFound DEF TypeInv, Live
<1> HIDE DEF hit
<1>4. new \in [Docs -> DocStates]
  BY DocTypes DEF TypeInv, Types
<1>5. \A d \in ask.docs : new[d].state # "live"
  <2>1. \A d \in Docs : Deleted(d).state = "deleted"
    BY DEF Deleted, TypeInv, Types, DocStates
  <2> QED
    BY <1>1, <1>3, <2>1 DEF Live
<1> HIDE DEF new
<1> QED
  BY <1>1, <1>2, <1>4, <1>5, PutStates DEF Performs, HasDone

LEMMA PurgePerforms ==
  ASSUME TypeInv, NEW r \in Requests, Purge(r), Ready(r)
  PROVE  Performs(r) \/ Refuses(r)
<1> DEFINE ask == request[r].ask
           hit == Found(store.remove, ask.docs)
<1>1. /\ ask.docs \in SUBSET Docs /\ ask.call = "purge" /\ "purge" \in kind.routes
      /\ \E d \in Docs : ask.docs = {d}
  BY DEF Purge, TypeInv, Types, RequestStates, Asks, Proper, Carries, AtRest, Ended, Edits
<1>2. Refuses(r) \/ (Put(r, Gone(hit), NoValue) /\ (hit # {} \/ "purge" \notin service.strict))
  BY DEF Purge, Refuses
<1>3. Gone(hit) \in [Docs -> DocStates]
  BY DocTypes DEF TypeInv, Types, Gone
<1>4. \A d \in Docs : d \in hit => Gone(hit)[d].state = "gone"
  BY DEF Gone, TypeInv, Types, DocStates
<1>5. \A d \in Docs : d \notin hit => Gone(hit)[d] = doc[d]
  BY DEF Gone
<1>6. ASSUME hit # {} \/ "purge" \notin service.strict, NEW d \in ask.docs
      PROVE  d \in hit \/ (Overlooks /\ doc[d].state = "deleted")
  <2>1. CASE hit # {}
    BY <1>1, <2>1 DEF Found
  <2>2. CASE hit = {}
    <3>1. service.purge # "none"
      BY <1>1, <1>6, <2>2, KindsAssumption DEF TypeInv, Types, service
    <3>2. d \in Found(service.purge, ask.docs)
      BY <1>1, <3>1 DEF Ready
    <3>3. service.purge \in {"plain", "bypass"} /\ store.remove \in {"plain", "bypass"}
      BY <3>1, KindTypes DEF TypeInv, Services, Stores
    <3>4. ~Live(d) /\ doc[d].state \in {"live", "deleted"}
      BY <1>1, <2>2, <3>2, <3>3, SomeFound DEF TypeInv
    <3>5. service.purge = "bypass" /\ store.remove = "plain" /\ kind.schema.hook = "optional"
      BY <2>2, <3>2, <3>3, Sight DEF TypeInv, Found
    <3> QED
      BY <3>4, <3>5 DEF Live, Overlooks
  <2> QED
    BY <2>1, <2>2
<1> HIDE DEF hit
<1>7. Put(r, Gone(hit), NoValue) => \A d \in Docs : States'[d] = Gone(hit)[d].state
  BY <1>3, PutStates
<1> QED
  BY <1>1, <1>2, <1>4, <1>5, <1>6, <1>7 DEF Performs, HasDone

(* A restore is refused only if there is nothing to restore. *)
Nothing(r) ==
  request[r].ask.call = "restore" /\ kind.schema.hook # "always" =>
    \A d \in request[r].ask.docs : doc[d].state # "deleted"

LEMMA RestorePerforms ==
  ASSUME TypeInv, NEW r \in Requests, Restore(r)
  PROVE  Performs(r) \/ (Refuses(r) /\ Nothing(r))
<1> DEFINE ask == request[r].ask
           hit == Found("deleted", ask.docs)
<1>1. /\ ask.docs \in SUBSET Docs /\ ask.call \in {"restore", "restoreMany"}
      /\ ask.call = "restore" => \E d \in Docs : ask.docs = {d}
  BY DEF Restore, TypeInv, Types, RequestStates, Asks, Proper, Carries, AtRest, Ended, Edits
<1>2. \/ Refuses(r) /\ hit = {} /\ ask.call = "restore"
      \/ Put(r, Restored(hit), NoValue) /\ (hit # {} \/ ask.call # "restore")
  BY DEF Restore, Refuses
<1>3. hit = {} => Nothing(r)
  BY <1>1, Sight DEF Nothing, Found, TypeInv
<1>4. \A d \in Docs, a \in BOOLEAN :
        LET q == [doc[d] EXCEPT !.state = "live", !.active = a, !.restored = TRUE] IN
        q \in DocStates /\ q.state = "live"
  BY DEF TypeInv, Types, DocStates
<1>5. \A d \in Docs : (doc[d].active /\ ~store.idles) \in BOOLEAN
  OBVIOUS
<1>6. hit # {} /\ ask.call = "restore" => ask.docs \subseteq hit
  BY <1>1 DEF Found
<1> HIDE DEF hit
<1>7. /\ Restored(hit) \in [Docs -> DocStates]
      /\ \A d \in Docs : d \in hit => Restored(hit)[d].state = "live"
  <2>1. doc \in [Docs -> DocStates]
    BY DEF TypeInv, Types
  <2> DEFINE risen(d) == [doc[d] EXCEPT !.state = "live", !.active = doc[d].active /\ ~store.idles,
                                        !.restored = TRUE]
  <2>2. \A d \in Docs : risen(d) \in DocStates /\ risen(d).state = "live"
    BY <1>4, <1>5
  <2>3. Restored(hit) = [d \in Docs |-> IF d \in hit THEN risen(d) ELSE doc[d]]
    BY DEF Restored
  <2> HIDE DEF risen
  <2> QED
    BY <2>1, <2>2, <2>3
<1>8. Put(r, Restored(hit), NoValue) => \A d \in Docs : States'[d] = Restored(hit)[d].state
  BY <1>7, PutStates
<1> QED
  BY <1>1, <1>2, <1>3, <1>6, <1>7, <1>8 DEF Performs, HasDone

LEMMA WriteManyPerforms ==
  ASSUME TypeInv, NEW r \in Requests, WriteMany(r), Ready(r)
  PROVE  Performs(r)
<1> DEFINE ask == request[r].ask
           stored == {d \in request[r].found : doc[d].state \in {"live", "deleted"}}
           updated == {d \in stored : kind.schema.hook = "always" => Live(d)}
           removed == {d \in stored : store.removeMany = "deleted" => ~Live(d)}
           applied == [d \in Docs |-> IF d \in updated THEN Applied(d, ask) ELSE doc[d]]
           erased == [d \in Docs |-> IF d \in updated
                                     THEN [doc[d] EXCEPT !.state = "deleted"] ELSE doc[d]]
<1>1. ask \in Asks /\ request[r].found \subseteq Docs /\ ask.docs \subseteq Docs
  BY DEF TypeInv, Types, RequestStates, Asks
<1>2. ask.call \in Listed /\ ~AtRest(r)
  BY DEF WriteMany, AtRest, Ended
<1>3. ask.call \in kind.routes
  BY <1>2 DEF TypeInv, Proper, Carries
<1>4. CASE ask.call = "updateMany"
  BY <1>4 DEF Performs, HasDone
<1>5. CASE ask.call = "deleteMany"
  <2>1. Put(r, erased, NoValue)
    BY <1>5 DEF WriteMany
  <2>2. \A d \in ask.docs : Live(d) => d \in updated
    BY <1>5 DEF Ready, Live
  <2> HIDE DEF updated
  <2>3. erased \in [Docs -> DocStates]
    BY DocTypes DEF TypeInv, Types
  <2>4. \A d \in Docs : [doc[d] EXCEPT !.state = "deleted"].state = "deleted"
    BY DEF TypeInv, Types, DocStates
  <2>5. \A d \in ask.docs : erased[d].state # "live"
    BY <1>1, <2>2, <2>4 DEF Live
  <2> HIDE DEF erased
  <2> QED
    BY <1>1, <1>5, <2>1, <2>3, <2>5, PutStates DEF Performs, HasDone
<1>6. CASE ask.call = "purgeMany"
  <2>1. Put(r, Gone(removed), NoValue)
    BY <1>6 DEF WriteMany
  <2>2. ASSUME NEW d \in ask.docs, d \in request[r].found, kind.schema.hook # "always"
        PROVE  d \in removed
    <3>1. d \in Found(service.purgeMany, ask.docs)
      BY <1>6, <2>2 DEF Ready
    <3>2. doc[d].state \in {"live", "deleted"}
      BY <1>1, <3>1, SomeFound DEF TypeInv
    <3>3. store.removeMany = "deleted" =>
            service.purgeMany \in {"deleted", "unselected"} /\ kind.schema.hook # "none"
      BY <1>3, <1>6, KindsAssumption DEF TypeInv, Types, service, store
    <3>4. store.removeMany = "deleted" => ~Live(d)
      BY <2>2, <3>1, <3>3, Sight DEF TypeInv, Found, Live
    <3> QED
      BY <2>2, <3>2, <3>4
  <2> HIDE DEF removed
  <2>3. Gone(removed) \in [Docs -> DocStates]
    BY DocTypes DEF TypeInv, Types, Gone
  <2>4. \A d \in Docs : Gone(removed)[d].state = IF d \in removed THEN "gone" ELSE doc[d].state
    BY DEF Gone, TypeInv, Types, DocStates
  <2>5. \A d \in Docs : States'[d] = Gone(removed)[d].state
    BY <2>1, <2>3, PutStates
  <2>6. ASSUME NEW d \in ask.docs, "deleted" \in Sees(service.purgeMany)
        PROVE  States'[d] # "deleted"
    <3>1. kind.schema.hook # "always"
      BY <2>6, Sight DEF TypeInv
    <3>2. doc[d].state = "deleted" => d \in request[r].found
      BY <1>6, <2>6 DEF Ready, Found
    <3> QED
      BY <1>1, <2>2, <2>4, <2>5, <2>6, <3>1, <3>2
  <2> QED
    BY <1>1, <1>6, <2>2, <2>4, <2>5, <2>6 DEF Performs, HasDone
<1> QED
  BY <1>2, <1>4, <1>5, <1>6 DEF Listed

LEMMA LoadPerforms ==
  ASSUME TypeInv, NEW r \in Requests, Load(r)
  PROVE  Performs(r) \/ Refuses(r) \/ Loads(r)
<1> DEFINE ask == request[r].ask
<1>1. ask.docs \in SUBSET Docs /\ request[r].pc = "load" /\ ~AtRest(r)
  BY DEF Load, TypeInv, Types, RequestStates, Asks, AtRest, Ended
<1>2. ask.call = "delete"
  BY <1>1 DEF TypeInv, Proper, Belongs
<1>3. Loads(r) \/ Refuses(r) \/ (Found("plain", ask.docs) = {} /\ Put(r, doc, NoValue))
  BY <1>1 DEF Load, Refuses, Loads
<1>4. Found("plain", ask.docs) = {} => \A d \in ask.docs : doc[d].state # "live"
  BY <1>1, SomeFound DEF TypeInv, Live
<1>5. Put(r, doc, NoValue) => \A d \in Docs : States'[d] = doc[d].state
  BY PutStates DEF TypeInv, Types
<1> QED
  BY <1>1, <1>2, <1>3, <1>4, <1>5 DEF Performs, HasDone

(* A request that writes does what it will report. *)
LEMMA StepPerforms ==
  ASSUME TypeInv, NEW r \in Requests, Step(r), request[r].pc \in {"load", "write", "commit"},
         request[r].pc = "write" => Ready(r)
  PROVE  Performs(r) \/ (Refuses(r) /\ Nothing(r)) \/ Loads(r)
<1>1. CASE Insert(r) \/ Update(r) \/ Commit(r)
  <2>1. request[r].ask.call \in {"create", "update"}
    <3>1. Commit(r) => request[r].pc = "commit" /\ ~AtRest(r)
      BY DEF Commit, AtRest, Ended
    <3> QED
      BY <1>1, <3>1 DEF Insert, Update, TypeInv, Proper, Belongs
  <2> QED
    BY <2>1 DEF Performs, HasDone
<1>2. CASE Delete(r) \/ Purge(r) \/ Load(r)
  <2>1. request[r].ask.call \in {"delete", "purge"}
    <3>1. Load(r) => request[r].pc = "load" /\ ~AtRest(r)
      BY DEF Load, AtRest, Ended
    <3> QED
      BY <1>2, <3>1 DEF Delete, Purge, TypeInv, Proper, Belongs
  <2>2. Nothing(r)
    BY <2>1 DEF Nothing
  <2>3. Purge(r) => Ready(r)
    BY DEF Purge
  <2> QED
    BY <1>2, <2>2, <2>3, DeletePerforms, PurgePerforms, LoadPerforms
<1>3. CASE Restore(r)
  BY <1>3, RestorePerforms
<1>4. CASE WriteMany(r)
  <2>1. request[r].pc = "write"
    BY <1>4 DEF WriteMany
  <2> QED
    BY <1>4, <2>1, WriteManyPerforms
<1> QED
  BY <1>1, <1>2, <1>3, <1>4
     DEF Step, Find, Check, Record, Begin, Clear, Get, Fetch, Store

LEMMA FindReadies ==
  ASSUME TypeInv, NEW r \in Requests, Finds(r), ~AtRest(r), request'[r].ask = request[r].ask,
         UNCHANGED <<kind, doc>>
  PROVE  Ready(r)'
<1> DEFINE ask == request[r].ask
<1>1. /\ ask.docs \in SUBSET Docs /\ Carries(ask)
      /\ service' = service
  BY DEF TypeInv, Types, RequestStates, Asks, Proper, service
<1>2. \A how, S : Found(how, S)' = Found(how, S)
  BY DEF Found, Sees
<1>3. \A d \in Docs : Live(d)' <=> Live(d)
  BY DEF Live
<1>4. request'[r].found = Found(How(ask.call), ask.docs)
      /\ (ask.call = "purge" => request'[r].found # {})
  BY DEF Finds, Edits
<1>5. CASE ask.call = "purge"
  <2>1. ask.docs \subseteq Found(service.purge, ask.docs)
    BY <1>1, <1>4, <1>5 DEF Carries, Edits, How, Found
  <2> QED
    BY <1>1, <1>2, <1>5, <2>1 DEF Ready
<1>6. CASE ask.call = "deleteMany"
  <2>1. request'[r].found = Found("plain", ask.docs)
    BY <1>4, <1>6 DEF How
  <2>2. \A d \in ask.docs : Live(d) => d \in request'[r].found
    BY <1>1, <2>1, SomeFound DEF TypeInv
  <2> QED
    BY <1>1, <1>3, <1>6, <2>2 DEF Ready
<1>7. CASE ask.call = "purgeMany"
  <2>1. request'[r].found = Found(service.purgeMany, ask.docs)
    BY <1>4, <1>7 DEF How
  <2> QED
    BY <1>1, <1>2, <1>7, <2>1 DEF Ready
<1> QED
  BY <1>5, <1>6, <1>7 DEF Ready

LEMMA ArriveReadies ==
  ASSUME TypeInv, NEW r \in Requests, Arrives(r), request'[r].pc = "write"
  PROVE  Ready(r)'
<1>1. PICK ask \in Asks : Carries(ask) /\ Arrive(r, ask)
  BY DEF Arrives
<1>2. request'[r].ask = ask /\ request'[r].found = ask.docs /\ request'[r].pc = Entry(ask)
  BY <1>1, ArriveTypes
<1>3. Entry(ask) = "write" /\ ask.call \in kind.routes
  BY <1>1, <1>2 DEF Carries
<1>4. service' = service
  BY <1>1 DEF Arrive, service
<1>5. ask.call = "purge" => service.purge = "none"
  BY <1>3 DEF Entry
<1>6. ask.call # "purgeMany"
  <2>1. ask.call = "purgeMany" => "purgeMany" \in service.looks
    BY <1>3, KindsAssumption DEF TypeInv, Types, service
  <2> QED
    BY <1>3, <2>1 DEF Entry
<1> QED
  BY <1>2, <1>4, <1>5, <1>6 DEF Ready

LEMMA LoadsOn ==
  ASSUME TypeInv, NEW r \in Requests, Loads(r)
  PROVE  request'[r].pc = "write"
BY DEF TypeInv, Types, Loads, Become, RequestStates

(* A step to "clear" is a write. *)
LEMMA WritesAt ==
  ASSUME TypeInv, NEW r \in Requests, Step(r), request'[r].pc = "clear"
  PROVE  request[r].pc \in {"load", "write", "commit"}
<1>1. ~AtRest(r)'
  BY DEF AtRest, Ended
<1>2. CASE Waits(r) \/ Loads(r)
  BY <1>1, <1>2, WaitMoves
     DEF Waited, Finds, Checks, Records, Begins, Reads, Loads, Prepare
<1>3. CASE Refuses(r) \/ Clear(r) \/ Store(r)
  <2>1. (Finish(r, "rejected") \/ Finish(r, "done")) /\ kind' = kind
    BY <1>3 DEF Refuses, Clear, Store
  <2> QED
    BY <1>1, <2>1, FinishTypes DEF TypeInv, AtRest, Ended
<1> QED
  BY <1>2, <1>3, StepCases

LEMMA TruthfulNext ==
  TypeInv /\ Exclusive /\ Truthful /\ [Next]_vars => Truthful'
<1> SUFFICES ASSUME TypeInv, Exclusive, Truthful, [Next]_vars, NEW r \in Requests,
                    request'[r].alone, request'[r].pc \in {"write", "clear"}
             PROVE  /\ request'[r].pc = "write" => Ready(r)'
                    /\ request'[r].pc = "clear" =>
                         HasDone(request[r].ask, request[r].found, States)'
  BY DEF Truthful
<1>1. ~AtRest(r)'
  BY DEF AtRest, Ended
<1>2. CASE UNCHANGED vars
  <2>1. Ready(r)' <=> Ready(r)
    BY <1>2 DEF vars, Ready, Found, Sees, Live, service
  <2>2. HasDone(request[r].ask, request[r].found, States)'
          <=> HasDone(request[r].ask, request[r].found, States)
    BY <1>2 DEF vars, HasDone, States, Sees, Overlooks, service, store
  <2> QED
    BY <1>2, <2>1, <2>2 DEF vars, Truthful
<1>3. CASE Step(r) /\ request[r].alone /\ ~AtRest(r)
  <2>1. request'[r].ask = request[r].ask /\ kind' = kind
    BY <1>1, <1>3, StepMoves, StepTypes
  <2>2. CASE Waited(r)
    <3>1. request'[r].pc # "clear"
      BY <2>2, LoadsOn DEF Waited, Finds, Checks, Records, Begins, Reads, Prepare
    <3>2. CASE Finds(r)
      BY <1>3, <2>1, <2>2, <3>1, <3>2, FindReadies DEF Waited, Quietly
    <3>3. CASE ~Finds(r)
      <4>1. request[r].ask.call \in {"create", "update", "delete", "read"}
        BY <1>3, <2>2, <3>3
           DEF Waited, Checks, Records, Begins, Reads, Loads, TypeInv, Proper, Belongs
      <4> QED
        BY <2>1, <3>1, <4>1 DEF Ready
    <3> QED
      BY <3>2, <3>3
  <2>3. CASE Writing(r) /\ request'[r].pc = "clear" /\ request'[r].found = request[r].found
    <3>1. request[r].pc \in {"load", "write", "commit"}
      BY <1>3, <2>3, WritesAt
    <3>2. ~Loads(r) /\ ~Refuses(r)
      <4>1. ~Loads(r)
        BY <2>3, LoadsOn
      <4>2. ~Refuses(r)
        BY <1>1, <2>1, FinishTypes DEF Refuses, TypeInv, AtRest, Ended
      <4> QED
        BY <4>1, <4>2
    <3>3. Performs(r)
      BY <1>3, <3>1, <3>2, StepPerforms DEF Truthful
    <3> QED
      BY <2>1, <2>3, <3>3 DEF Performs, HasDone, Sees, Overlooks, service, store
  <2> QED
    BY <1>1, <1>3, <2>2, <2>3, StepMoves
<1>4. CASE Arrives(r) /\ UnderWay = {}
  <2>1. request'[r].pc # "clear"
    BY <1>4, ArriveTypes DEF Arrives, Entry, Prepare
  <2> QED
    BY <1>4, <2>1, ArriveReadies
<1> QED
  BY <1>1, <1>2, <1>3, <1>4, AloneMoves

LEMMA FindEnds ==
  ASSUME TypeInv, NEW r \in Requests, Find(r), AtRest(r)', request'[r].pc # "idle"
  PROVE  request'[r].pc = "rejected"
<1> DEFINE ask == request[r].ask
           found == Found(How(ask.call), ask.docs)
           version == IF ask.call = "update" /\ service.history # "none"
                      THEN doc[CHOOSE d \in found : TRUE].version ELSE 0
           pc == CASE ask.call = "update" -> Prepare("update", FALSE, ask.value)
                   [] ask.call = "delete" /\ store.erase = "save" -> "load"
                   [] OTHER -> "write"
           q == [request[r] EXCEPT !.found = found, !.version = version, !.pc = pc]
<1>1. CASE Finish(r, "rejected")
  BY <1>1, FinishTypes DEF Find, TypeInv, Ended
<1>2. CASE Become(r, q)
  <2>1. pc \notin Ended
    BY DEF Prepare, Ended
  <2> HIDE DEF found, version, pc
  <2>2. request'[r].pc = pc
    BY <1>2 DEF Become, TypeInv, Types, RequestStates
  <2> QED
    BY <2>1, <2>2 DEF AtRest
<1> QED
  BY <1>1, <1>2 DEF Find

TruthInv == TypeInv /\ Exclusive /\ Truthful

(* A request alone that ends reports what holds. *)
LEMMA EndsTruthfully ==
  ASSUME TruthInv, [Next]_vars, NEW r \in Requests, ~AtRest(r), request[r].alone, AtRest(r)',
         request'[r].pc # "idle"
  PROVE  \/ request'[r].pc = "rejected" /\ Nothing(r)
         \/ request'[r].pc = "done" /\ Performs(r)
<1>1. Step(r)
  <2>1. ~UNCHANGED vars
    BY DEF vars, AtRest
  <2>2. ASSUME NEW s \in Requests \ {r}, Step(s)
        PROVE  FALSE
    BY <2>2, StepTypes DEF TruthInv, Others, Same, AtRest
  <2>3. ASSUME NEW s \in Requests, Calls(s)
        PROVE  FALSE
    <3>1. PICK ask \in Asks : Carries(ask) /\ Arrive(s, ask)
      BY <2>3, CallsCarry DEF TruthInv, TypeInv
    <3>2. CASE s = r
      BY <3>1, <3>2, ArriveTypes DEF TruthInv
    <3>3. CASE s # r
      <4>1. request'[r] = [request[r] EXCEPT !.alone = FALSE]
        BY <3>1, <3>3, ArriveTypes DEF TruthInv
      <4>2. request'[r].pc = request[r].pc
        BY <4>1 DEF TruthInv, TypeInv, Types, RequestStates
      <4> QED
        BY <4>2 DEF AtRest
    <3> QED
      BY <3>2, <3>3
  <2> QED
    BY <2>1, <2>2, <2>3 DEF Next
<1>2. kind' = kind
  BY <1>1, StepTypes DEF TruthInv
<1>3. CASE Writing(r) /\ request[r].pc \in {"load", "write", "commit"}
  <2>1. request'[r].pc \in {"done", "clear"}
    BY <1>3, WritingTypes DEF TruthInv
  <2>2. request'[r].pc = "done"
    BY <2>1 DEF AtRest, Ended
  <2>3. ~Loads(r) /\ ~Refuses(r)
    BY <1>2, <2>2, LoadsOn, FinishTypes DEF Refuses, TruthInv, TypeInv, Ended
  <2> QED
    BY <1>1, <1>3, <2>2, <2>3, StepPerforms DEF TruthInv, Truthful
<1>4. CASE Refuses(r) /\ request[r].pc \in {"load", "write", "commit"}
  <2>1. request'[r].pc = "rejected"
    BY <1>2, <1>4, FinishTypes DEF Refuses, TruthInv, TypeInv, Ended
  <2>2. ~Loads(r)
    BY <2>1, LoadsOn DEF TruthInv
  <2>3. Performs(r) \/ Nothing(r)
    BY <1>1, <1>4, <2>2, StepPerforms DEF TruthInv, Truthful
  <2>4. States' = States /\ request[r].ask.docs \subseteq Docs
    BY <1>4 DEF Refuses, States, TruthInv, TypeInv, Types, RequestStates, Asks
  <2>5. Performs(r) => Nothing(r)
    BY <2>4 DEF Performs, HasDone, Nothing, States
  <2> QED
    BY <2>1, <2>3, <2>5
<1>5. CASE Clear(r)
  <2>1. request'[r].pc = "done" /\ request[r].pc = "clear" /\ UNCHANGED doc
    BY <1>2, <1>5, FinishTypes DEF Clear, TruthInv, TypeInv, Ended
  <2>2. HasDone(request[r].ask, request[r].found, States)
    BY <2>1 DEF TruthInv, Truthful
  <2>3. States' = States
    BY <2>1 DEF States
  <2> QED
    BY <2>1, <2>2, <2>3 DEF Performs
<1>6. CASE request[r].pc \in {"check", "record", "begin", "get", "fetch", "store"}
  <2>1. request[r].ask.call \in {"create", "update", "read"}
    BY <1>6 DEF TruthInv, TypeInv, Proper, Belongs
  <2> QED
    BY <2>1 DEF Performs, HasDone, Nothing, AtRest, Ended
<1>7. CASE Find(r)
  <2>1. request[r].ask.call # "restore"
    BY <1>7 DEF Find, TruthInv, TypeInv, Proper, Belongs
  <2>2. request'[r].pc = "rejected"
    BY <1>7, FindEnds DEF TruthInv
  <2> QED
    BY <2>1, <2>2 DEF Nothing
<1>8. CASE Loads(r)
  BY <1>8, LoadsOn DEF TruthInv, AtRest, Ended
<1>9. Refuses(r) /\ ~Find(r) => request[r].pc \in {"load", "write", "commit", "check", "record",
                                                "begin", "get", "fetch", "store", "clear"}
  BY <1>1 DEF Step, Find, Check, Insert, Record, Update, Load, Delete, Purge, Restore,
              WriteMany, Begin, Commit, Clear, Get, Fetch, Store
<1>10. request[r].pc = "clear" => Clear(r)
  BY <1>1 DEF Step, Find, Check, Insert, Record, Update, Load, Delete, Purge, Restore,
              WriteMany, Begin, Commit, Clear, Get, Fetch, Store
<1> QED
  BY <1>1, <1>3, <1>4, <1>5, <1>6, <1>7, <1>8, <1>9, <1>10, StepCases
     DEF TruthInv, Waits, Check, Record, Begin, Get, Fetch, Store

(* What a request that ran alone reports is what it has done, whatever     *)
(* its kind, the documents and the requests before it.                     *)
THEOREM ReportsTrue == Spec => ReportsAreTrue
<1> DEFINE Claim == \A r \in Requests : ~AtRest(r) => Reports(r)
<1>1. Init => TruthInv
  BY InitTypes DEF Init, TruthInv, Exclusive, Truthful, Fresh, AtRest
<1>2. TruthInv /\ [Next]_vars => TruthInv'
  BY NextTypes, ExclusiveNext, TruthfulNext DEF TruthInv
<1>3. TruthInv /\ [Next]_vars => [Claim]_vars
  <2> SUFFICES ASSUME TruthInv, [Next]_vars, NEW r \in Requests, ~AtRest(r), request[r].alone,
                      request'[r].pc \in Ended
               PROVE  Reports(r)
    BY DEF Reports
  <2>1. \/ request'[r].pc = "rejected" /\ Nothing(r)
        \/ request'[r].pc = "done" /\ Performs(r)
    BY EndsTruthfully DEF AtRest, Ended
  <2>2. States' = [e \in Docs |-> doc'[e].state]
    BY DEF States
  <2>3. request[r].ask.docs \subseteq Docs
    BY DEF TruthInv, TypeInv, Types, RequestStates, Asks
  <2>4. CASE request'[r].pc = "rejected"
    BY <2>1, <2>4 DEF Reports, Nothing
  <2>5. CASE request'[r].pc = "done"
    BY <2>1, <2>2, <2>3, <2>5 DEF Reports, Performs, HasDone
  <2> QED
    BY <2>1, <2>4, <2>5
<1> QED
  BY <1>1, <1>2, <1>3, PTL DEF Spec, ReportsAreTrue
=============================================================================
