----------------------------- MODULE Collections -----------------------------
(***************************************************************************)
(* The machine of the soft-deleted collections: documents of one kind (see *)
(* CollectionKinds), the history rows of their versions, the cached        *)
(* copies, and the requests of administrators and readers.  Every await is *)
(* a step; the settings write in a Mongo transaction, which reads from a   *)
(* snapshot and aborts when a document it writes has changed since.  Redis *)
(* answers (Session has it fail).                                          *)
(***************************************************************************)
EXTENDS CollectionKinds, Integers, Sequences

CONSTANTS
  Kinds,       \* the kinds looked at
  Docs,        \* documents
  Values,      \* their unique values (value, code, name, triple)
  NoValue,     \* no value in a payload
  Requests,    \* requests; each makes one call
  Overlapping, \* bound: calls that may be under way at the same time
  Concurrent   \* bound: and how many

ASSUME CollectionsAssumption ==
  /\ Kinds \subseteq CollectionKinds /\ Overlapping \subseteq CallNames
  /\ NoValue \notin Values /\ Concurrent \in Nat \ {0}

(* What holds of every kind, whatever else its files say. *)
ASSUME KindsAssumption == \A k \in Kinds :
  /\ k.service.looks \cap {"create", "restore", "restoreMany"} = {}
  /\ k.service.history # "none" => "update" \in k.service.looks
  /\ k.service.checks # {} /\ ~k.schema.unique =>
       {"create", "update"} \subseteq k.service.checks /\ "update" \in k.service.looks
  /\ "purge" \in k.routes => "purge" \in k.service.strict \/ k.service.purge # "none"
  /\ "purgeMany" \in k.routes =>
       /\ "purgeMany" \in k.service.looks
       /\ k.store.removeMany = "deleted" =>
            k.service.purgeMany \in {"deleted", "unselected"} /\ k.schema.hook # "none"
  /\ k.service.clearsOwn # {} =>
       /\ k.service.clearsOwn \subseteq {"create", "update", "delete"}
       /\ k.service.keys \subseteq {"value", "initial"}
       /\ k.store.erase = "update" /\ k.service.history = "transaction"
  /\ k.service.clearsAll # {} => \A call \in k.routes \cap Writes :
       \/ call \in k.service.clearsAll \cup k.service.clearsOwn
       \/ /\ k.service.history = "transaction"
          /\ call \in {"deleteMany", "purgeMany", "restore", "restoreMany"}

VARIABLES
  kind,     \* kind of the collection
  doc,      \* its documents
  rows,     \* versions in the history rows of each document
  cached,   \* what Redis holds for each key: no or one answer
  suspect,  \* keys that may be stale for a reason (Quiet, or a race)
  request

vars == <<kind, doc, rows, cached, suspect, request>>

service == kind.service
store == kind.store

DocStates ==
  [state : {"none", "live", "deleted", "gone"}, value : Values, active : BOOLEAN,
   initial : BOOLEAN, version : Nat,
   restored : BOOLEAN,   \* was restored once
   raced : BOOLEAN]      \* was written while another request was under way
Copies ==
  [doc : Docs, value : Values, active : BOOLEAN, initial : BOOLEAN, version : Nat]

Keys == ({"public", "id"} \X Docs) \cup ({"value"} \X Values)
          \cup {<<"initial", NoValue>>, <<"total", NoValue>>}
Initial == <<"initial", NoValue>>

Asks ==
  [call : CallNames, docs : SUBSET Docs, value : Values \cup {NoValue},
   initial : BOOLEAN, active : {"yes", "no", "unset"}, key : Keys]
Ended == {"done", "rejected"}
RequestStates ==
  [pc : {"idle", "find", "check", "begin", "commit", "record", "load", "write",
         "clear", "get", "fetch", "store"} \cup Ended,
   ask : Asks,
   alone : BOOLEAN,       \* no other request was under way at the same time
   found : SUBSET Docs,   \* documents its lookup found
   version : Nat,         \* version it has read
   mine : SUBSET Docs,    \* documents its transaction writes
   first : BOOLEAN,       \* its transaction counted no live document
   clash : BOOLEAN,       \* one of them has changed since
   clears : SUBSET Keys,  \* keys it will clear
   answer : SUBSET Copies]

TypeOK ==
  /\ kind \in CollectionKinds
  /\ doc \in [Docs -> DocStates]
  /\ \A d \in Docs : \A n \in DOMAIN rows[d] : rows[d][n] \in Nat
  /\ \A k \in Keys : cached[k] \in SUBSET SUBSET Copies /\ Cardinality(cached[k]) <= 1
  /\ suspect \subseteq Keys
  /\ request \in [Requests -> RequestStates]

Live(d) == doc[d].state = "live"
Elects == service.history = "transaction"

(* What the find hook lets a query see, by how it asks; a filter of what   *)
(* it returns on is_deleted, which is not selected, leaves nothing.        *)
Sees(how) ==
  IF how = "unselected" THEN {}
  ELSE IF kind.schema.hook = "none" THEN {"live", "deleted"}
  ELSE IF kind.schema.hook = "always" THEN {"live"}
  ELSE CASE how = "deleted" -> {"deleted"}
         [] how = "bypass" /\ kind.schema.hook = "optional" -> {"live", "deleted"}
         [] OTHER -> {"live"}
Found(how, S) == {d \in S : doc[d].state \in Sees(how)}

(* E11000: the unique index has the value, of a deleted document too. *)
Refused(d, v) ==
  /\ kind.schema.unique
  /\ \E e \in Docs \ {d} : doc[e].value = v /\ doc[e].state \in {"live", "deleted"}

(* What a cached read finds in the database. *)
Copy(d) ==
  [doc |-> d, value |-> doc[d].value, active |-> doc[d].active,
   initial |-> doc[d].initial, version |-> doc[d].version]
Answers(key) ==
  LET matching == {d \in Docs : Live(d) /\
        CASE key[1] = "public" -> d = key[2] /\ doc[d].active
          [] key[1] = "id" -> d = key[2]
          [] key[1] = "value" -> doc[d].value = key[2] /\ doc[d].active
          [] key[1] = "initial" -> doc[d].initial /\ doc[d].active
          [] key[1] = "total" -> doc[d].active} IN
  IF key[1] = "total" \/ matching = {} THEN {{Copy(d) : d \in matching}}
  ELSE {{Copy(d)} : d \in matching}

(* Calls that change what a key stands for and do not clear it: all those  *)
(* of the endpoints, the bulk calls and the restore of the settings, and   *)
(* for the key of a model's value, the calls that give the model another   *)
(* value, or demote it as they make another model the initial one.         *)
Quiet(call, new, key) ==
  \/ service.clearsAll = {}
  \/ /\ Elects
     /\ \/ call \in {"deleteMany", "purgeMany", "restore", "restoreMany"}
        \/ /\ key[1] = "value"
           /\ \E d \in Docs :
                /\ doc[d].value = key[2]
                /\ new[d].value # doc[d].value \/ (doc[d].initial /\ ~new[d].initial)

-----------------------------------------------------------------------------
(* Requests arrive *)

Ask(call, docs, value, initial, active) ==
  [call |-> call, docs |-> docs, value |-> value, initial |-> initial,
   active |-> active, key |-> Initial]
Bare(call, docs) == Ask(call, docs, NoValue, FALSE, "unset")
Reading(key) == [Bare("read", {}) EXCEPT !.key = key]

Fresh ==
  [pc |-> "idle", ask |-> Bare("read", {}), alone |-> FALSE, found |-> {}, version |-> 0,
   mine |-> {}, first |-> FALSE, clash |-> FALSE, clears |-> {}, answer |-> {}]

(* What earlier calls have left, one after the other. *)
Earlier(state, value, only) ==
  [d \in Docs |->
     [state |-> state[d], value |-> value[d],
      active |-> ~(state[d] = "deleted" /\ store.idles), initial |-> d \in only,
      version |-> 1, restored |-> FALSE, raced |-> FALSE]]

Init ==
  /\ kind \in Kinds
  /\ \E state \in [Docs -> {"none", "live", "deleted"}], value \in [Docs -> Values],
        only \in {{}} \cup {{d} : d \in Docs} :
       /\ \A d, e \in Docs :
            d # e /\ state[d] # "none" /\ state[e] # "none" => value[d] # value[e]
       /\ \A d \in only : state[d] # "none" /\ Elects
       /\ doc = Earlier(state, value, only)
  /\ rows = [d \in Docs |-> <<>>]
  /\ cached = [k \in Keys |-> {}]
  /\ suspect = {}
  /\ request = [r \in Requests |-> Fresh]

AtRest(r) == request[r].pc \in Ended \cup {"idle"}
UnderWay == {r \in Requests : ~AtRest(r)}

Become(r, q) == request' = [request EXCEPT ![r] = q]
Goto(r, pc) == Become(r, [request[r] EXCEPT !.pc = pc])
Finish(r, pc) == Become(r, [Fresh EXCEPT !.pc = pc])

PrepareUnchecked(call, checked, value) ==   \* mutant: updates are not checked
  IF ~checked /\ call \in service.checks \ {"update"} THEN "check"
  ELSE IF Elects THEN "begin"
  ELSE IF call = "update" /\ service.history = "after" THEN "record" ELSE "write"

(* The steps after the lookups of a create or an update. *)
Prepare(call, checked, value) ==
  IF ~checked /\ call \in service.checks /\ value # NoValue THEN "check"
  ELSE IF Elects THEN "begin"
  ELSE IF call = "update" /\ service.history = "after" THEN "record" ELSE "write"

Entry(ask) ==
  CASE ask.call = "read" -> "get"
    [] ask.call \in service.looks \/ (ask.call = "purge" /\ service.purge # "none") -> "find"
    [] ask.call = "create" -> Prepare("create", FALSE, ask.value)
    [] ask.call = "delete" /\ "delete" \notin service.looks /\ store.erase = "save" -> "load"
    [] OTHER -> "write"

Arrive(r, ask) ==
  /\ request[r].pc = "idle" /\ ask.call \in kind.routes
  /\ ask.call = "create" => \E d \in Docs : doc[d].state = "none"
  /\ UnderWay # {} =>
       /\ Cardinality(UnderWay) < Concurrent
       /\ ask.call \in Overlapping
       /\ \A s \in UnderWay : request[s].ask.call \in Overlapping
  /\ request' = [s \in Requests |->
       IF s = r THEN [Fresh EXCEPT !.pc = Entry(ask), !.ask = ask, !.found = ask.docs,
                                   !.alone = UnderWay = {}]
       ELSE IF s \in UnderWay THEN [request[s] EXCEPT !.alone = FALSE]
       ELSE request[s]]
  /\ UNCHANGED <<kind, doc, rows, cached, suspect>>

Calls(r) ==
  \/ \E v \in Values, i \in {Elects, FALSE} : Arrive(r, Ask("create", {}, v, i, "unset"))
  \/ \E d \in Docs, v \in Values : Arrive(r, Ask("update", {d}, v, FALSE, "unset"))
  \/ \E d \in Docs, a \in {"yes", "no"} : Arrive(r, Ask("update", {d}, NoValue, FALSE, a))
  \/ \E d \in Docs : Arrive(r, Ask("update", {d}, NoValue, Elects, "unset"))
  \/ \E d \in Docs, c \in {"delete", "purge", "restore"} : Arrive(r, Bare(c, {d}))
  \/ \E S \in SUBSET Docs, a \in {"yes", "no"} :
       Arrive(r, Ask("updateMany", S, NoValue, FALSE, a))
  \/ \E S \in (SUBSET Docs) \ {{}}, c \in Bulk \ {"updateMany"} : Arrive(r, Bare(c, S))
  \/ \E k \in Keys : k[1] \in service.keys /\ Arrive(r, Reading(k))

-----------------------------------------------------------------------------
(* Lookups *)

How(call) ==
  CASE call = "purge" -> service.purge
    [] call = "purgeMany" -> service.purgeMany
    [] OTHER -> "plain"

(* The lookup of one document answers 404; that of a list goes on. *)
Find(r) ==
  LET ask == request[r].ask
      found == Found(How(ask.call), ask.docs) IN
  /\ request[r].pc = "find"
  /\ IF found = {} /\ ask.call \in Edits THEN Finish(r, "rejected")
     ELSE Become(r, [request[r] EXCEPT
            !.found = found,
            !.version = IF ask.call = "update" /\ service.history # "none"
                        THEN doc[CHOOSE d \in found : TRUE].version ELSE 0,
            !.pc = CASE ask.call = "update" -> Prepare("update", FALSE, ask.value)
                     [] ask.call = "delete" /\ store.erase = "save" -> "load"
                     [] OTHER -> "write"])
  /\ UNCHANGED <<kind, doc, rows, cached, suspect>>

(* 409 when another live document has the value; the index and the check   *)
(* of the models look at all of the others.                                *)
Check(r) ==
  LET ask == request[r].ask IN
  /\ request[r].pc = "check"
  /\ IF \E e \in Docs \ ask.docs : Live(e) /\ doc[e].value = ask.value
     THEN Finish(r, "rejected")
     ELSE Goto(r, Prepare(ask.call, TRUE, ask.value))
  /\ UNCHANGED <<kind, doc, rows, cached, suspect>>

-----------------------------------------------------------------------------
(* Writes *)

ClearedOwn(call, v) ==   \* mutant: only the document's own key is cleared
  IF call \in service.clearsAll \cup service.clearsOwn THEN {<<"value", v>>} \cap Keys
  ELSE {}

ClearedBy(call, v) ==
  IF call \in service.clearsAll THEN Keys
  ELSE IF call \in service.clearsOwn THEN {<<"value", v>>, Initial} ELSE {}

(* A write of the documents, after which the cache is cleared: v is the    *)
(* value of the document written.  Transactions that have begun clash.     *)
Put(r, new, v) ==
  LET changed == {d \in Docs : new[d] # doc[d]}
      clears == ClearedBy(request[r].ask.call, v) IN
  /\ doc' = [d \in Docs |->
       IF d \in changed /\ ~request[r].alone THEN [new[d] EXCEPT !.raced = TRUE]
       ELSE new[d]]
  /\ suspect' = suspect \cup
       {k \in Keys : changed # {} /\ k[1] \in service.keys
                      /\ Quiet(request[r].ask.call, new, k)}
  /\ request' = [s \in Requests |->
       IF s # r THEN [request[s] EXCEPT !.clash = @ \/ request[s].mine \cap changed # {}]
       ELSE IF clears = {} THEN [Fresh EXCEPT !.pc = "done"]
       ELSE [request[r] EXCEPT !.pc = "clear", !.clears = clears, !.mine = {}]]
  /\ UNCHANGED <<kind, cached>>

AppliedWhole(d, ask) ==   \* mutant: absent fields are written as well
  [doc[d] EXCEPT !.value = ask.value, !.active = ask.active = "yes"]

Applied(d, ask) ==
  [doc[d] EXCEPT
     !.value = IF ask.value # NoValue THEN ask.value ELSE @,
     !.active = IF ask.active = "unset" THEN @ ELSE ask.active = "yes"]

Created(d, ask, initial) ==
  [state |-> "live", value |-> ask.value, active |-> TRUE, initial |-> initial,
   version |-> 1, restored |-> FALSE, raced |-> FALSE]

Insert(r) ==
  LET ask == request[r].ask IN
  /\ request[r].pc = "write" /\ ask.call = "create"
  /\ \E d \in Docs :
       /\ doc[d].state = "none"
       /\ IF Refused(d, ask.value)
          THEN Finish(r, "rejected") /\ UNCHANGED <<kind, doc, cached, suspect>>
          ELSE Put(r, [doc EXCEPT ![d] = Created(d, ask, FALSE)], ask.value)
  /\ UNCHANGED rows

RecordNext(r) ==   \* mutant: the row has the version to be
  /\ request[r].pc = "record"
  /\ \E d \in request[r].found :
       rows' = [rows EXCEPT ![d] = Append(@, request[r].version + 1)]
  /\ Goto(r, "write")
  /\ UNCHANGED <<kind, doc, cached, suspect>>

(* The row of credits-profit-history, before the write. *)
Record(r) ==
  /\ request[r].pc = "record"
  /\ \E d \in request[r].found :
       rows' = [rows EXCEPT ![d] = Append(@, request[r].version)]
  /\ Goto(r, "write")
  /\ UNCHANGED <<kind, doc, cached, suspect>>

(* findByIdAndUpdate: none is found when the document was deleted since. *)
Update(r) ==
  LET ask == request[r].ask IN
  /\ request[r].pc = "write" /\ ask.call = "update"
  /\ \E d \in ask.docs :
       LET versioned == IF service.history = "after"
             THEN [Applied(d, ask) EXCEPT !.version = request[r].version + 1]
             ELSE Applied(d, ask) IN
       CASE Found("plain", {d}) = {} /\ "update" \in service.strict ->
              Finish(r, "rejected") /\ UNCHANGED <<kind, doc, cached, suspect>>
         [] Found("plain", {d}) = {} /\ "update" \notin service.strict ->
              Put(r, doc, doc[d].value)
         [] Found("plain", {d}) # {} /\ Refused(d, versioned.value) ->
              Finish(r, "rejected") /\ UNCHANGED <<kind, doc, cached, suspect>>
         [] OTHER -> Put(r, [doc EXCEPT ![d] = versioned], versioned.value)
  /\ UNCHANGED rows

Deleted(d) ==
  [doc[d] EXCEPT !.state = "deleted", !.active = @ /\ ~store.idles]

(* softDeleteById: the document is loaded, *)
Load(r) ==
  LET ask == request[r].ask
      found == Found("plain", ask.docs) IN
  /\ request[r].pc = "load"
  /\ CASE found # {} ->
            Become(r, [request[r] EXCEPT !.pc = "write", !.found = found])
              /\ UNCHANGED <<kind, doc, cached, suspect>>
       [] found = {} /\ "delete" \in service.strict ->
            Finish(r, "rejected") /\ UNCHANGED <<kind, doc, cached, suspect>>
       [] OTHER -> Put(r, doc, NoValue)
  /\ UNCHANGED rows

(* and saved by its id, whatever has become of it; or one update.  A save  *)
(* of a document that is gone fails.                                       *)
Delete(r) ==
  LET ask == request[r].ask
      hit == IF store.erase = "save"
             THEN {d \in ask.docs : doc[d].state \in {"live", "deleted"}}
             ELSE Found("plain", ask.docs) IN
  /\ request[r].pc = "write" /\ ask.call = "delete"
  /\ IF hit = {} /\ (store.erase = "save" \/ "delete" \in service.strict)
     THEN Finish(r, "rejected") /\ UNCHANGED <<kind, doc, cached, suspect>>
     ELSE \E d \in ask.docs :
            Put(r, [e \in Docs |-> IF e \in hit THEN Deleted(e) ELSE doc[e]], doc[d].value)
  /\ UNCHANGED rows

Gone(S) == [d \in Docs |-> IF d \in S THEN [doc[d] EXCEPT !.state = "gone"] ELSE doc[d]]

PurgeLive(r) ==   \* mutant: the permanent delete cannot see a deleted document
  LET hit == Found("plain", request[r].ask.docs) IN
  /\ request[r].pc = "write" /\ request[r].ask.call = "purge"
  /\ IF hit = {} /\ "purge" \in service.strict
     THEN Finish(r, "rejected") /\ UNCHANGED <<kind, doc, cached, suspect>>
     ELSE Put(r, Gone(hit), NoValue)
  /\ UNCHANGED rows

(* findByIdAndDelete. *)
Purge(r) ==
  LET ask == request[r].ask
      hit == Found(store.remove, ask.docs) IN
  /\ request[r].pc = "write" /\ ask.call = "purge"
  /\ IF hit = {} /\ "purge" \in service.strict
     THEN Finish(r, "rejected") /\ UNCHANGED <<kind, doc, cached, suspect>>
     ELSE Put(r, Gone(hit), NoValue)
  /\ UNCHANGED rows

Restored(S) ==
  [d \in Docs |->
     IF d \in S THEN [doc[d] EXCEPT !.state = "live", !.active = @ /\ ~store.idles,
                                    !.restored = TRUE]
     ELSE doc[d]]

(* findOneAndUpdate and updateMany of is_deleted: true; a hook that hides  *)
(* always turns that into the live ones.                                   *)
Restore(r) ==
  LET ask == request[r].ask
      hit == Found("deleted", ask.docs) IN
  /\ request[r].pc = "write" /\ ask.call \in {"restore", "restoreMany"}
  /\ IF hit = {} /\ ask.call = "restore"
     THEN Finish(r, "rejected") /\ UNCHANGED <<kind, doc, cached, suspect>>
     ELSE Put(r, Restored(hit), NoValue)
  /\ UNCHANGED rows

(* updateMany and deleteMany of the ids found: only the hook that hides    *)
(* always is also one of updateMany, and no hook is one of deleteMany.     *)
WriteMany(r) ==
  LET ask == request[r].ask
      stored == {d \in request[r].found : doc[d].state \in {"live", "deleted"}}
      updated == {d \in stored : kind.schema.hook = "always" => Live(d)}
      removed == {d \in stored : store.removeMany = "deleted" => ~Live(d)} IN
  /\ request[r].pc = "write" /\ ask.call \in Listed
  /\ Put(r, CASE ask.call = "purgeMany" -> Gone(removed)
              [] ask.call = "updateMany" ->
                   [d \in Docs |-> IF d \in updated THEN Applied(d, ask) ELSE doc[d]]
              [] ask.call = "deleteMany" ->
                   [d \in Docs |-> IF d \in updated
                                   THEN [doc[d] EXCEPT !.state = "deleted"] ELSE doc[d]],
         NoValue)
  /\ UNCHANGED rows

-----------------------------------------------------------------------------
(* The transactions of the settings *)

(* Its snapshot: the documents that are to lose is_initial, deleted ones   *)
(* too; without is_initial in the payload, whether any is live.            *)
Begin(r) ==
  LET ask == request[r].ask IN
  /\ request[r].pc = "begin"
  /\ Become(r, [request[r] EXCEPT
       !.pc = "commit", !.clash = FALSE,
       !.mine = ask.docs \cup (IF ask.initial
                  THEN {d \in Docs : doc[d].initial /\ doc[d].state \in {"live", "deleted"}}
                  ELSE {}),
       !.first = ask.call = "create" /\ ~ask.initial /\ \A d \in Docs : ~Live(d)])
  /\ UNCHANGED <<kind, doc, rows, cached, suspect>>

DemotedNone(S) == doc   \* mutant: the former initial setting is kept

Demoted(S) == [d \in Docs |-> IF d \in S THEN [doc[d] EXCEPT !.initial = FALSE] ELSE doc[d]]

(* A write conflict, a value taken or a document deleted since aborts it. *)
Commit(r) ==
  LET ask == request[r].ask
      others == Demoted(request[r].mine \ ask.docs)
      initial == ask.initial \/ request[r].first IN
  /\ request[r].pc = "commit"
  /\ \E d \in IF ask.call = "create" THEN {e \in Docs : doc[e].state = "none"}
              ELSE ask.docs :
       LET aborted == \/ request[r].clash \/ Refused(d, ask.value)
                      \/ ask.call = "update" /\ Found("plain", {d}) = {}
           updated == [Applied(d, ask) EXCEPT
                         !.initial = @ \/ ask.initial, !.version = request[r].version + 1] IN
       CASE aborted ->
              Finish(r, "rejected") /\ UNCHANGED <<kind, doc, rows, cached, suspect>>
         [] ~aborted /\ ask.call = "create" ->
              /\ Put(r, [others EXCEPT ![d] = Created(d, ask, initial)], ask.value)
              /\ UNCHANGED rows
         [] ~aborted /\ ask.call = "update" ->
              /\ Put(r, [others EXCEPT ![d] = updated], updated.value)
              /\ rows' = [rows EXCEPT ![d] = Append(@, request[r].version)]

-----------------------------------------------------------------------------
(* The cache *)

Clear(r) ==
  /\ request[r].pc = "clear"
  /\ cached' = [k \in Keys |-> IF k \in request[r].clears THEN {} ELSE cached[k]]
  /\ suspect' = suspect \ request[r].clears
  /\ Finish(r, "done")
  /\ UNCHANGED <<kind, doc, rows>>

(* withCache: a hit ends the read. *)
Get(r) ==
  /\ request[r].pc = "get"
  /\ IF cached[request[r].ask.key] # {} THEN Finish(r, "done") ELSE Goto(r, "fetch")
  /\ UNCHANGED <<kind, doc, rows, cached, suspect>>

(* A 404 or null is not stored; the defaults of the settings are. *)
Fetch(r) ==
  /\ request[r].pc = "fetch"
  /\ \E answer \in Answers(request[r].ask.key) :
       IF answer = {} /\ ~service.defaults THEN Finish(r, "rejected")
       ELSE Become(r, [request[r] EXCEPT !.pc = "store", !.answer = answer])
  /\ UNCHANGED <<kind, doc, rows, cached, suspect>>

Store(r) ==
  LET key == request[r].ask.key IN
  /\ request[r].pc = "store"
  /\ cached' = [cached EXCEPT ![key] = {request[r].answer}]
  /\ suspect' = IF request[r].alone THEN suspect \ {key} ELSE suspect \cup {key}
  /\ Finish(r, "done")
  /\ UNCHANGED <<kind, doc, rows>>

Step(r) ==
  \/ Find(r) \/ Check(r) \/ Insert(r) \/ Record(r) \/ Update(r) \/ Load(r)
  \/ Delete(r) \/ Purge(r) \/ Restore(r) \/ WriteMany(r)
  \/ Begin(r) \/ Commit(r) \/ Clear(r) \/ Get(r) \/ Fetch(r) \/ Store(r)

Next == \E r \in Requests : Step(r) \/ Calls(r)

Spec == Init /\ [][Next]_vars

-----------------------------------------------------------------------------
(* Properties *)

(* Two documents share a value only where the code leaves room for it: one *)
(* was written while another request was under way between the check and   *)
(* its write, or was restored, which checks nothing.  A unique index       *)
(* leaves none.                                                            *)
SharedOnlyByRaceOrRestore ==
  \A d \in Docs : \A e \in Docs \ {d} :
    doc[d].value = doc[e].value /\ {doc[d].state, doc[e].state} \subseteq {"live", "deleted"} =>
      /\ ~kind.schema.unique
      /\ Live(d) /\ Live(e) /\ service.checks # {} =>
           \E x \in {d, e} : doc[x].raced \/ doc[x].restored

(* A setting that charges are computed with is the only live initial one,  *)
(* unless a race or a restore made another.                                *)
OneInitialSetting ==
  \A d, e \in Docs :
    d # e /\ Live(d) /\ Live(e) /\ doc[d].initial /\ doc[e].initial =>
      \E x \in {d, e} : doc[x].raced \/ doc[x].restored

(* Every version a document has left has a row; and one row only, unless   *)
(* updates raced, where the row is written in the transaction of the       *)
(* update (the row of a credits profit stays when its update then fails).  *)
VersionsRecorded ==
  \A d \in Docs : service.history # "none" =>
    /\ \A v \in 1 .. doc[d].version - 1 : \E n \in DOMAIN rows[d] : rows[d][n] = v
    /\ Elects /\ ~doc[d].raced => \A m, n \in DOMAIN rows[d] : rows[d][m] = rows[d][n] => m = n

(* A cached answer is what the database would answer now, is_initial and   *)
(* version included, unless a reader raced with a writer, a writer has     *)
(* still to clear it, or the call that changed it is one of those that     *)
(* clear nothing of the kind (Quiet).                                      *)
StaleOnlyIfSuspect ==
  \A k \in Keys : \A answer \in cached[k] :
    answer \notin Answers(k) =>
      k \in suspect \/ \E r \in Requests : k \in request[r].clears

(* What a request that ran alone reports is what it has done: a deletion   *)
(* leaves no live document, a permanent one none at all, one of many none  *)
(* of those it has found and none that is deleted, a restore a live one,   *)
(* and a restore is refused only if there is nothing to restore.  The      *)
(* exceptions: contacts and histories look for what they cannot remove, a  *)
(* deleted document; notifications that were deleted are out of reach for  *)
(* every later call; and what a deletion of many looks for may leave out   *)
(* the deleted documents, which then stay (five services filter on a field *)
(* that their query does not select: feature, its endpoints and popups,    *)
(* the billing setting and the credits profit).                            *)
Overlooks ==
  service.purge = "bypass" /\ store.remove = "plain" /\ kind.schema.hook = "optional"
Reports(r) ==
  LET ask == request[r].ask IN
  request[r].alone /\ request'[r].pc \in Ended =>
    \A d \in ask.docs :
      IF request'[r].pc = "rejected"
      THEN ask.call = "restore" /\ kind.schema.hook # "always" => doc[d].state # "deleted"
      ELSE CASE ask.call \in {"delete", "deleteMany"} -> doc'[d].state # "live"
             [] ask.call = "purge" ->
                  doc'[d].state = "gone" \/ (Overlooks /\ doc'[d].state = "deleted")
             [] ask.call = "purgeMany" ->
                  /\ d \in request[r].found =>
                       doc'[d].state = "gone" \/ kind.schema.hook = "always"
                  /\ "deleted" \in Sees(service.purgeMany) => doc'[d].state # "deleted"
             [] ask.call = "restore" -> doc'[d].state = "live"
             [] OTHER -> TRUE
ReportsAreTrue == [][\A r \in Requests : ~AtRest(r) => Reports(r)]_vars
=============================================================================
