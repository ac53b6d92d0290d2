------------------------------ MODULE Catalog ------------------------------
(***************************************************************************)
(* What is for sale: Package documents, their PackagePrice and             *)
(* PackageFeature rows, the PackageHistory rows that subscriptions keep as *)
(* snapshots, and the public copies in Redis (package:<id>); with the      *)
(* routes of package.service.ts and package-price.service.ts that move     *)
(* them.  No route uses a Mongo transaction (the controllers pass no       *)
(* session): every await is a step, and other requests take theirs in      *)
(* between.  The price writes of one update run at the same time           *)
(* (Promise.all): each is a job of the request, and jobs go on when the    *)
(* request was refused.                                                    *)
(*                                                                         *)
(* A row says who wrote its price and credits last, in place of the        *)
(* amounts.  The bulk routes repeat the single ones for each id;           *)
(* restorePackages differs and is a call of its own.                       *)
(***************************************************************************)
EXTENDS Integers, Sequences, FiniteSets

CONSTANTS
  Packages, Intervals, Features,  \* ids
  Requests,      \* requests; each makes one call
  Asks,          \* the calls they choose from, with their payloads
  Overlapping,   \* bound: those that may be under way at the same time
  Concurrent,    \* bound: and how many of them
  Stock,         \* packages created before the requests
  Nobody         \* writer of what is in stock

Flags == {"yes", "no", "unset"}   \* is_initial in a payload
WriteCalls == {"createPackage", "updatePackage"}
PriceCalls == {"createPackagePrice", "createPackagePrices",
               "updatePackagePrice", "deletePackagePrice"}
Restores == {"restorePackage", "restorePackages"}
Deletions == {"deletePackage", "deletePackagePermanent"}
CallNames == WriteCalls \cup PriceCalls \cup Restores \cup Deletions
               \cup {"updatePackageIsInitial", "getPublicPackage"}

(* What a route lets through: prices give is_initial for each interval     *)
(* listed, repriced says whether there is a list, which may be empty in an *)
(* update; no features stand for no list of them.                          *)
NoPrices == [i \in {} |-> "unset"]
PriceLists == UNION {[S -> Flags] : S \in SUBSET Intervals}
Payloads ==
  {q \in [call : CallNames, prices : PriceLists, repriced : BOOLEAN,
          features : SUBSET Features, initial : Flags] :
     /\ ~q.repriced => q.prices = NoPrices
     /\ q.repriced => q.call \in WriteCalls \cup PriceCalls
     /\ q.features # {} => q.call \in WriteCalls
     /\ q.initial # "unset" => q.call \in WriteCalls \cup {"updatePackageIsInitial"}
     /\ CASE q.call = "createPackage" -> q.prices # NoPrices /\ q.features # {}
          [] q.call = "updatePackageIsInitial" -> q.initial # "unset"
          [] q.call = "createPackagePrices" -> q.prices # NoPrices
          [] q.call \in PriceCalls \ {"createPackagePrices"} ->
               \E i \in Intervals : DOMAIN q.prices = {i}
          [] OTHER -> TRUE}

ASSUME AsksAssumption == Asks \subseteq Payloads /\ Overlapping \subseteq Asks
ASSUME CatalogAssumption ==
  /\ Stock \subseteq Packages
  /\ Nobody \notin Requests /\ Concurrent \in Nat \ {0}

VARIABLES
  package,   \* Package documents
  price,     \* PackagePrice rows, unique by (package, interval)
  feature,   \* PackageFeature rows, unique by (package, feature)
  configs,   \* packages with PackageFeatureConfig rows that are not deleted
  history,   \* PackageHistory rows of each package, oldest first
  cached,    \* public copies in Redis: no or one document
  request,
  latest     \* request that began last

vars == <<package, price, feature, configs, history, cached, request, latest>>

DocStates == {"none", "live", "deleted"}
PackageStates ==
  [state : DocStates \cup {"gone"}, is_initial : BOOLEAN, version : Nat]
PriceStates ==
  [state : DocStates, is_initial : BOOLEAN, by : Requests \cup {Nobody}]
Offers ==
  [prices : UNION {[S -> [is_initial : BOOLEAN, by : Requests \cup {Nobody}]] :
                     S \in SUBSET Intervals},
   features : SUBSET Features]
Documents == [version : Nat, is_initial : BOOLEAN, offer : Offers]

(* A price write under way: what is left of it, and what it writes. *)
Jobs == [step : {"idle", "find", "demote", "write", "clear"},
         kind : {"delete", "price", "flag"}, is_initial : Flags]

Ended == {"done", "rejected"}
Waiting == {"remove", "rewrite", "elect", "priceRoute"}
RequestStates ==
  [pc : {"idle", "find", "see", "check", "package", "existing", "demoteAll",
         "insert", "clearPrices", "features", "dropFeatures", "addFeatures",
         "reviveFeatures", "clearOthers", "create", "write", "mark", "delete",
         "dropPrices", "dropConfigs", "restore", "restored", "revive", "clear",
         "read", "record", "get", "fetch", "store"} \cup Waiting \cup Ended,
   ask : Payloads, package : Packages,
   alone : BOOLEAN,        \* no other request was under way at the same time
   version : Nat, seen : SUBSET Intervals, had : SUBSET Features,
   first : SUBSET Intervals, doc : SUBSET Documents,  \* what it has read
   job : [Intervals -> Jobs]]

TypeOK ==
  /\ package \in [Packages -> PackageStates]
  /\ price \in [Packages -> [Intervals -> PriceStates]]
  /\ feature \in [Packages -> [Features -> DocStates]]
  /\ configs \subseteq Packages
  /\ \A p \in Packages : \A n \in DOMAIN history[p] :
       history[p][n].version \in Nat /\ history[p][n].offer \in Offers
  /\ \A p \in Packages : cached[p] \in SUBSET Documents /\ Cardinality(cached[p]) <= 1
  /\ request \in [Requests -> RequestStates]
  /\ latest \subseteq Requests /\ Cardinality(latest) <= 1

LivePrices(p) == {i \in Intervals : price[p][i].state = "live"}
LiveFeatures(p) == {f \in Features : feature[p][f] = "live"}
Exists(p) == package[p].state \in {"live", "deleted"}
Live(p) == package[p].state = "live"

Offer(p) ==
  [prices |-> [i \in LivePrices(p) |->
                 [is_initial |-> price[p][i].is_initial, by |-> price[p][i].by]],
   features |-> LiveFeatures(p)]

(* getPackage and getPublicPackage: the package with its rows. *)
Document(p) ==
  [version |-> package[p].version, is_initial |-> package[p].is_initial,
   offer |-> Offer(p)]

Idle == [step |-> "idle", kind |-> "price", is_initial |-> "unset"]
Reading == [call |-> "getPublicPackage", prices |-> NoPrices, repriced |-> FALSE,
            features |-> {}, initial |-> "unset"]
Fresh(p) ==
  [pc |-> "idle", ask |-> Reading, package |-> p, alone |-> FALSE, version |-> 0,
   seen |-> {}, had |-> {}, first |-> {}, doc |-> {},
   job |-> [i \in Intervals |-> Idle]]

(* What earlier calls of createPackage have left. *)
Init ==
  /\ \E stocked \in [Stock -> (SUBSET Intervals) \ {{}}],
        only \in {{}} \cup {{p} : p \in Stock}, initial \in [Stock -> Intervals] :
       /\ \A p \in Stock : initial[p] \in stocked[p]
       /\ package = [p \in Packages |->
            [state |-> IF p \in Stock THEN "live" ELSE "none",
             is_initial |-> p \in only,
             version |-> IF p \in Stock THEN 1 ELSE 0]]
       /\ price = [p \in Packages |-> [i \in Intervals |->
            [state |-> IF p \in Stock /\ i \in stocked[p] THEN "live" ELSE "none",
             is_initial |-> p \in Stock /\ i = initial[p], by |-> Nobody]]]
  /\ feature = [p \in Packages |-> [f \in Features |->
       IF p \in Stock THEN "live" ELSE "none"]]
  /\ configs = Stock
  /\ history = [p \in Packages |->
       IF p \in Stock THEN <<[version |-> 1, offer |-> Offer(p)]>> ELSE <<>>]
  /\ cached = [p \in Packages |-> {}]
  /\ \E p \in Packages : request = [r \in Requests |-> Fresh(p)]
  /\ latest = {}

JobsDone(r) == \A i \in Intervals : request[r].job[i].step = "idle"
AtRest(r) == request[r].pc \in Ended \cup {"idle"} /\ JobsDone(r)
UnderWay == {r \in Requests : ~AtRest(r)}

Goto(r, pc) == request' = [request EXCEPT ![r].pc = pc]
Become(r, q) == request' = [request EXCEPT ![r] = q]

(* A request forgets what it has read when it ends. *)
Finish(r, pc) ==
  Become(r, [request[r] EXCEPT !.pc = pc, !.version = 0, !.seen = {}, !.had = {},
                               !.first = {}, !.doc = {}])

-----------------------------------------------------------------------------
(* Requests arrive *)

(* The price that createPackagePrices inserts as initial: the first that   *)
(* asks for it; createPackage takes the first of all when none does.       *)
Firsts(call, prices, added) ==
  LET asking == {i \in added : prices[i] = "yes"} IN
  IF asking # {} THEN {{i} : i \in asking}
  ELSE IF call = "createPackage" THEN {{i} : i \in added} ELSE {{}}

Job(kind, flag) == [step |-> "find", kind |-> kind, is_initial |-> flag]

(* The first step of a call. *)
Entry(call, initial) ==
  CASE call = "createPackage" -> IF initial = "yes" THEN "clearOthers" ELSE "create"
    [] call \in {"updatePackage", "updatePackageIsInitial"} \cup Deletions -> "find"
    [] call = "createPackagePrice" -> "check"
    [] call = "createPackagePrices" -> "demoteAll"
    [] call \in {"updatePackagePrice", "deletePackagePrice"} -> "priceRoute"
    [] call \in Restores -> "restore"
    [] call = "getPublicPackage" -> "get"

(* The jobs a price route begins with. *)
EntryJobs(call, prices) ==
  [i \in Intervals |->
     IF i \notin DOMAIN prices THEN Idle
     ELSE CASE call = "updatePackagePrice" -> Job("price", prices[i])
            [] call = "deletePackagePrice" -> Job("delete", "unset")
            [] OTHER -> Idle]

Arrive(r, p, ask) ==
  LET call == ask.call
  IN /\ request[r].pc = "idle"
     /\ \/ UnderWay = {}
        \/ /\ Cardinality(UnderWay) < Concurrent
           /\ {ask} \cup {request[s].ask : s \in UnderWay} \subseteq Overlapping
     /\ package[p].state = "none" <=> call = "createPackage"
     /\ \E first \in IF call = "createPackagePrices"
                     THEN Firsts(call, ask.prices, DOMAIN ask.prices) ELSE {{}} :
          request' = [s \in Requests |->
            IF s # r THEN [request[s] EXCEPT !.alone = @ /\ s \notin UnderWay]
            ELSE [Fresh(p) EXCEPT
                    !.pc = IF call = "createPackagePrices" /\ first = {} THEN "insert"
                           ELSE Entry(call, ask.initial),
                    !.ask = ask, !.alone = UnderWay = {}, !.first = first,
                    !.job = EntryJobs(call, ask.prices)]]
     /\ latest' = {r}
     /\ UNCHANGED <<package, price, feature, configs, history, cached>>

-----------------------------------------------------------------------------
(* Prices: updatePackagePrice and deletePackagePrice, as jobs *)

WithJob(r, i, job) == request' = [request EXCEPT ![r].job[i] = job]

(* A job that fails rejects its request at once (Promise.all). *)
JobFails(r, i) ==
  request' = [request EXCEPT ![r].job[i] = Idle, ![r].pc = "rejected"]

JobFind(r, i) ==
  LET job == request[r].job[i]
  IN /\ job.step = "find"
     /\ IF i \in LivePrices(request[r].package)
        THEN WithJob(r, i, [job EXCEPT !.step =
               IF job.is_initial = "yes" THEN "demote" ELSE "write"])
        ELSE JobFails(r, i)
     /\ UNCHANGED <<package, price, feature, configs, history, cached, latest>>

JobDemoteFound(r, i) ==     \* mutant: only the rows a find would see
  LET job == request[r].job[i]
      p == request[r].package
  IN /\ job.step = "demote"
     /\ price' = [price EXCEPT ![p] = [j \in Intervals |->
          IF j = i \/ @[j].state # "live" THEN @[j]
          ELSE [@[j] EXCEPT !.is_initial = FALSE]]]
     /\ WithJob(r, i, [job EXCEPT !.step = "write"])
     /\ UNCHANGED <<package, feature, configs, history, cached, latest>>

(* updateMany runs without the hook of pre(/^find/): deleted rows, too. *)
JobDemote(r, i) ==
  LET job == request[r].job[i]
      p == request[r].package
  IN /\ job.step = "demote"
     /\ price' = [price EXCEPT ![p] = [j \in Intervals |->
          IF j = i THEN @[j] ELSE [@[j] EXCEPT !.is_initial = FALSE]]]
     /\ WithJob(r, i, [job EXCEPT !.step = "write"])
     /\ UNCHANGED <<package, feature, configs, history, cached, latest>>

Flagged(was, flag) == IF flag = "unset" THEN was ELSE flag = "yes"

(* findByIdAndUpdate, and findById with save for a deletion. *)
JobWrite(r, i) ==
  LET job == request[r].job[i]
      p == request[r].package
      row == price[p][i]
  IN /\ job.step = "write"
     /\ price' = [price EXCEPT ![p][i] =
          IF row.state # "live" THEN row
          ELSE IF job.kind = "delete" THEN [row EXCEPT !.state = "deleted"]
          ELSE [row EXCEPT !.is_initial = Flagged(@, job.is_initial),
                           !.by = IF job.kind = "price" THEN r ELSE @]]
     /\ WithJob(r, i, [job EXCEPT !.step = "clear"])
     /\ UNCHANGED <<package, feature, configs, history, cached, latest>>

NoCopies == [p \in Packages |-> {}]

JobClear(r, i) ==
  /\ request[r].job[i].step = "clear"
  /\ cached' = NoCopies
  /\ WithJob(r, i, Idle)
  /\ UNCHANGED <<package, price, feature, configs, history, latest>>

-----------------------------------------------------------------------------
(* Steps of a request *)

FindPackage(r) ==
  LET q == request[r]
      p == q.package
  IN /\ q.pc = "find"
     /\ \/ /\ IF q.ask.call = "deletePackagePermanent" THEN Exists(p) ELSE Live(p)
           /\ Become(r, [q EXCEPT !.version = package[p].version,
                !.pc = IF q.ask.call \in Deletions THEN "delete"
                       ELSE IF q.ask.repriced THEN "see"
                       ELSE IF q.ask.features # {} THEN "features"
                       ELSE IF q.ask.initial = "yes" THEN "clearOthers"
                       ELSE IF q.ask.call = "updatePackageIsInitial" THEN "mark"
                       ELSE "write"])
        \/ /\ IF q.ask.call = "deletePackagePermanent" THEN ~Exists(p) ELSE ~Live(p)
           /\ Finish(r, "rejected")
     /\ UNCHANGED <<package, price, feature, configs, history, cached, latest>>

(* updatePackage reads the prices and begins to delete those not listed. *)
SeePrices(r) ==
  LET q == request[r]
      seen == LivePrices(q.package)
  IN /\ q.pc = "see"
     /\ Become(r, [q EXCEPT !.pc = "remove", !.seen = seen,
          !.job = [i \in Intervals |-> IF i \in seen \ DOMAIN q.ask.prices
                                       THEN Job("delete", "unset") ELSE Idle]])
     /\ UNCHANGED <<package, price, feature, configs, history, cached, latest>>

Added(q) == DOMAIN q.ask.prices \ q.seen

(* The listed prices that were there are written at the same time. *)
Rewriting(q) ==
  [q EXCEPT !.pc = "rewrite",
            !.job = [i \in Intervals |->
               IF i \in q.seen \cap DOMAIN q.ask.prices THEN Job("price", q.ask.prices[i])
               ELSE Idle]]

Removed(r) ==
  LET q == request[r]
  IN /\ q.pc = "remove" /\ JobsDone(r)
     /\ Become(r, IF Added(q) # {} THEN [q EXCEPT !.pc = "check"] ELSE Rewriting(q))
     /\ UNCHANGED <<package, price, feature, configs, history, cached, latest>>

(* Intervals are administered elsewhere: one may be missing or inactive    *)
(* when a request looks at it.                                             *)
CheckIntervals(r) ==
  LET q == request[r]
  IN /\ q.pc = "check"
     /\ \/ \E first \in Firsts(q.ask.call, q.ask.prices, Added(q)) :
             Become(r, [q EXCEPT !.first = first,
               !.pc = IF q.ask.call = "createPackagePrice" THEN "package"
                      ELSE IF first # {} THEN "demoteAll" ELSE "insert"])
        \/ Finish(r, "rejected")
     /\ UNCHANGED <<package, price, feature, configs, history, cached, latest>>

(* createPackagePrice looks for the package, then for the row itself. *)
CheckPackage(r) ==
  /\ request[r].pc = "package"
  /\ IF Live(request[r].package) THEN Goto(r, "existing") ELSE Finish(r, "rejected")
  /\ UNCHANGED <<package, price, feature, configs, history, cached, latest>>

CheckExisting(r) ==
  LET q == request[r]
  IN /\ q.pc = "existing"
     /\ IF \A i \in Added(q) : price[q.package][i].state = "none"
        THEN Goto(r, IF q.first # {} THEN "demoteAll" ELSE "insert")
        ELSE Finish(r, "rejected")
     /\ UNCHANGED <<package, price, feature, configs, history, cached, latest>>

DemoteAll(r) ==
  LET p == request[r].package
  IN /\ request[r].pc = "demoteAll"
     /\ price' = [price EXCEPT ![p] =
          [i \in Intervals |-> [@[i] EXCEPT !.is_initial = FALSE]]]
     /\ Goto(r, "insert")
     /\ UNCHANGED <<package, feature, configs, history, cached, latest>>

(* The unique index counts deleted rows: E11000 for those, after the       *)
(* others were saved next to them.                                         *)
InsertPrices(r) ==
  LET q == request[r]
      p == q.package
      new == {i \in Added(q) : price[p][i].state = "none"}
  IN /\ q.pc = "insert"
     /\ price' = [price EXCEPT ![p] = [i \in Intervals |->
          IF i \in new
          THEN [state |-> "live", is_initial |-> i \in q.first, by |-> r]
          ELSE @[i]]]
     /\ IF new = Added(q) THEN Goto(r, "clearPrices") ELSE Finish(r, "rejected")
     /\ UNCHANGED <<package, feature, configs, history, cached, latest>>

(* Every function of package-price.service.ts ends with clearPackageCache. *)
ClearAfterPrices(r) ==
  LET q == request[r]
  IN /\ q.pc = "clearPrices"
     /\ cached' = NoCopies
     /\ CASE q.ask.call = "createPackage" -> Goto(r, "addFeatures")
          [] q.ask.call = "updatePackage" -> Become(r, Rewriting(q))
          [] q.ask.call = "deletePackage" -> Goto(r, "dropConfigs")
          [] q.ask.call \in Restores -> Goto(r, "clear")
          [] OTHER -> Finish(r, "done")
     /\ UNCHANGED <<package, price, feature, configs, history, latest>>

Review(r) ==
  LET q == request[r]
      live == LivePrices(q.package)
      initial == {i \in live : price[q.package][i].is_initial}
      Elect(S, flag) == Become(r, [q EXCEPT !.pc = "elect",
        !.job = [i \in Intervals |-> IF i \in S THEN Job("flag", flag) ELSE Idle]])
  IN /\ q.pc = "rewrite" /\ JobsDone(r)
     /\ IF initial = {} /\ live # {} THEN \E i \in live : Elect({i}, "yes")
        ELSE IF initial = {} THEN Elect({}, "no")
        ELSE \E i \in initial : Elect(initial \ {i}, "no")
     /\ UNCHANGED <<package, price, feature, configs, history, cached, latest>>

(* What updatePackage does after the features. *)
AfterFeatures(q) == IF q.ask.initial = "yes" THEN "clearOthers" ELSE "write"

Elected(r) ==
  LET q == request[r]
  IN /\ q.pc = "elect" /\ JobsDone(r)
     /\ Goto(r, IF q.ask.features # {} THEN "features" ELSE AfterFeatures(q))
     /\ UNCHANGED <<package, price, feature, configs, history, cached, latest>>

PriceRouteDone(r) ==
  /\ request[r].pc = "priceRoute" /\ JobsDone(r)
  /\ Finish(r, "done")
  /\ UNCHANGED <<package, price, feature, configs, history, cached, latest>>

-----------------------------------------------------------------------------
(* Features *)

SeeFeatures(r) ==
  LET q == request[r]
      had == LiveFeatures(q.package)
  IN /\ q.pc = "features"
     /\ Become(r, [q EXCEPT !.had = had,
          !.pc = IF had \ q.ask.features # {} THEN "dropFeatures"
                 ELSE IF q.ask.features \ had # {} THEN "addFeatures"
                 ELSE AfterFeatures(q)])
     /\ UNCHANGED <<package, price, feature, configs, history, cached, latest>>

DropFeatures(r) ==
  LET q == request[r]
      gone == {f \in q.had \ q.ask.features : feature[q.package][f] # "none"}
  IN /\ q.pc = "dropFeatures"
     /\ feature' = [feature EXCEPT ![q.package] =
          [f \in Features |-> IF f \in gone THEN "deleted" ELSE @[f]]]
     /\ Goto(r, IF q.ask.features \ q.had # {} THEN "addFeatures" ELSE AfterFeatures(q))
     /\ UNCHANGED <<package, price, configs, history, cached, latest>>

(* Features are inserted before deleted ones are restored: E11000. *)
AddFeatures(r) ==
  LET q == request[r]
      new == {f \in q.ask.features \ q.had : feature[q.package][f] = "none"}
  IN /\ q.pc = "addFeatures"
     /\ feature' = [feature EXCEPT ![q.package] =
          [f \in Features |-> IF f \in new THEN "live" ELSE @[f]]]
     /\ IF new # q.ask.features \ q.had THEN Finish(r, "rejected")
        ELSE Goto(r, IF q.ask.call = "createPackage" THEN "clear" ELSE "reviveFeatures")
     /\ UNCHANGED <<package, price, configs, history, cached, latest>>

ReviveFeatures(r) ==
  LET q == request[r]
  IN /\ q.pc = "reviveFeatures"
     /\ feature' = [feature EXCEPT ![q.package] = [f \in Features |->
          IF f \in q.ask.features \ q.had /\ @[f] = "deleted" THEN "live" ELSE @[f]]]
     /\ Goto(r, AfterFeatures(q))
     /\ UNCHANGED <<package, price, configs, history, cached, latest>>

-----------------------------------------------------------------------------
(* The package itself *)

(* No other package stays initial: updateMany, deleted ones included. *)
ClearOthers(r) ==
  LET q == request[r]
  IN /\ q.pc = "clearOthers"
     /\ package' = [p \in Packages |->
          IF p = q.package THEN package[p]
          ELSE [package[p] EXCEPT !.is_initial = FALSE]]
     /\ Goto(r, CASE q.ask.call = "createPackage" -> "create"
                  [] q.ask.call = "updatePackage" -> "write"
                  [] OTHER -> "mark")
     /\ UNCHANGED <<price, feature, configs, history, cached, latest>>

(* The package is created before its prices are checked; its value may be  *)
(* that of another package (unique index).                                 *)
CreatePackage(r) ==
  LET q == request[r]
  IN /\ q.pc = "create"
     /\ \/ /\ package[q.package].state = "none"
           /\ package' = [package EXCEPT ![q.package] =
                [state |-> "live", is_initial |-> q.ask.initial = "yes", version |-> 1]]
           /\ Goto(r, "check")
        \/ /\ \E p \in Packages : Exists(p)
           /\ Finish(r, "rejected")
           /\ UNCHANGED package
     /\ UNCHANGED <<price, feature, configs, history, cached, latest>>

(* updatePackage writes the version it has read, plus one, or is refused for a *)
(* value another package has.                                                  *)
WritePackage(r) ==
  LET q == request[r]
      p == q.package
  IN /\ q.pc = "write"
     /\ \/ /\ package' = IF ~Live(p) THEN package
                          ELSE [package EXCEPT ![p].is_initial = Flagged(@, q.ask.initial),
                                               ![p].version = q.version + 1]
           /\ Goto(r, "clear")
        \/ /\ Live(p) /\ \E o \in Packages \ {p} : Exists(o)
           /\ Finish(r, "rejected")
           /\ UNCHANGED package
     /\ UNCHANGED <<price, feature, configs, history, cached, latest>>

MarkInitial(r) ==
  LET q == request[r]
  IN /\ q.pc = "mark"
     /\ IF Live(q.package)
        THEN /\ package' = [package EXCEPT ![q.package].is_initial = q.ask.initial = "yes"]
             /\ Goto(r, "clear")
        ELSE Finish(r, "rejected") /\ UNCHANGED package
     /\ UNCHANGED <<price, feature, configs, history, cached, latest>>

DeletePackage(r) ==
  LET q == request[r]
      p == q.package
  IN /\ q.pc = "delete"
     /\ package' = IF q.ask.call = "deletePackagePermanent"
                   THEN [package EXCEPT ![p].state = "gone", ![p].is_initial = FALSE]
                   ELSE IF Live(p) THEN [package EXCEPT ![p].state = "deleted"]
                   ELSE package
     /\ Goto(r, "dropPrices")
     /\ UNCHANGED <<price, feature, configs, history, cached, latest>>

(* A permanent deletion removes the rows, and leaves those of features. *)
DropPrices(r) ==
  LET q == request[r]
      for_good == q.ask.call = "deletePackagePermanent"
  IN /\ q.pc = "dropPrices"
     /\ price' = [price EXCEPT ![q.package] = [i \in Intervals |->
          IF for_good THEN [state |-> "none", is_initial |-> FALSE, by |-> Nobody]
          ELSE IF @[i].state = "live" THEN [@[i] EXCEPT !.state = "deleted"]
          ELSE @[i]]]
     /\ Goto(r, IF for_good THEN "dropConfigs" ELSE "clearPrices")
     /\ UNCHANGED <<package, feature, configs, history, cached, latest>>

KeepConfigs(r) ==     \* mutant: configs stay
  /\ request[r].pc = "dropConfigs"
  /\ Goto(r, "clear")
  /\ UNCHANGED <<package, price, feature, configs, history, cached, latest>>

DropConfigs(r) ==
  /\ request[r].pc = "dropConfigs"
  /\ configs' = configs \ {request[r].package}
  /\ Goto(r, "clear")
  /\ UNCHANGED <<package, price, feature, history, cached, latest>>

(* restorePackages updates what is deleted, and goes on with what is live. *)
RestorePackage(r) ==
  LET q == request[r]
      p == q.package
  IN /\ q.pc = "restore"
     /\ IF package[p].state = "deleted"
        THEN /\ package' = [package EXCEPT ![p].state = "live"]
             /\ Goto(r, IF q.ask.call = "restorePackage" THEN "revive" ELSE "restored")
        ELSE /\ UNCHANGED package
             /\ IF q.ask.call = "restorePackage" THEN Finish(r, "rejected")
                ELSE Goto(r, "restored")
     /\ UNCHANGED <<price, feature, configs, history, cached, latest>>

FindRestored(r) ==
  /\ request[r].pc = "restored"
  /\ Goto(r, IF Live(request[r].package) THEN "revive" ELSE "clear")
  /\ UNCHANGED <<package, price, feature, configs, history, cached, latest>>

(* Every deleted price comes back, one that an update removed as well. *)
RevivePrices(r) ==
  LET q == request[r]
  IN /\ q.pc = "revive"
     /\ price' = [price EXCEPT ![q.package] = [i \in Intervals |->
          IF @[i].state = "deleted" THEN [@[i] EXCEPT !.state = "live"] ELSE @[i]]]
     /\ Goto(r, "clearPrices")
     /\ UNCHANGED <<package, feature, configs, history, cached, latest>>

KeepCache(r) ==     \* mutant: no invalidation at the end
  /\ request[r].pc = "clear"
  /\ IF request[r].ask.call \in WriteCalls THEN Goto(r, "read") ELSE Finish(r, "done")
  /\ UNCHANGED <<package, price, feature, configs, history, cached, latest>>

ClearCache(r) ==
  /\ request[r].pc = "clear"
  /\ cached' = NoCopies
  /\ IF request[r].ask.call \in WriteCalls THEN Goto(r, "read") ELSE Finish(r, "done")
  /\ UNCHANGED <<package, price, feature, configs, history, latest>>

ReadPackage(r) ==
  LET q == request[r]
  IN /\ q.pc = "read"
     /\ IF Live(q.package)
        THEN Become(r, [q EXCEPT !.pc = "record", !.doc = {Document(q.package)}])
        ELSE Finish(r, "rejected")
     /\ UNCHANGED <<package, price, feature, configs, history, cached, latest>>

RecordRepricing(r) ==     \* mutant: only changes of prices are recorded
  LET q == request[r]
  IN /\ q.pc = "record"
     /\ \E d \in q.doc :
          history' = IF ~q.ask.repriced THEN history
                     ELSE [history EXCEPT ![q.package] =
                            Append(@, [version |-> d.version, offer |-> d.offer])]
     /\ Finish(r, "done")
     /\ UNCHANGED <<package, price, feature, configs, cached, latest>>

RecordPayload(r) ==     \* mutant: the payload's features, not those read
  LET q == request[r]
  IN /\ q.pc = "record"
     /\ \E d \in q.doc :
          history' = [history EXCEPT ![q.package] = Append(@,
            [version |-> d.version,
             offer |-> [d.offer EXCEPT !.features = q.ask.features]])]
     /\ Finish(r, "done")
     /\ UNCHANGED <<package, price, feature, configs, cached, latest>>

RecordHistory(r) ==
  LET q == request[r]
  IN /\ q.pc = "record"
     /\ \E d \in q.doc :
          history' = [history EXCEPT ![q.package] =
            Append(@, [version |-> d.version, offer |-> d.offer])]
     /\ Finish(r, "done")
     /\ UNCHANGED <<package, price, feature, configs, cached, latest>>

-----------------------------------------------------------------------------
(* getPublicPackage: withCache *)

ReadCache(r) ==
  /\ request[r].pc = "get"
  /\ IF cached[request[r].package] # {} THEN Finish(r, "done") ELSE Goto(r, "fetch")
  /\ UNCHANGED <<package, price, feature, configs, history, cached, latest>>

FetchPackage(r) ==
  LET q == request[r]
  IN /\ q.pc = "fetch"
     /\ IF Live(q.package)
        THEN Become(r, [q EXCEPT !.pc = "store", !.doc = {Document(q.package)}])
        ELSE Finish(r, "rejected")
     /\ UNCHANGED <<package, price, feature, configs, history, cached, latest>>

StoreNext(r) ==     \* mutant: a copy does not replace the one before
  /\ request[r].pc = "store"
  /\ cached' = [cached EXCEPT ![request[r].package] = @ \cup request[r].doc]
  /\ Finish(r, "done")
  /\ UNCHANGED <<package, price, feature, configs, history, latest>>

StoreCache(r) ==
  /\ request[r].pc = "store"
  /\ cached' = [cached EXCEPT ![request[r].package] = request[r].doc]
  /\ Finish(r, "done")
  /\ UNCHANGED <<package, price, feature, configs, history, latest>>

-----------------------------------------------------------------------------
PriceJob(r) ==
  \E i \in Intervals :
    JobFind(r, i) \/ JobDemote(r, i) \/ JobWrite(r, i) \/ JobClear(r, i)

PriceStep(r) ==
  \/ SeePrices(r)    \/ Removed(r)      \/ CheckIntervals(r)   \/ CheckPackage(r)
  \/ DemoteAll(r)    \/ InsertPrices(r) \/ ClearAfterPrices(r) \/ CheckExisting(r)
  \/ Review(r)       \/ Elected(r)      \/ PriceRouteDone(r)
FeatureStep(r) ==
  SeeFeatures(r) \/ DropFeatures(r) \/ AddFeatures(r) \/ ReviveFeatures(r)
PackageStep(r) ==
  \/ FindPackage(r)   \/ ClearOthers(r) \/ CreatePackage(r)  \/ WritePackage(r)
  \/ MarkInitial(r)   \/ DeletePackage(r) \/ DropPrices(r)   \/ DropConfigs(r)
  \/ RestorePackage(r) \/ FindRestored(r) \/ RevivePrices(r) \/ ClearCache(r)
  \/ ReadPackage(r)   \/ RecordHistory(r)
ReadStep(r) == ReadCache(r) \/ FetchPackage(r) \/ StoreCache(r)

Next ==
  \E r \in Requests :
    \/ PriceJob(r) \/ PriceStep(r) \/ FeatureStep(r) \/ PackageStep(r) \/ ReadStep(r)
    \/ \E p \in Packages, ask \in Asks : Arrive(r, p, ask)

Spec == Init /\ [][Next]_vars

-----------------------------------------------------------------------------
(* Safety *)

Serial == \A r \in Requests : request[r].pc # "idle" => request[r].alone
Quiet == UnderWay = {}
Rejected == {r \in Requests : request[r].pc = "rejected"}
Succeeded(r, calls) ==
  r \in latest /\ request[r].pc = "done" /\ request[r].alone
    /\ request[r].ask.call \in calls

InitialPackages == {p \in Packages : package[p].is_initial}
InitialPrices(p) == {i \in Intervals : price[p][i].is_initial}

(* As long as requests come one after another there is one initial package *)
(* at most, and one initial price of a package, although the price writes  *)
(* of one update overlap; deleted ones counted, as a restore would bring   *)
(* them back (updatePackageIsInitial, updatePackagePrice).                 *)
OneInitial ==
  Serial /\ Quiet =>
    /\ Cardinality(InitialPackages) <= 1
    /\ \A p \in Packages : Cardinality(InitialPrices(p)) <= 1

(* What assignPackage would sell of package p: the newest row of its       *)
(* version, else the newest of all.                                        *)
Newest(p, S) == history[p][CHOOSE n \in S : \A k \in S : k <= n]
Snapshot(p) ==
  LET all == DOMAIN history[p]
      same == {n \in all : history[p][n].version = package[p].version}
  IN IF same # {} THEN Newest(p, same) ELSE Newest(p, all)

(* A call that is alone and succeeds records the offer it has made, so     *)
(* that a sale takes it, also after overlapping calls that have written    *)
(* one version twice or an older one over a newer.                         *)
SaleMatchesUpdate ==
  \A r \in Requests :
    Succeeded(r, WriteCalls) => Snapshot(request[r].package).offer =
                                  Offer(request[r].package)

(* Of requests one after another only price routes, restores and calls     *)
(* that were refused halfway leave an offer that differs from the          *)
(* snapshot sold (PackageHistory.create).                                  *)
SaleMatchesOffer ==
  Serial /\ Quiet =>
    \A p \in Packages : Live(p) =>
      \/ \E r \in Requests : /\ request[r].package = p
                             /\ \/ request[r].ask.call \in PriceCalls \cup Restores
                                \/ r \in Rejected
      \/ history[p] # <<>> /\ Snapshot(p).offer = Offer(p)

(* Only a call that was refused halfway leaves an outdated public copy:    *)
(* all others clear the cache after their last write (clearPackageCache).  *)
StaleOnlyAfterRejection ==
  Serial /\ Quiet =>
    \A p \in Packages : \A d \in cached[p] :
      (Live(p) /\ d = Document(p)) \/ Rejected # {}

(* Nothing of a deleted package is left for sale, unless createPackagePrices *)
(* has put it there: it does not look for the package (deletePackage).       *)
DeletionCascades ==
  Serial /\ Quiet =>
    \A p \in Packages : package[p].state \in {"deleted", "gone"} =>
      /\ p \notin configs
      /\ \A i \in LivePrices(p) :
           \E r \in Requests : /\ request[r].ask.call = "createPackagePrices"
                               /\ request[r].package = p
=============================================================================
