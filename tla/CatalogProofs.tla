--------------------------- MODULE CatalogProofs ---------------------------
(***************************************************************************)
(* Catalog, for any number of packages, intervals, features and requests.  *)
(***************************************************************************)
EXTENDS Catalog, FiniteSetTheorems, TLAPS

-----------------------------------------------------------------------------
(* Types. *)

Pcs ==
  {"idle", "find", "see", "check", "package", "existing", "demoteAll",
   "insert", "clearPrices", "features", "dropFeatures", "addFeatures",
   "reviveFeatures", "clearOthers", "create", "write", "mark", "delete",
   "dropPrices", "dropConfigs", "restore", "restored", "revive", "clear",
   "read", "record", "get", "fetch", "store"} \cup Waiting \cup Ended

Entries == [version : Nat, offer : Offers]

(* Besides the types: histories are sequences, and what a request has read *)
(* is one document.                                                        *)
Typed ==
  /\ TypeOK
  /\ history \in [Packages -> Seq(Entries)]
  /\ cached \in [Packages -> SUBSET Documents]
  /\ \A r \in Requests : \A d, e \in request[r].doc : d = e

LEMMA RequestFields ==
  ASSUME TypeOK, NEW r \in Requests
  PROVE  /\ request[r] \in RequestStates
         /\ request[r].pc \in Pcs
         /\ request[r].ask \in Payloads /\ request[r].package \in Packages
         /\ request[r].alone \in BOOLEAN /\ request[r].version \in Nat
         /\ request[r].seen \subseteq Intervals
         /\ request[r].had \subseteq Features
         /\ request[r].first \subseteq Intervals
         /\ request[r].doc \subseteq Documents
         /\ request[r].job \in [Intervals -> Jobs]
BY DEF TypeOK, RequestStates, Pcs

LEMMA AskFields ==
  ASSUME NEW q \in Payloads
  PROVE  /\ q.call \in CallNames /\ q.prices \in PriceLists
         /\ DOMAIN q.prices \subseteq Intervals
         /\ \A i \in DOMAIN q.prices : q.prices[i] \in Flags
         /\ q.repriced \in BOOLEAN /\ q.features \subseteq Features
         /\ q.initial \in Flags
<1>1. q.prices \in PriceLists
  BY DEF Payloads
<1>2. PICK S \in SUBSET Intervals : q.prices \in [S -> Flags]
  BY <1>1 DEF PriceLists
<1> QED
  BY <1>1, <1>2 DEF Payloads

LEMMA ReadingAsked == Reading \in Payloads
<1>1. NoPrices \in [{} -> Flags]
  BY DEF NoPrices
<1>2. NoPrices \in PriceLists
  BY <1>1 DEF PriceLists
<1>3. Reading \in [call : CallNames, prices : PriceLists, repriced : BOOLEAN,
                   features : SUBSET Features, initial : Flags]
  BY <1>2 DEF Reading, CallNames, Flags
<1> QED
  BY <1>3 DEF Reading, Payloads, PriceCalls

LEMMA IdleJob ==
  /\ Idle \in Jobs /\ Idle.step = "idle"
  /\ \A kind \in {"delete", "price", "flag"}, flag \in Flags :
       /\ Job(kind, flag) \in Jobs /\ Job(kind, flag).step = "find"
       /\ Job(kind, flag).kind = kind /\ Job(kind, flag).is_initial = flag
BY DEF Idle, Jobs, Job, Flags

(* The other requests, and what a request is about. *)
Others(r) ==
  /\ \A s \in Requests \ {r} : request'[s] = request[s]
  /\ request'[r].ask = request[r].ask
  /\ request'[r].package = request[r].package
  /\ request'[r].alone = request[r].alone
  /\ request' \in [Requests -> RequestStates]

LEMMA Becomes ==
  ASSUME TypeOK, NEW r \in Requests, NEW q \in RequestStates, Become(r, q),
         q.ask = request[r].ask, q.package = request[r].package,
         q.alone = request[r].alone
  PROVE  Others(r) /\ request'[r] = q
BY DEF TypeOK, Become, Others

LEMMA GotoStep ==
  ASSUME TypeOK, NEW r \in Requests, NEW pc \in Pcs, Goto(r, pc)
  PROVE  /\ Others(r) /\ request'[r].pc = pc
         /\ request'[r].version = request[r].version
         /\ request'[r].seen = request[r].seen /\ request'[r].had = request[r].had
         /\ request'[r].first = request[r].first /\ request'[r].doc = request[r].doc
         /\ request'[r].job = request[r].job
<1> DEFINE q == [request[r] EXCEPT !.pc = pc]
<1>1. request[r] \in RequestStates
  BY RequestFields
<1>2. /\ q \in RequestStates /\ q.pc = pc
      /\ q.ask = request[r].ask /\ q.package = request[r].package
      /\ q.alone = request[r].alone
      /\ q.version = request[r].version
      /\ q.seen = request[r].seen /\ q.had = request[r].had
      /\ q.first = request[r].first /\ q.doc = request[r].doc
      /\ q.job = request[r].job
  BY <1>1 DEF RequestStates, Pcs
<1>3. Become(r, q)
  BY DEF Goto, Become
<1> HIDE DEF q
<1> QED
  BY <1>2, <1>3, Becomes

LEMMA FinishStep ==
  ASSUME TypeOK, NEW r \in Requests, NEW pc \in Ended, Finish(r, pc)
  PROVE  /\ Others(r) /\ request'[r].pc = pc
         /\ request'[r].first = {} /\ request'[r].doc = {}
         /\ request'[r].seen = {} /\ request'[r].had = {}
         /\ request'[r].job = request[r].job
<1> DEFINE q == [request[r] EXCEPT !.pc = pc, !.version = 0, !.seen = {}, !.had = {},
                                   !.first = {}, !.doc = {}]
<1>1. request[r] \in RequestStates
  BY RequestFields
<1>2. /\ q \in RequestStates /\ q.pc = pc
      /\ q.ask = request[r].ask /\ q.package = request[r].package
      /\ q.alone = request[r].alone
      /\ q.seen = {} /\ q.had = {} /\ q.first = {} /\ q.doc = {}
      /\ q.job = request[r].job
  BY <1>1 DEF RequestStates, Ended
<1>3. Become(r, q)
  BY DEF Finish
<1> HIDE DEF q
<1> QED
  BY <1>2, <1>3, Becomes

LEMMA WithJobStep ==
  ASSUME TypeOK, NEW r \in Requests, NEW i \in Intervals, NEW job \in Jobs,
         WithJob(r, i, job)
  PROVE  /\ Others(r) /\ request'[r].pc = request[r].pc
         /\ request'[r].version = request[r].version
         /\ request'[r].seen = request[r].seen /\ request'[r].had = request[r].had
         /\ request'[r].first = request[r].first /\ request'[r].doc = request[r].doc
         /\ request'[r].job[i] = job
         /\ \A j \in Intervals \ {i} : request'[r].job[j] = request[r].job[j]
<1> DEFINE jobs == [request[r].job EXCEPT ![i] = job]
           q == [request[r] EXCEPT !.job = jobs]
<1>1. request[r] \in RequestStates /\ request[r].job \in [Intervals -> Jobs]
  BY RequestFields
<1>2. /\ jobs \in [Intervals -> Jobs] /\ jobs[i] = job
      /\ \A j \in Intervals \ {i} : jobs[j] = request[r].job[j]
  BY <1>1
<1>3. request' = [request EXCEPT ![r] = q]
  BY DEF WithJob
<1> HIDE DEF jobs
<1>4. /\ q \in RequestStates /\ q.pc = request[r].pc
      /\ q.ask = request[r].ask /\ q.package = request[r].package
      /\ q.alone = request[r].alone
      /\ q.version = request[r].version
      /\ q.seen = request[r].seen /\ q.had = request[r].had
      /\ q.first = request[r].first /\ q.doc = request[r].doc
      /\ q.job = jobs
  BY <1>1, <1>2 DEF RequestStates
<1>5. Become(r, q)
  BY <1>3 DEF Become
<1> HIDE DEF q
<1> QED
  BY <1>2, <1>4, <1>5, Becomes

LEMMA JobFailsStep ==
  ASSUME TypeOK, NEW r \in Requests, NEW i \in Intervals, JobFails(r, i)
  PROVE  /\ Others(r) /\ request'[r].pc = "rejected"
         /\ request'[r].doc = request[r].doc
         /\ request'[r].job[i] = Idle
         /\ \A j \in Intervals \ {i} : request'[r].job[j] = request[r].job[j]
<1> DEFINE jobs == [request[r].job EXCEPT ![i] = Idle]
           q == [request[r] EXCEPT !.job = jobs, !.pc = "rejected"]
<1>1. request[r] \in RequestStates /\ request[r].job \in [Intervals -> Jobs]
  BY RequestFields
<1>2. /\ jobs \in [Intervals -> Jobs] /\ jobs[i] = Idle
      /\ \A j \in Intervals \ {i} : jobs[j] = request[r].job[j]
  BY <1>1, IdleJob
<1>3. request' = [request EXCEPT ![r] = q]
  BY <1>1 DEF JobFails, TypeOK, RequestStates
<1> HIDE DEF jobs
<1>4. /\ q \in RequestStates /\ q.pc = "rejected"
      /\ q.ask = request[r].ask /\ q.package = request[r].package
      /\ q.alone = request[r].alone /\ q.doc = request[r].doc
      /\ q.job = jobs
  BY <1>1, <1>2 DEF RequestStates, Ended
<1>5. Become(r, q)
  BY <1>3 DEF Become
<1> HIDE DEF q
<1> QED
  BY <1>2, <1>4, <1>5, Becomes

-----------------------------------------------------------------------------
(* The steps of a request, field by field. *)

Untouched == UNCHANGED <<package, price, feature, configs, history, cached>>

Steady(r) == Typed' /\ Others(r) /\ latest' = latest

LEMMA TypedNext ==
  ASSUME Typed, NEW r \in Requests, Others(r), latest' = latest,
         package' \in [Packages -> PackageStates],
         price' \in [Packages -> [Intervals -> PriceStates]],
         feature' \in [Packages -> [Features -> DocStates]],
         configs' \subseteq Packages,
         history' \in [Packages -> Seq(Entries)],
         cached' \in [Packages -> SUBSET Documents],
         \A p \in Packages : Cardinality(cached'[p]) <= 1,
         \A d, e \in request'[r].doc : d = e
  PROVE  Steady(r)
<1>1. ASSUME NEW p \in Packages, NEW n \in DOMAIN history'[p]
      PROVE  history'[p][n].version \in Nat /\ history'[p][n].offer \in Offers
  <2>1. history'[p] \in Seq(Entries)
    OBVIOUS
  <2>2. history'[p][n] \in Entries
    BY <1>1, <2>1
  <2> QED
    BY <2>2 DEF Entries
<1>2. TypeOK'
  BY <1>1 DEF Typed, TypeOK, Others
<1>3. \A s \in Requests : \A d, e \in request'[s].doc : d = e
  BY DEF Typed, Others
<1> QED
  BY <1>2, <1>3 DEF Typed, Steady

LEMMA UntouchedSteady ==
  ASSUME Typed, NEW r \in Requests, Others(r), latest' = latest, Untouched,
         \A d, e \in request'[r].doc : d = e
  PROVE  Steady(r)
BY TypedNext DEF Untouched, Typed, TypeOK

LEMMA PriceSteady ==
  ASSUME Typed, NEW r \in Requests, Others(r),
         UNCHANGED <<package, feature, configs, history, cached, latest>>,
         price' \in [Packages -> [Intervals -> PriceStates]],
         \A d, e \in request'[r].doc : d = e
  PROVE  Steady(r)
BY TypedNext DEF Typed, TypeOK

LEMMA FeatureSteady ==
  ASSUME Typed, NEW r \in Requests, Others(r),
         UNCHANGED <<package, price, configs, history, cached, latest>>,
         feature' \in [Packages -> [Features -> DocStates]],
         \A d, e \in request'[r].doc : d = e
  PROVE  Steady(r)
BY TypedNext DEF Typed, TypeOK

LEMMA PackageSteady ==
  ASSUME Typed, NEW r \in Requests, Others(r),
         UNCHANGED <<price, feature, configs, history, cached, latest>>,
         package' \in [Packages -> PackageStates],
         \A d, e \in request'[r].doc : d = e
  PROVE  Steady(r)
BY TypedNext DEF Typed, TypeOK

LEMMA ClearSteady ==
  ASSUME Typed, NEW r \in Requests, Others(r), cached' = NoCopies,
         UNCHANGED <<package, price, feature, configs, history, latest>>,
         \A d, e \in request'[r].doc : d = e
  PROVE  Steady(r)
<1>1. /\ cached' \in [Packages -> SUBSET Documents]
      /\ \A p \in Packages : Cardinality(cached'[p]) <= 1
  BY FS_EmptySet DEF NoCopies
<1> QED
  BY <1>1, TypedNext DEF Typed, TypeOK

LEMMA OneRead ==
  ASSUME Typed, NEW r \in Requests
  PROVE  \A d, e \in request[r].doc : d = e
BY DEF Typed

LEMMA JobFields ==
  ASSUME TypeOK, NEW r \in Requests, NEW i \in Intervals
  PROVE  /\ request[r].job[i] \in Jobs
         /\ request[r].job[i].step \in {"idle", "find", "demote", "write", "clear"}
         /\ request[r].job[i].kind \in {"delete", "price", "flag"}
         /\ request[r].job[i].is_initial \in Flags
<1>1. request[r].job[i] \in Jobs
  BY RequestFields
<1> QED
  BY <1>1 DEF Jobs

LEMMA PriceFields ==
  ASSUME TypeOK, NEW p \in Packages, NEW i \in Intervals
  PROVE  /\ price[p] \in [Intervals -> PriceStates]
         /\ price[p][i] \in PriceStates /\ price[p][i].state \in DocStates
         /\ price[p][i].is_initial \in BOOLEAN
         /\ price[p][i].by \in Requests \cup {Nobody}
BY DEF TypeOK, PriceStates

LEMMA PackageFields ==
  ASSUME TypeOK, NEW p \in Packages
  PROVE  /\ package[p] \in PackageStates
         /\ package[p].state \in {"none", "live", "deleted", "gone"}
         /\ package[p].is_initial \in BOOLEAN /\ package[p].version \in Nat
BY DEF TypeOK, PackageStates, DocStates

(* One job of a request went on to another step. *)
JobMoves(r, i, step) ==
  /\ request'[r].pc = request[r].pc
  /\ request'[r].version = request[r].version
  /\ request'[r].seen = request[r].seen
  /\ request'[r].first = request[r].first /\ request'[r].doc = request[r].doc
  /\ request'[r].job[i].step = step
  /\ request'[r].job[i].kind = request[r].job[i].kind
  /\ request'[r].job[i].is_initial = request[r].job[i].is_initial
  /\ \A j \in Intervals \ {i} : request'[r].job[j] = request[r].job[j]

LEMMA JobMovesStep ==
  ASSUME TypeOK, NEW r \in Requests, NEW i \in Intervals,
         NEW step \in {"find", "demote", "write", "clear"},
         WithJob(r, i, [request[r].job[i] EXCEPT !.step = step])
  PROVE  Others(r) /\ JobMoves(r, i, step)
<1> DEFINE job == [request[r].job[i] EXCEPT !.step = step]
<1>1. /\ job \in Jobs /\ job.step = step /\ job.kind = request[r].job[i].kind
      /\ job.is_initial = request[r].job[i].is_initial
  <2>1. request[r].job[i] \in Jobs
    BY JobFields
  <2> QED
    BY <2>1 DEF Jobs
<1>2. WithJob(r, i, job)
  OBVIOUS
<1> HIDE DEF job
<1> QED
  BY <1>1, <1>2, WithJobStep DEF JobMoves

LEMMA JobFindStep ==
  ASSUME Typed, NEW r \in Requests, NEW i \in Intervals, JobFind(r, i)
  PROVE  /\ Steady(r) /\ Untouched /\ request[r].job[i].step = "find"
         /\ \/ /\ i \in LivePrices(request[r].package)
               /\ IF request[r].job[i].is_initial = "yes"
                  THEN JobMoves(r, i, "demote") ELSE JobMoves(r, i, "write")
            \/ /\ i \notin LivePrices(request[r].package)
               /\ request'[r].pc = "rejected" /\ request'[r].job[i] = Idle
               /\ request'[r].doc = request[r].doc
               /\ \A j \in Intervals \ {i} : request'[r].job[j] = request[r].job[j]
<1>0. TypeOK /\ Untouched /\ latest' = latest /\ request[r].job[i].step = "find"
  BY DEF Typed, JobFind, Untouched
<1>1. CASE i \in LivePrices(request[r].package)
  <2>1. PICK step \in {"demote", "write"} :
          /\ step = IF request[r].job[i].is_initial = "yes" THEN "demote" ELSE "write"
          /\ WithJob(r, i, [request[r].job[i] EXCEPT !.step = step])
    BY <1>1 DEF JobFind
  <2>2. Others(r) /\ JobMoves(r, i, step)
    BY <1>0, <2>1, JobMovesStep
  <2>3. Steady(r)
    BY <1>0, <2>2, OneRead, UntouchedSteady DEF JobMoves
  <2> QED
    BY <1>0, <1>1, <2>1, <2>2, <2>3
<1>2. CASE i \notin LivePrices(request[r].package)
  <2>1. JobFails(r, i)
    BY <1>2 DEF JobFind
  <2>2. /\ Others(r) /\ request'[r].pc = "rejected"
        /\ request'[r].doc = request[r].doc /\ request'[r].job[i] = Idle
        /\ \A j \in Intervals \ {i} : request'[r].job[j] = request[r].job[j]
    BY <1>0, <2>1, JobFailsStep
  <2>3. Steady(r)
    BY <1>0, <2>2, OneRead, UntouchedSteady
  <2> QED
    BY <1>0, <1>2, <2>2, <2>3
<1> QED
  BY <1>1, <1>2

(* The prices of the package of r are set to row, those of others stay.    *)
SetPrices(r, row) ==
  /\ \A i \in Intervals : price'[request[r].package][i] = row[i]
  /\ \A p \in Packages \ {request[r].package} : price'[p] = price[p]

LEMMA SetPricesStep ==
  ASSUME TypeOK, NEW r \in Requests, NEW row \in [Intervals -> PriceStates],
         price' = [price EXCEPT ![request[r].package] = row]
  PROVE  SetPrices(r, row) /\ price' \in [Packages -> [Intervals -> PriceStates]]
BY RequestFields DEF SetPrices, TypeOK

LEMMA Demoted ==
  ASSUME NEW row \in PriceStates
  PROVE  LET new == [row EXCEPT !.is_initial = FALSE]
         IN /\ new \in PriceStates /\ new.state = row.state /\ new.by = row.by
            /\ ~new.is_initial
BY DEF PriceStates

LEMMA JobDemoteStep ==
  ASSUME Typed, NEW r \in Requests, NEW i \in Intervals, JobDemote(r, i)
  PROVE  /\ Steady(r) /\ request[r].job[i].step = "demote"
         /\ UNCHANGED <<package, feature, configs, history, cached>>
         /\ JobMoves(r, i, "write")
         /\ SetPrices(r, [j \in Intervals |->
              IF j = i THEN price[request[r].package][j]
              ELSE [price[request[r].package][j] EXCEPT !.is_initial = FALSE]])
<1> DEFINE p == request[r].package
           row == [j \in Intervals |-> IF j = i THEN price[p][j]
                                       ELSE [price[p][j] EXCEPT !.is_initial = FALSE]]
<1>0. /\ TypeOK /\ latest' = latest /\ request[r].job[i].step = "demote"
      /\ UNCHANGED <<package, feature, configs, history, cached>>
      /\ WithJob(r, i, [request[r].job[i] EXCEPT !.step = "write"])
      /\ p \in Packages
  BY RequestFields DEF Typed, JobDemote
<1>1. row \in [Intervals -> PriceStates]
  BY <1>0, PriceFields, Demoted
<1>2. price' = [price EXCEPT ![p] = row]
  BY <1>0 DEF JobDemote, TypeOK
<1> HIDE DEF row
<1>3. SetPrices(r, row) /\ price' \in [Packages -> [Intervals -> PriceStates]]
  BY <1>0, <1>1, <1>2, SetPricesStep
<1>4. Others(r) /\ JobMoves(r, i, "write")
  BY <1>0, JobMovesStep
<1>5. Steady(r)
  BY <1>0, <1>3, <1>4, OneRead, PriceSteady DEF JobMoves
<1> QED
  BY <1>0, <1>3, <1>4, <1>5 DEF row

(* The row that a job writes. *)
Rewritten(r, i) ==
  LET job == request[r].job[i]
      row == price[request[r].package][i]
  IN IF row.state # "live" THEN row
     ELSE IF job.kind = "delete" THEN [row EXCEPT !.state = "deleted"]
     ELSE [row EXCEPT !.is_initial = Flagged(@, job.is_initial),
                      !.by = IF job.kind = "price" THEN r ELSE @]

LEMMA JobWriteStep ==
  ASSUME Typed, NEW r \in Requests, NEW i \in Intervals, JobWrite(r, i)
  PROVE  /\ Steady(r) /\ request[r].job[i].step = "write"
         /\ UNCHANGED <<package, feature, configs, history, cached>>
         /\ JobMoves(r, i, "clear")
         /\ SetPrices(r, [j \in Intervals |->
              IF j = i THEN Rewritten(r, i) ELSE price[request[r].package][j]])
         /\ Rewritten(r, i) \in PriceStates
<1> DEFINE p == request[r].package
           row == [j \in Intervals |-> IF j = i THEN Rewritten(r, i) ELSE price[p][j]]
<1>0. /\ TypeOK /\ latest' = latest /\ request[r].job[i].step = "write"
      /\ UNCHANGED <<package, feature, configs, history, cached>>
      /\ WithJob(r, i, [request[r].job[i] EXCEPT !.step = "clear"])
      /\ p \in Packages
  BY RequestFields DEF Typed, JobWrite
<1>1. Rewritten(r, i) \in PriceStates
  <2>1. price[p][i] \in PriceStates
    BY <1>0, PriceFields
  <2>2. Flagged(price[p][i].is_initial, request[r].job[i].is_initial) \in BOOLEAN
    BY <2>1 DEF Flagged, PriceStates
  <2> QED
    BY <2>1, <2>2 DEF Rewritten, PriceStates, DocStates
<1>2. row \in [Intervals -> PriceStates]
  BY <1>0, <1>1, PriceFields
<1>3. price' = [price EXCEPT ![p] = row]
  <2>1. price' = [price EXCEPT ![p][i] = Rewritten(r, i)]
    BY DEF JobWrite, Rewritten
  <2>2. [price[p] EXCEPT ![i] = Rewritten(r, i)] = row
    BY <1>0, PriceFields
  <2> HIDE DEF row
  <2> QED
    BY <1>0, <2>1, <2>2 DEF TypeOK
<1> HIDE DEF row
<1>4. SetPrices(r, row) /\ price' \in [Packages -> [Intervals -> PriceStates]]
  BY <1>0, <1>2, <1>3, SetPricesStep
<1>5. Others(r) /\ JobMoves(r, i, "clear")
  BY <1>0, JobMovesStep
<1>6. Steady(r)
  BY <1>0, <1>4, <1>5, OneRead, PriceSteady DEF JobMoves
<1> QED
  BY <1>0, <1>1, <1>4, <1>5, <1>6 DEF row

LEMMA JobClearStep ==
  ASSUME Typed, NEW r \in Requests, NEW i \in Intervals, JobClear(r, i)
  PROVE  /\ Steady(r) /\ request[r].job[i].step = "clear" /\ cached' = NoCopies
         /\ UNCHANGED <<package, price, feature, configs, history>>
         /\ request'[r].pc = request[r].pc
         /\ request'[r].seen = request[r].seen
         /\ request'[r].first = request[r].first /\ request'[r].doc = request[r].doc
         /\ request'[r].job[i] = Idle
         /\ \A j \in Intervals \ {i} : request'[r].job[j] = request[r].job[j]
<1>0. /\ TypeOK /\ latest' = latest /\ request[r].job[i].step = "clear"
      /\ UNCHANGED <<package, price, feature, configs, history>>
      /\ cached' = NoCopies /\ WithJob(r, i, Idle) /\ Idle \in Jobs
  BY IdleJob DEF Typed, JobClear
<1>1. /\ Others(r) /\ request'[r].pc = request[r].pc
      /\ request'[r].seen = request[r].seen
      /\ request'[r].first = request[r].first /\ request'[r].doc = request[r].doc
      /\ request'[r].job[i] = Idle
      /\ \A j \in Intervals \ {i} : request'[r].job[j] = request[r].job[j]
  BY <1>0, WithJobStep
<1>2. Steady(r)
  BY <1>0, <1>1, OneRead, ClearSteady
<1> QED
  BY <1>0, <1>1, <1>2

-----------------------------------------------------------------------------
(* The steps of a request with prices. *)

(* r goes on to pc with what it has read and its jobs. *)
Goes(r, pc) ==
  /\ request'[r].pc = pc
  /\ request'[r].seen = request[r].seen /\ request'[r].first = request[r].first
  /\ request'[r].doc = request[r].doc /\ request'[r].job = request[r].job

(* r ends. *)
Ends(r, pc) ==
  /\ request'[r].pc = pc /\ request'[r].first = {} /\ request'[r].doc = {}
  /\ request'[r].job = request[r].job

Call(r) == request[r].ask.call
Package(r) == request[r].package
Prices(r) == request[r].ask.prices

LEMMA GoesStep ==
  ASSUME Typed, NEW r \in Requests, NEW pc \in Pcs, Goto(r, pc)
  PROVE  Others(r) /\ Goes(r, pc) /\ \A d, e \in request'[r].doc : d = e
BY GotoStep, OneRead DEF Typed, Goes

LEMMA EndsStep ==
  ASSUME Typed, NEW r \in Requests, NEW pc \in Ended, Finish(r, pc)
  PROVE  Others(r) /\ Ends(r, pc) /\ \A d, e \in request'[r].doc : d = e
BY FinishStep DEF Typed, Ends

FoundIt(r) ==
  IF Call(r) = "deletePackagePermanent" THEN Exists(Package(r)) ELSE Live(Package(r))

AfterFind(r) ==
  IF Call(r) \in Deletions THEN "delete"
  ELSE IF request[r].ask.repriced THEN "see"
  ELSE IF request[r].ask.features # {} THEN "features"
  ELSE IF request[r].ask.initial = "yes" THEN "clearOthers"
  ELSE IF Call(r) = "updatePackageIsInitial" THEN "mark" ELSE "write"

LEMMA FindPackageStep ==
  ASSUME Typed, NEW r \in Requests, FindPackage(r)
  PROVE  /\ Steady(r) /\ Untouched /\ request[r].pc = "find"
         /\ \/ FoundIt(r) /\ Goes(r, AfterFind(r))
            \/ ~FoundIt(r) /\ Ends(r, "rejected")
<1>0. /\ TypeOK /\ Untouched /\ latest' = latest /\ request[r].pc = "find"
      /\ request[r] \in RequestStates /\ Package(r) \in Packages
  BY RequestFields DEF Typed, FindPackage, Untouched, Package
<1>1. CASE FoundIt(r)
  <2> DEFINE pc == AfterFind(r)
             version == package[Package(r)].version
             q == [request[r] EXCEPT !.version = version, !.pc = pc]
  <2>1. pc \in {"delete", "see", "features", "clearOthers", "mark", "write"}
    BY DEF AfterFind
  <2>2. version \in Nat
    BY <1>0, PackageFields
  <2>3. Become(r, q)
    BY <1>1 DEF FindPackage, FoundIt, AfterFind, Call, Package, Finish, Live, Exists
  <2> HIDE DEF pc, version
  <2>4. /\ q \in RequestStates /\ q.pc = pc
        /\ q.ask = request[r].ask /\ q.package = request[r].package
        /\ q.alone = request[r].alone
        /\ q.seen = request[r].seen /\ q.first = request[r].first
        /\ q.doc = request[r].doc /\ q.job = request[r].job
    BY <1>0, <2>1, <2>2 DEF RequestStates
  <2> HIDE DEF q
  <2>5. Others(r) /\ request'[r] = q
    BY <1>0, <2>3, <2>4, Becomes
  <2>6. Goes(r, pc)
    BY <2>4, <2>5 DEF Goes
  <2>7. Steady(r)
    BY <1>0, <2>5, <2>6, OneRead, UntouchedSteady DEF Goes
  <2> QED
    BY <1>0, <1>1, <2>6, <2>7 DEF pc
<1>2. CASE ~FoundIt(r)
  <2>1. Finish(r, "rejected")
    BY <1>2 DEF FindPackage, FoundIt, Call, Package
  <2>2. Others(r) /\ Ends(r, "rejected") /\ \A d, e \in request'[r].doc : d = e
    BY <2>1, EndsStep DEF Ended
  <2> QED
    BY <1>0, <1>2, <2>2, UntouchedSteady
<1> QED
  BY <1>1, <1>2

(* r goes on to pc with new jobs. *)
Starts(r, pc, seen, jobs) ==
  /\ request'[r].pc = pc /\ request'[r].seen = seen
  /\ request'[r].first = request[r].first /\ request'[r].doc = request[r].doc
  /\ request'[r].job = jobs

LEMMA StartsStep ==
  ASSUME Typed, NEW r \in Requests, NEW pc \in Pcs, NEW seen \in SUBSET Intervals,
         NEW jobs \in [Intervals -> Jobs],
         Become(r, [request[r] EXCEPT !.pc = pc, !.seen = seen, !.job = jobs])
  PROVE  /\ Others(r) /\ Starts(r, pc, seen, jobs)
         /\ \A d, e \in request'[r].doc : d = e
<1> DEFINE q == [request[r] EXCEPT !.pc = pc, !.seen = seen, !.job = jobs]
<1>1. TypeOK /\ request[r] \in RequestStates
  BY RequestFields DEF Typed
<1>2. /\ q \in RequestStates /\ q.pc = pc
      /\ q.ask = request[r].ask /\ q.package = request[r].package
      /\ q.alone = request[r].alone
      /\ q.seen = seen /\ q.first = request[r].first
      /\ q.doc = request[r].doc /\ q.job = jobs
  <2> DEFINE a == [request[r] EXCEPT !.pc = pc]
             b == [a EXCEPT !.seen = seen]
  <2>1. /\ a \in RequestStates /\ a.pc = pc
        /\ a.ask = request[r].ask /\ a.package = request[r].package
        /\ a.alone = request[r].alone
        /\ a.first = request[r].first /\ a.doc = request[r].doc
    BY <1>1 DEF RequestStates, Pcs
  <2> HIDE DEF a
  <2>2. /\ b \in RequestStates /\ b.pc = pc
        /\ b.ask = request[r].ask /\ b.package = request[r].package
        /\ b.alone = request[r].alone /\ b.seen = seen
        /\ b.first = request[r].first /\ b.doc = request[r].doc
    BY <2>1 DEF RequestStates
  <2>3. q = [b EXCEPT !.job = jobs]
    BY DEF a
  <2> HIDE DEF b, q
  <2> QED
    BY <2>2, <2>3 DEF RequestStates
<1>3. Become(r, q)
  OBVIOUS
<1> HIDE DEF q
<1>4. Others(r) /\ request'[r] = q
  BY <1>1, <1>2, <1>3, Becomes
<1> QED
  BY <1>2, <1>4, OneRead DEF Starts

Removals(r, seen) ==
  [i \in Intervals |-> IF i \in seen \ DOMAIN Prices(r)
                       THEN Job("delete", "unset") ELSE Idle]

LEMMA SeePricesStep ==
  ASSUME Typed, NEW r \in Requests, SeePrices(r)
  PROVE  /\ Steady(r) /\ Untouched /\ request[r].pc = "see"
         /\ Starts(r, "remove", LivePrices(Package(r)),
                   Removals(r, LivePrices(Package(r))))
<1> DEFINE seen == LivePrices(Package(r))
           jobs == Removals(r, seen)
<1>0. TypeOK /\ Untouched /\ latest' = latest /\ request[r].pc = "see"
  BY DEF Typed, SeePrices, Untouched
<1>1. seen \in SUBSET Intervals /\ jobs \in [Intervals -> Jobs]
  BY IdleJob DEF LivePrices, Removals, Flags
<1>2. Become(r, [request[r] EXCEPT !.pc = "remove", !.seen = seen, !.job = jobs])
  BY DEF SeePrices, Removals, Prices, Package
<1> HIDE DEF seen, jobs
<1>3. /\ Others(r) /\ Starts(r, "remove", seen, jobs)
      /\ \A d, e \in request'[r].doc : d = e
  BY <1>1, <1>2, StartsStep DEF Pcs, Waiting
<1> QED
  BY <1>0, <1>3, UntouchedSteady DEF seen, jobs

Rewrites(r) ==
  [i \in Intervals |-> IF i \in request[r].seen \cap DOMAIN Prices(r)
                       THEN Job("price", Prices(r)[i]) ELSE Idle]

LEMMA RewritesTyped ==
  ASSUME TypeOK, NEW r \in Requests
  PROVE  /\ Rewrites(r) \in [Intervals -> Jobs]
         /\ \A i \in Intervals :
              Rewrites(r)[i].step # "idle" =>
                /\ i \in request[r].seen \cap DOMAIN Prices(r)
                /\ Rewrites(r)[i].step = "find"
<1>1. request[r].ask \in Payloads
  BY RequestFields
<1>2. \A i \in DOMAIN Prices(r) : Prices(r)[i] \in Flags
  BY <1>1, AskFields DEF Prices
<1> QED
  BY <1>2, IdleJob DEF Rewrites

LEMMA StartsSame ==
  ASSUME Typed, NEW r \in Requests, NEW pc \in {"rewrite", "elect"},
         NEW jobs \in [Intervals -> Jobs],
         Become(r, [request[r] EXCEPT !.pc = pc, !.job = jobs])
  PROVE  /\ Others(r) /\ Starts(r, pc, request[r].seen, jobs)
         /\ \A d, e \in request'[r].doc : d = e
<1> DEFINE q == [request[r] EXCEPT !.pc = pc, !.job = jobs]
<1>1. TypeOK /\ request[r] \in RequestStates
  BY RequestFields DEF Typed
<1>2. /\ q \in RequestStates /\ q.pc = pc
      /\ q.ask = request[r].ask /\ q.package = request[r].package
      /\ q.alone = request[r].alone
      /\ q.seen = request[r].seen /\ q.first = request[r].first
      /\ q.doc = request[r].doc /\ q.job = jobs
  BY <1>1 DEF RequestStates, Waiting, Ended
<1>3. Become(r, q)
  OBVIOUS
<1> HIDE DEF q
<1>4. Others(r) /\ request'[r] = q
  BY <1>1, <1>2, <1>3, Becomes
<1> QED
  BY <1>2, <1>4, OneRead DEF Starts

LEMMA RewritingStep ==
  ASSUME Typed, NEW r \in Requests, Become(r, Rewriting(request[r]))
  PROVE  /\ Others(r) /\ Starts(r, "rewrite", request[r].seen, Rewrites(r))
         /\ \A d, e \in request'[r].doc : d = e
<1> DEFINE jobs == Rewrites(r)
<1>1. jobs \in [Intervals -> Jobs]
  BY RewritesTyped DEF Typed
<1>2. Become(r, [request[r] EXCEPT !.pc = "rewrite", !.job = jobs])
  BY DEF Rewriting, Rewrites, Prices
<1> HIDE DEF jobs
<1>3. /\ Others(r) /\ Starts(r, "rewrite", request[r].seen, jobs)
      /\ \A d, e \in request'[r].doc : d = e
  BY <1>1, <1>2, StartsSame
<1> QED
  BY <1>3 DEF jobs

LEMMA RemovedStep ==
  ASSUME Typed, NEW r \in Requests, Removed(r)
  PROVE  /\ Steady(r) /\ Untouched /\ request[r].pc = "remove" /\ JobsDone(r)
         /\ \/ Goes(r, "check")
            \/ Starts(r, "rewrite", request[r].seen, Rewrites(r))
<1>0. /\ TypeOK /\ Untouched /\ latest' = latest /\ request[r].pc = "remove"
      /\ JobsDone(r)
  BY DEF Typed, Removed, Untouched
<1>1. CASE Become(r, [request[r] EXCEPT !.pc = "check"])
  <2>1. Goto(r, "check")
    BY <1>1 DEF Become, Goto
  <2>2. Others(r) /\ Goes(r, "check") /\ \A d, e \in request'[r].doc : d = e
    BY <2>1, GoesStep DEF Pcs
  <2> QED
    BY <1>0, <2>2, UntouchedSteady
<1>2. CASE Become(r, Rewriting(request[r]))
  BY <1>0, <1>2, RewritingStep, UntouchedSteady
<1> QED
  BY <1>1, <1>2 DEF Removed

LEMMA FirstsFields ==
  ASSUME NEW call, NEW prices, NEW added \in SUBSET Intervals,
         NEW first \in Firsts(call, prices, added)
  PROVE  first \subseteq added /\ \A i, j \in first : i = j
BY DEF Firsts

LEMMA CheckIntervalsStep ==
  ASSUME Typed, NEW r \in Requests, CheckIntervals(r)
  PROVE  /\ Steady(r) /\ Untouched /\ request[r].pc = "check"
         /\ \/ Ends(r, "rejected")
            \/ /\ request'[r].pc =
                    IF Call(r) = "createPackagePrice" THEN "package"
                    ELSE IF request'[r].first # {} THEN "demoteAll" ELSE "insert"
               /\ \A i, j \in request'[r].first : i = j
               /\ request'[r].seen = request[r].seen
               /\ request'[r].doc = request[r].doc
               /\ request'[r].job = request[r].job
<1>0. TypeOK /\ Untouched /\ latest' = latest /\ request[r].pc = "check"
  BY DEF Typed, CheckIntervals, Untouched
<1>1. CASE Finish(r, "rejected")
  <2>1. Others(r) /\ Ends(r, "rejected") /\ \A d, e \in request'[r].doc : d = e
    BY <1>1, EndsStep DEF Ended
  <2> QED
    BY <1>0, <2>1, UntouchedSteady
<1>2. CASE ~Finish(r, "rejected")
  <2>0. Added(request[r]) \in SUBSET Intervals /\ request[r] \in RequestStates
    BY <1>0, RequestFields, AskFields DEF Added
  <2>1. PICK first \in Firsts(Call(r), Prices(r), Added(request[r])) :
          Become(r, [request[r] EXCEPT !.first = first,
            !.pc = IF Call(r) = "createPackagePrice" THEN "package"
                   ELSE IF first # {} THEN "demoteAll" ELSE "insert"])
    BY <1>2 DEF CheckIntervals, Call, Prices
  <2>2. first \in SUBSET Intervals /\ \A i, j \in first : i = j
    BY <2>0, FirstsFields
  <2> DEFINE pc == IF Call(r) = "createPackagePrice" THEN "package"
                   ELSE IF first # {} THEN "demoteAll" ELSE "insert"
             q == [request[r] EXCEPT !.first = first, !.pc = pc]
  <2>3. pc \in {"package", "demoteAll", "insert"} /\ Become(r, q)
    BY <2>1
  <2> HIDE DEF pc
  <2>4. /\ q \in RequestStates /\ q.pc = pc /\ q.first = first
        /\ q.ask = request[r].ask /\ q.package = request[r].package
        /\ q.alone = request[r].alone
        /\ q.seen = request[r].seen
        /\ q.doc = request[r].doc /\ q.job = request[r].job
    BY <2>0, <2>2, <2>3 DEF RequestStates
  <2> HIDE DEF q
  <2>5. Others(r) /\ request'[r] = q
    BY <1>0, <2>3, <2>4, Becomes
  <2>6. Steady(r)
    BY <1>0, <2>4, <2>5, OneRead, UntouchedSteady
  <2> QED
    BY <1>0, <2>2, <2>4, <2>5, <2>6 DEF pc
<1> QED
  BY <1>1, <1>2

LEMMA CheckPackageStep ==
  ASSUME Typed, NEW r \in Requests, CheckPackage(r)
  PROVE  /\ Steady(r) /\ Untouched /\ request[r].pc = "package"
         /\ \/ Live(Package(r)) /\ Goes(r, "existing")
            \/ Ends(r, "rejected")
<1>0. Untouched /\ latest' = latest /\ request[r].pc = "package"
  BY DEF CheckPackage, Untouched
<1>1. CASE Live(Package(r))
  <2>1. Goto(r, "existing")
    BY <1>1 DEF CheckPackage, Package
  <2> QED
    BY <1>0, <1>1, <2>1, GoesStep, UntouchedSteady DEF Pcs
<1>2. CASE ~Live(Package(r))
  <2>1. Finish(r, "rejected")
    BY <1>2 DEF CheckPackage, Package
  <2> QED
    BY <1>0, <2>1, EndsStep, UntouchedSteady DEF Ended
<1> QED
  BY <1>1, <1>2

LEMMA CheckExistingStep ==
  ASSUME Typed, NEW r \in Requests, CheckExisting(r)
  PROVE  /\ Steady(r) /\ Untouched /\ request[r].pc = "existing"
         /\ \/ Goes(r, IF request[r].first # {} THEN "demoteAll" ELSE "insert")
            \/ Ends(r, "rejected")
<1>0. Untouched /\ latest' = latest /\ request[r].pc = "existing"
  BY DEF CheckExisting, Untouched
<1>1. CASE Finish(r, "rejected")
  BY <1>0, <1>1, EndsStep, UntouchedSteady DEF Ended
<1>2. CASE ~Finish(r, "rejected")
  <2> DEFINE pc == IF request[r].first # {} THEN "demoteAll" ELSE "insert"
  <2>1. Goto(r, pc) /\ pc \in Pcs
    BY <1>2 DEF CheckExisting, Pcs
  <2> HIDE DEF pc
  <2>2. Others(r) /\ Goes(r, pc) /\ \A d, e \in request'[r].doc : d = e
    BY <2>1, GoesStep
  <2> QED
    BY <1>0, <2>2, UntouchedSteady DEF pc
<1> QED
  BY <1>1, <1>2

LEMMA DemoteAllStep ==
  ASSUME Typed, NEW r \in Requests, DemoteAll(r)
  PROVE  /\ Steady(r) /\ request[r].pc = "demoteAll" /\ Goes(r, "insert")
         /\ UNCHANGED <<package, feature, configs, history, cached>>
         /\ SetPrices(r, [i \in Intervals |->
              [price[Package(r)][i] EXCEPT !.is_initial = FALSE]])
<1> DEFINE p == request[r].package
           row == [i \in Intervals |-> [price[p][i] EXCEPT !.is_initial = FALSE]]
<1>0. /\ TypeOK /\ latest' = latest /\ request[r].pc = "demoteAll"
      /\ UNCHANGED <<package, feature, configs, history, cached>>
      /\ Goto(r, "insert") /\ p \in Packages
  BY RequestFields DEF Typed, DemoteAll
<1>1. row \in [Intervals -> PriceStates]
  BY <1>0, PriceFields, Demoted
<1>2. price' = [price EXCEPT ![p] = row]
  BY <1>0 DEF DemoteAll, TypeOK
<1> HIDE DEF row
<1>3. SetPrices(r, row) /\ price' \in [Packages -> [Intervals -> PriceStates]]
  BY <1>0, <1>1, <1>2, SetPricesStep
<1>4. Others(r) /\ Goes(r, "insert") /\ \A d, e \in request'[r].doc : d = e
  BY <1>0, GoesStep DEF Pcs
<1>5. Steady(r)
  BY <1>0, <1>3, <1>4, PriceSteady
<1> QED
  BY <1>0, <1>3, <1>4, <1>5 DEF row, Package

Inserted(r) == {i \in Added(request[r]) : price[Package(r)][i].state = "none"}

LEMMA InsertPricesStep ==
  ASSUME Typed, NEW r \in Requests, InsertPrices(r)
  PROVE  /\ Steady(r) /\ request[r].pc = "insert"
         /\ UNCHANGED <<package, feature, configs, history, cached>>
         /\ SetPrices(r, [i \in Intervals |->
              IF i \in Inserted(r)
              THEN [state |-> "live", is_initial |-> i \in request[r].first, by |-> r]
              ELSE price[Package(r)][i]])
         /\ Goes(r, "clearPrices") \/ Ends(r, "rejected")
<1> DEFINE p == request[r].package
           row == [i \in Intervals |->
              IF i \in Inserted(r)
              THEN [state |-> "live", is_initial |-> i \in request[r].first, by |-> r]
              ELSE price[p][i]]
<1>0. /\ TypeOK /\ latest' = latest /\ request[r].pc = "insert"
      /\ UNCHANGED <<package, feature, configs, history, cached>>
      /\ Goto(r, "clearPrices") \/ Finish(r, "rejected")
      /\ p \in Packages
  BY RequestFields DEF Typed, InsertPrices
<1>1. row \in [Intervals -> PriceStates]
  <2>1. ASSUME NEW i \in Intervals
        PROVE  /\ [state |-> "live", is_initial |-> i \in request[r].first, by |-> r]
                    \in PriceStates
               /\ price[p][i] \in PriceStates
    BY <1>0, PriceFields DEF PriceStates, DocStates
  <2> QED
    BY <2>1
<1>2. price' = [price EXCEPT ![p] = row]
  BY <1>0 DEF InsertPrices, TypeOK, Inserted, Package
<1> HIDE DEF row
<1>3. SetPrices(r, row) /\ price' \in [Packages -> [Intervals -> PriceStates]]
  BY <1>0, <1>1, <1>2, SetPricesStep
<1>4. /\ Others(r) /\ \A d, e \in request'[r].doc : d = e
      /\ Goes(r, "clearPrices") \/ Ends(r, "rejected")
  BY <1>0, GoesStep, EndsStep DEF Pcs, Ended
<1>5. Steady(r)
  BY <1>0, <1>3, <1>4, PriceSteady
<1> QED
  BY <1>0, <1>3, <1>4, <1>5 DEF row, Package

LEMMA ClearAfterPricesStep ==
  ASSUME Typed, NEW r \in Requests, ClearAfterPrices(r)
  PROVE  /\ Steady(r) /\ request[r].pc = "clearPrices" /\ cached' = NoCopies
         /\ UNCHANGED <<package, price, feature, configs, history>>
         /\ \/ Call(r) = "createPackage" /\ Goes(r, "addFeatures")
            \/ /\ Call(r) = "updatePackage"
               /\ Starts(r, "rewrite", request[r].seen, Rewrites(r))
            \/ Call(r) = "deletePackage" /\ Goes(r, "dropConfigs")
            \/ Call(r) \in Restores /\ Goes(r, "clear")
            \/ /\ Call(r) \notin WriteCalls \cup {"deletePackage"} \cup Restores
               /\ Ends(r, "done")
<1>0. /\ latest' = latest /\ request[r].pc = "clearPrices" /\ cached' = NoCopies
      /\ UNCHANGED <<package, price, feature, configs, history>>
  BY DEF ClearAfterPrices
<1>1. CASE Call(r) = "createPackage"
  <2>1. Goto(r, "addFeatures")
    BY <1>1 DEF ClearAfterPrices, Call, Restores
  <2> QED
    BY <1>0, <1>1, <2>1, GoesStep, ClearSteady DEF Pcs
<1>2. CASE Call(r) = "updatePackage"
  <2>1. Become(r, Rewriting(request[r]))
    BY <1>2 DEF ClearAfterPrices, Call, Restores
  <2> QED
    BY <1>0, <1>2, <2>1, RewritingStep, ClearSteady
<1>3. CASE Call(r) = "deletePackage"
  <2>1. Goto(r, "dropConfigs")
    BY <1>3 DEF ClearAfterPrices, Call, Restores
  <2> QED
    BY <1>0, <1>3, <2>1, GoesStep, ClearSteady DEF Pcs
<1>4. CASE Call(r) \in Restores
  <2>1. Goto(r, "clear")
    BY <1>4 DEF ClearAfterPrices, Call, Restores
  <2> QED
    BY <1>0, <1>4, <2>1, GoesStep, ClearSteady DEF Pcs
<1>5. CASE Call(r) \notin WriteCalls \cup {"deletePackage"} \cup Restores
  <2>1. Finish(r, "done")
    BY <1>5 DEF ClearAfterPrices, Call, WriteCalls
  <2> QED
    BY <1>0, <1>5, <2>1, EndsStep, ClearSteady DEF Ended
<1> QED
  BY <1>1, <1>2, <1>3, <1>4, <1>5 DEF WriteCalls

Elects(S, flag) == [i \in Intervals |-> IF i \in S THEN Job("flag", flag) ELSE Idle]

LEMMA ReviewStep ==
  ASSUME Typed, NEW r \in Requests, Review(r)
  PROVE  LET live == LivePrices(Package(r))
             initial == {i \in live : price[Package(r)][i].is_initial}
         IN /\ Steady(r) /\ Untouched /\ request[r].pc = "rewrite" /\ JobsDone(r)
            /\ \E S \in SUBSET Intervals, flag \in {"yes", "no"} :
                 /\ Starts(r, "elect", request[r].seen, Elects(S, flag))
                 /\ \/ initial = {} /\ flag = "yes" /\ \E i \in live : S = {i}
                    \/ initial = {} /\ flag = "no" /\ S = {}
                    \/ flag = "no" /\ \E i \in initial : S = initial \ {i}
<1> DEFINE live == LivePrices(Package(r))
           initial == {i \in live : price[Package(r)][i].is_initial}
           Elect(S, flag) == Become(r, [request[r] EXCEPT !.pc = "elect",
                                                          !.job = Elects(S, flag)])
<1>0. Untouched /\ latest' = latest /\ request[r].pc = "rewrite" /\ JobsDone(r)
  BY DEF Review, Untouched
<1>1. \E S \in SUBSET Intervals, flag \in {"yes", "no"} :
        /\ Elect(S, flag)
        /\ \/ initial = {} /\ flag = "yes" /\ \E i \in live : S = {i}
           \/ initial = {} /\ flag = "no" /\ S = {}
           \/ flag = "no" /\ \E i \in initial : S = initial \ {i}
  <2>0. live \subseteq Intervals /\ initial \subseteq Intervals
    BY DEF LivePrices
  <2>1. CASE initial = {} /\ live # {}
    <3>1. PICK i \in live : Elect({i}, "yes")
      BY <2>1 DEF Review, Elects, Package
    <3>2. {i} \in SUBSET Intervals
      BY <2>0
    <3> HIDE DEF live, initial, Elect
    <3> QED
      BY <2>1, <3>1, <3>2
  <2>2. CASE initial = {} /\ live = {}
    <3>1. Elect({}, "no")
      BY <2>2 DEF Review, Elects, Package
    <3> HIDE DEF live, initial, Elect
    <3> QED
      BY <2>2, <3>1
  <2>3. CASE initial # {}
    <3>1. PICK i \in initial : Elect(initial \ {i}, "no")
      BY <2>3 DEF Review, Elects, Package
    <3> HIDE DEF live, initial, Elect
    <3> QED
      BY <2>0, <3>1
  <2> QED
    BY <2>1, <2>2, <2>3
<1>2. PICK S \in SUBSET Intervals, flag \in {"yes", "no"} :
        /\ Elect(S, flag)
        /\ \/ initial = {} /\ flag = "yes" /\ \E i \in live : S = {i}
           \/ initial = {} /\ flag = "no" /\ S = {}
           \/ flag = "no" /\ \E i \in initial : S = initial \ {i}
  BY <1>1
<1>3. Elects(S, flag) \in [Intervals -> Jobs]
  <2>1. flag \in Flags
    BY <1>2 DEF Flags
  <2> QED
    BY <2>1, IdleJob DEF Elects
<1>4. Become(r, [request[r] EXCEPT !.pc = "elect", !.job = Elects(S, flag)])
  BY <1>2
<1>5. /\ Others(r) /\ Starts(r, "elect", request[r].seen, Elects(S, flag))
      /\ \A d, e \in request'[r].doc : d = e
  BY <1>3, <1>4, StartsSame
<1>6. Steady(r)
  BY <1>0, <1>5, UntouchedSteady
<1> HIDE DEF live, initial, Elect
<1>7. /\ Steady(r) /\ Untouched /\ request[r].pc = "rewrite" /\ JobsDone(r)
      /\ \E X \in SUBSET Intervals, f \in {"yes", "no"} :
           /\ Starts(r, "elect", request[r].seen, Elects(X, f))
           /\ \/ initial = {} /\ f = "yes" /\ \E i \in live : X = {i}
              \/ initial = {} /\ f = "no" /\ X = {}
              \/ f = "no" /\ \E i \in initial : X = initial \ {i}
  BY <1>0, <1>2, <1>5, <1>6
<1> QED
  BY <1>7 DEF live, initial

LEMMA ElectedStep ==
  ASSUME Typed, NEW r \in Requests, Elected(r)
  PROVE  /\ Steady(r) /\ Untouched /\ request[r].pc = "elect" /\ JobsDone(r)
         /\ \E pc \in {"features", "clearOthers", "write"} :
              /\ Goes(r, pc)
              /\ pc = "clearOthers" => request[r].ask.initial = "yes"
              /\ pc = "write" => request[r].ask.initial # "yes"
<1>0. Untouched /\ latest' = latest /\ request[r].pc = "elect" /\ JobsDone(r)
  BY DEF Elected, Untouched
<1>1. PICK pc \in {"features", "clearOthers", "write"} :
        /\ Goto(r, pc)
        /\ pc = "clearOthers" => request[r].ask.initial = "yes"
        /\ pc = "write" => request[r].ask.initial # "yes"
  BY DEF Elected, AfterFeatures
<1>2. Others(r) /\ Goes(r, pc) /\ \A d, e \in request'[r].doc : d = e
  BY <1>1, GoesStep DEF Pcs
<1>3. Steady(r)
  BY <1>0, <1>2, UntouchedSteady
<1> QED
  BY <1>0, <1>1, <1>2, <1>3

LEMMA PriceRouteDoneStep ==
  ASSUME Typed, NEW r \in Requests, PriceRouteDone(r)
  PROVE  /\ Steady(r) /\ Untouched /\ request[r].pc = "priceRoute" /\ JobsDone(r)
         /\ Ends(r, "done")
<1>0. /\ Untouched /\ latest' = latest /\ request[r].pc = "priceRoute" /\ JobsDone(r)
      /\ Finish(r, "done")
  BY DEF PriceRouteDone, Untouched
<1> QED
  BY <1>0, EndsStep, UntouchedSteady DEF Ended

-----------------------------------------------------------------------------
(* The steps of a request with features and with the package itself. *)

(* Only the features of the package of r change. *)
SetFeatures(r) ==
  /\ UNCHANGED <<package, price, configs, history, cached>>
  /\ \A p \in Packages \ {Package(r)} : feature'[p] = feature[p]

LEMMA SetFeaturesStep ==
  ASSUME TypeOK, NEW r \in Requests, NEW row \in [Features -> DocStates],
         feature' = [feature EXCEPT ![request[r].package] = row],
         UNCHANGED <<package, price, configs, history, cached>>
  PROVE  SetFeatures(r) /\ feature' \in [Packages -> [Features -> DocStates]]
BY RequestFields DEF SetFeatures, TypeOK, Package

LEMMA SeeFeaturesStep ==
  ASSUME Typed, NEW r \in Requests, SeeFeatures(r)
  PROVE  /\ Steady(r) /\ Untouched /\ request[r].pc = "features"
         /\ \E pc \in {"dropFeatures", "addFeatures", "clearOthers", "write"} :
              /\ Goes(r, pc)
              /\ pc = "clearOthers" => request[r].ask.initial = "yes"
              /\ pc = "write" => request[r].ask.initial # "yes"
<1>0. Untouched /\ latest' = latest /\ request[r].pc = "features"
  BY DEF SeeFeatures, Untouched
<1>1. PICK pc \in {"dropFeatures", "addFeatures", "clearOthers", "write"} :
        /\ Become(r, [request[r] EXCEPT !.had = LiveFeatures(request[r].package),
                                        !.pc = pc])
        /\ pc = "clearOthers" => request[r].ask.initial = "yes"
        /\ pc = "write" => request[r].ask.initial # "yes"
  BY DEF SeeFeatures, AfterFeatures
<1> DEFINE had == LiveFeatures(request[r].package)
           q == [request[r] EXCEPT !.had = had, !.pc = pc]
<1>2. TypeOK /\ request[r] \in RequestStates /\ had \in SUBSET Features
  BY RequestFields DEF Typed, LiveFeatures
<1>3. Become(r, q)
  BY <1>1
<1> HIDE DEF had
<1>4. /\ q \in RequestStates /\ q.pc = pc
      /\ q.ask = request[r].ask /\ q.package = request[r].package
      /\ q.alone = request[r].alone
      /\ q.seen = request[r].seen /\ q.first = request[r].first
      /\ q.doc = request[r].doc /\ q.job = request[r].job
  BY <1>1, <1>2 DEF RequestStates
<1> HIDE DEF q
<1>5. Others(r) /\ request'[r] = q
  BY <1>2, <1>3, <1>4, Becomes
<1>6. Goes(r, pc)
  BY <1>4, <1>5 DEF Goes
<1>7. Steady(r)
  BY <1>0, <1>4, <1>5, OneRead, UntouchedSteady
<1> QED
  BY <1>0, <1>1, <1>6, <1>7

LEMMA DropFeaturesStep ==
  ASSUME Typed, NEW r \in Requests, DropFeatures(r)
  PROVE  /\ Steady(r) /\ request[r].pc = "dropFeatures" /\ SetFeatures(r)
         /\ \E pc \in {"addFeatures", "clearOthers", "write"} :
              /\ Goes(r, pc)
              /\ pc = "clearOthers" => request[r].ask.initial = "yes"
              /\ pc = "write" => request[r].ask.initial # "yes"
<1> DEFINE gone == {f \in request[r].had \ request[r].ask.features :
                      feature[request[r].package][f] # "none"}
           row == [f \in Features |-> IF f \in gone THEN "deleted"
                                      ELSE feature[request[r].package][f]]
<1>0. /\ TypeOK /\ latest' = latest /\ request[r].pc = "dropFeatures"
      /\ UNCHANGED <<package, price, configs, history, cached>>
      /\ request[r].package \in Packages
  BY RequestFields DEF Typed, DropFeatures
<1>1. PICK pc \in {"addFeatures", "clearOthers", "write"} :
        /\ Goto(r, pc)
        /\ pc = "clearOthers" => request[r].ask.initial = "yes"
        /\ pc = "write" => request[r].ask.initial # "yes"
  BY DEF DropFeatures, AfterFeatures
<1>2. row \in [Features -> DocStates]
  BY <1>0 DEF TypeOK, DocStates
<1>3. feature' = [feature EXCEPT ![request[r].package] = row]
  BY <1>0 DEF DropFeatures, TypeOK
<1> HIDE DEF row
<1>4. SetFeatures(r) /\ feature' \in [Packages -> [Features -> DocStates]]
  BY <1>0, <1>2, <1>3, SetFeaturesStep
<1>5. Others(r) /\ Goes(r, pc) /\ \A d, e \in request'[r].doc : d = e
  BY <1>1, GoesStep DEF Pcs
<1>6. Steady(r)
  BY <1>0, <1>4, <1>5, FeatureSteady
<1> QED
  BY <1>0, <1>1, <1>4, <1>5, <1>6

LEMMA AddFeaturesStep ==
  ASSUME Typed, NEW r \in Requests, AddFeatures(r)
  PROVE  /\ Steady(r) /\ request[r].pc = "addFeatures" /\ SetFeatures(r)
         /\ \/ Ends(r, "rejected")
            \/ Goes(r, IF Call(r) = "createPackage" THEN "clear"
                       ELSE "reviveFeatures")
<1> DEFINE new == {f \in request[r].ask.features \ request[r].had :
                     feature[request[r].package][f] = "none"}
           row == [f \in Features |-> IF f \in new THEN "live"
                                      ELSE feature[request[r].package][f]]
           pc == IF Call(r) = "createPackage" THEN "clear" ELSE "reviveFeatures"
<1>0. /\ TypeOK /\ latest' = latest /\ request[r].pc = "addFeatures"
      /\ UNCHANGED <<package, price, configs, history, cached>>
      /\ request[r].package \in Packages
  BY RequestFields DEF Typed, AddFeatures
<1>1. Finish(r, "rejected") \/ Goto(r, pc)
  BY DEF AddFeatures, Call
<1>2. row \in [Features -> DocStates]
  BY <1>0 DEF TypeOK, DocStates
<1>3. feature' = [feature EXCEPT ![request[r].package] = row]
  BY <1>0 DEF AddFeatures, TypeOK
<1>p. pc \in {"clear", "reviveFeatures"}
  OBVIOUS
<1> HIDE DEF row, pc
<1>4. SetFeatures(r) /\ feature' \in [Packages -> [Features -> DocStates]]
  BY <1>0, <1>2, <1>3, SetFeaturesStep
<1>5. /\ Others(r) /\ \A d, e \in request'[r].doc : d = e
      /\ Ends(r, "rejected") \/ Goes(r, pc)
  BY <1>1, <1>p, GoesStep, EndsStep DEF Pcs, Ended
<1>6. Steady(r)
  BY <1>0, <1>4, <1>5, FeatureSteady
<1> QED
  BY <1>0, <1>4, <1>5, <1>6 DEF pc

LEMMA ReviveFeaturesStep ==
  ASSUME Typed, NEW r \in Requests, ReviveFeatures(r)
  PROVE  /\ Steady(r) /\ request[r].pc = "reviveFeatures" /\ SetFeatures(r)
         /\ \E pc \in {"clearOthers", "write"} :
              /\ Goes(r, pc)
              /\ pc = "clearOthers" => request[r].ask.initial = "yes"
              /\ pc = "write" => request[r].ask.initial # "yes"
<1> DEFINE row == [f \in Features |->
              IF /\ f \in request[r].ask.features \ request[r].had
                 /\ feature[request[r].package][f] = "deleted" THEN "live"
              ELSE feature[request[r].package][f]]
<1>0. /\ TypeOK /\ latest' = latest /\ request[r].pc = "reviveFeatures"
      /\ UNCHANGED <<package, price, configs, history, cached>>
      /\ request[r].package \in Packages
  BY RequestFields DEF Typed, ReviveFeatures
<1>1. PICK pc \in {"clearOthers", "write"} :
        /\ Goto(r, pc)
        /\ pc = "clearOthers" => request[r].ask.initial = "yes"
        /\ pc = "write" => request[r].ask.initial # "yes"
  BY DEF ReviveFeatures, AfterFeatures
<1>2. row \in [Features -> DocStates]
  BY <1>0 DEF TypeOK, DocStates
<1>3. feature' = [feature EXCEPT ![request[r].package] = row]
  BY <1>0 DEF ReviveFeatures, TypeOK
<1> HIDE DEF row
<1>4. SetFeatures(r) /\ feature' \in [Packages -> [Features -> DocStates]]
  BY <1>0, <1>2, <1>3, SetFeaturesStep
<1>5. Others(r) /\ Goes(r, pc) /\ \A d, e \in request'[r].doc : d = e
  BY <1>1, GoesStep DEF Pcs
<1>6. Steady(r)
  BY <1>0, <1>4, <1>5, FeatureSteady
<1> QED
  BY <1>0, <1>1, <1>4, <1>5, <1>6

(* A package of r is set to doc, the others stay. *)
SetPackage(r, doc) ==
  /\ package'[Package(r)] = doc
  /\ \A p \in Packages \ {Package(r)} : package'[p] = package[p]

LEMMA SetPackageStep ==
  ASSUME TypeOK, NEW r \in Requests, NEW doc \in PackageStates,
         package' = [package EXCEPT ![request[r].package] = doc]
  PROVE  SetPackage(r, doc) /\ package' \in [Packages -> PackageStates]
BY RequestFields DEF SetPackage, TypeOK, Package

LEMMA ClearOthersStep ==
  ASSUME Typed, NEW r \in Requests, ClearOthers(r)
  PROVE  /\ Steady(r) /\ request[r].pc = "clearOthers"
         /\ UNCHANGED <<price, feature, configs, history, cached>>
         /\ package'[Package(r)] = package[Package(r)]
         /\ \A p \in Packages \ {Package(r)} :
              /\ package'[p].state = package[p].state
              /\ package'[p].version = package[p].version
              /\ ~package'[p].is_initial
         /\ Goes(r, CASE Call(r) = "createPackage" -> "create"
                      [] Call(r) = "updatePackage" -> "write"
                      [] OTHER -> "mark")
<1> DEFINE pc == CASE Call(r) = "createPackage" -> "create"
                   [] Call(r) = "updatePackage" -> "write"
                   [] OTHER -> "mark"
<1>0. /\ TypeOK /\ latest' = latest /\ request[r].pc = "clearOthers"
      /\ UNCHANGED <<price, feature, configs, history, cached>>
      /\ Package(r) \in Packages /\ Goto(r, pc) /\ pc \in Pcs
  BY RequestFields DEF Typed, ClearOthers, Package, Call, Pcs
<1> HIDE DEF pc
<1>1. Others(r) /\ Goes(r, pc) /\ \A d, e \in request'[r].doc : d = e
  BY <1>0, GoesStep
<1>2. package' = [p \in Packages |->
         IF p = Package(r) THEN package[p]
         ELSE [package[p] EXCEPT !.is_initial = FALSE]]
  BY DEF ClearOthers, Package
<1>3. ASSUME NEW p \in Packages
      PROVE  /\ package'[p] \in PackageStates
             /\ p = Package(r) => package'[p] = package[p]
             /\ p # Package(r) =>
                  /\ package'[p].state = package[p].state
                  /\ package'[p].version = package[p].version
                  /\ ~package'[p].is_initial
  <2>1. package[p] \in PackageStates
    BY <1>0, PackageFields
  <2>2. LET new == [package[p] EXCEPT !.is_initial = FALSE]
        IN /\ new \in PackageStates /\ new.state = package[p].state
           /\ new.version = package[p].version /\ ~new.is_initial
    BY <2>1 DEF PackageStates
  <2> QED
    BY <1>2, <2>1, <2>2
<1>4. package' \in [Packages -> PackageStates]
  BY <1>2, <1>3
<1>5. Steady(r)
  BY <1>0, <1>1, <1>4, PackageSteady
<1> QED
  BY <1>0, <1>1, <1>3, <1>5 DEF pc

LEMMA CreatePackageStep ==
  ASSUME Typed, NEW r \in Requests, CreatePackage(r)
  PROVE  /\ Steady(r) /\ request[r].pc = "create"
         /\ UNCHANGED <<price, feature, configs, history, cached>>
         /\ \/ /\ package[Package(r)].state = "none" /\ Goes(r, "check")
               /\ SetPackage(r, [state |-> "live",
                                 is_initial |-> request[r].ask.initial = "yes",
                                 version |-> 1])
            \/ Ends(r, "rejected") /\ package' = package
<1>0. /\ TypeOK /\ latest' = latest /\ request[r].pc = "create"
      /\ UNCHANGED <<price, feature, configs, history, cached>>
  BY DEF Typed, CreatePackage
<1>1. CASE Finish(r, "rejected") /\ package' = package
  BY <1>0, <1>1, EndsStep, PackageSteady DEF Ended, TypeOK
<1>2. CASE ~(Finish(r, "rejected") /\ package' = package)
  <2> DEFINE doc == [state |-> "live", is_initial |-> request[r].ask.initial = "yes",
                     version |-> 1]
  <2>1. /\ package[request[r].package].state = "none" /\ Goto(r, "check")
        /\ package' = [package EXCEPT ![request[r].package] = doc]
    BY <1>2 DEF CreatePackage
  <2>2. doc \in PackageStates
    BY DEF PackageStates, DocStates
  <2> HIDE DEF doc
  <2>3. SetPackage(r, doc) /\ package' \in [Packages -> PackageStates]
    BY <1>0, <2>1, <2>2, SetPackageStep
  <2>4. Others(r) /\ Goes(r, "check") /\ \A d, e \in request'[r].doc : d = e
    BY <2>1, GoesStep DEF Pcs
  <2>5. Steady(r)
    BY <1>0, <2>3, <2>4, PackageSteady
  <2> QED
    BY <1>0, <2>1, <2>3, <2>4, <2>5 DEF doc, Package
<1> QED
  BY <1>1, <1>2

LEMMA WritePackageStep ==
  ASSUME Typed, NEW r \in Requests, WritePackage(r)
  PROVE  /\ Steady(r) /\ request[r].pc = "write"
         /\ Goes(r, "clear") \/ (Ends(r, "rejected") /\ package' = package)
         /\ UNCHANGED <<price, feature, configs, history, cached>>
         /\ \/ package' = package /\ (~Live(Package(r)) \/ Ends(r, "rejected"))
            \/ Live(Package(r)) /\ \E doc \in PackageStates :
                 /\ SetPackage(r, doc) /\ doc.state = "live"
                 /\ doc.version = request[r].version + 1
                 /\ doc.is_initial = Flagged(package[Package(r)].is_initial,
                                             request[r].ask.initial)
<1>0. /\ TypeOK /\ latest' = latest /\ request[r].pc = "write"
      /\ UNCHANGED <<price, feature, configs, history, cached>>
      /\ request[r].package \in Packages /\ request[r].version \in Nat
      /\ Goto(r, "clear") \/ (Finish(r, "rejected") /\ package' = package)
  BY RequestFields DEF Typed, WritePackage
<1>4. CASE Finish(r, "rejected") /\ package' = package
  BY <1>0, <1>4, EndsStep, PackageSteady DEF Ended, TypeOK
<1>5. CASE ~(Finish(r, "rejected") /\ package' = package)
  <2>0. Goto(r, "clear")
    BY <1>0, <1>5
  <2>1. Others(r) /\ Goes(r, "clear") /\ \A d, e \in request'[r].doc : d = e
    BY <1>0, <2>0, GoesStep DEF Pcs
  <2>2. CASE ~Live(Package(r))
    <3>1. package' = package
      BY <1>5, <2>2 DEF WritePackage, Package
    <3> QED
      BY <1>0, <2>1, <2>2, <3>1, PackageSteady DEF TypeOK
  <2>3. CASE Live(Package(r))
    <3> DEFINE p == request[r].package
               initial == Flagged(package[p].is_initial, request[r].ask.initial)
               version == request[r].version + 1
               doc == [package[p] EXCEPT !.is_initial = initial, !.version = version]
    <3>0. package[p] \in PackageStates /\ package[p].state = "live"
      BY <1>0, <2>3, PackageFields DEF Live, Package
    <3>1. /\ initial \in BOOLEAN
          /\ version \in Nat
      <4>1. package[p].is_initial \in BOOLEAN
        BY <1>0, PackageFields
      <4>2. initial \in BOOLEAN
        BY <4>1 DEF Flagged
      <4> QED
        BY <1>0, <4>2
    <3>2. package' = [package EXCEPT ![p] = doc]
      BY <1>0, <1>5, <2>3 DEF WritePackage, Package, TypeOK, PackageStates
    <3> HIDE DEF initial, version
    <3>3. /\ doc \in PackageStates /\ doc.state = "live" /\ doc.version = version
          /\ doc.is_initial = initial
      BY <3>0, <3>1 DEF PackageStates
    <3> HIDE DEF doc
    <3>4. SetPackage(r, doc) /\ package' \in [Packages -> PackageStates]
      BY <1>0, <3>2, <3>3, SetPackageStep
    <3>5. Steady(r)
      BY <1>0, <2>1, <3>4, PackageSteady
    <3> QED
      BY <1>0, <2>1, <2>3, <3>3, <3>4, <3>5 DEF initial, version, Package
  <2> QED
    BY <2>2, <2>3
<1> QED
  BY <1>4, <1>5

LEMMA MarkInitialStep ==
  ASSUME Typed, NEW r \in Requests, MarkInitial(r)
  PROVE  /\ Steady(r) /\ request[r].pc = "mark"
         /\ UNCHANGED <<price, feature, configs, history, cached>>
         /\ \/ Ends(r, "rejected") /\ package' = package
            \/ Goes(r, "clear") /\ \E doc \in PackageStates :
                 /\ SetPackage(r, doc) /\ doc.state = package[Package(r)].state
                 /\ doc.version = package[Package(r)].version
                 /\ doc.is_initial = (request[r].ask.initial = "yes")
<1>0. /\ TypeOK /\ latest' = latest /\ request[r].pc = "mark"
      /\ UNCHANGED <<price, feature, configs, history, cached>>
      /\ request[r].package \in Packages
  BY RequestFields DEF Typed, MarkInitial
<1>1. CASE Finish(r, "rejected") /\ package' = package
  BY <1>0, <1>1, EndsStep, PackageSteady DEF Ended, TypeOK
<1>2. CASE ~(Finish(r, "rejected") /\ package' = package)
  <2> DEFINE p == request[r].package
             initial == request[r].ask.initial = "yes"
             doc == [package[p] EXCEPT !.is_initial = initial]
  <2>0. package[p] \in PackageStates
    BY <1>0, PackageFields
  <2>1. package' = [package EXCEPT ![p] = doc] /\ Goto(r, "clear")
    BY <1>0, <1>2 DEF MarkInitial, TypeOK, PackageStates
  <2>2. initial \in BOOLEAN
    OBVIOUS
  <2> HIDE DEF initial
  <2>3. /\ doc \in PackageStates /\ doc.state = package[p].state
        /\ doc.version = package[p].version /\ doc.is_initial = initial
    BY <2>0, <2>2 DEF PackageStates
  <2> HIDE DEF doc
  <2>4. SetPackage(r, doc) /\ package' \in [Packages -> PackageStates]
    BY <1>0, <2>1, <2>3, SetPackageStep
  <2>5. Others(r) /\ Goes(r, "clear") /\ \A d, e \in request'[r].doc : d = e
    BY <2>1, GoesStep DEF Pcs
  <2>6. Steady(r)
    BY <1>0, <2>4, <2>5, PackageSteady
  <2> QED
    BY <1>0, <2>3, <2>4, <2>5, <2>6 DEF initial, Package
<1> QED
  BY <1>1, <1>2

LEMMA DeletePackageStep ==
  ASSUME Typed, NEW r \in Requests, DeletePackage(r)
  PROVE  /\ Steady(r) /\ request[r].pc = "delete" /\ Goes(r, "dropPrices")
         /\ UNCHANGED <<price, feature, configs, history, cached>>
         /\ \E doc \in PackageStates :
              /\ SetPackage(r, doc)
              /\ doc.is_initial => package[Package(r)].is_initial
              /\ doc.state # "live"
              /\ doc.state = "none" => package[Package(r)].state = "none"
<1>0. /\ TypeOK /\ latest' = latest /\ request[r].pc = "delete"
      /\ UNCHANGED <<price, feature, configs, history, cached>>
      /\ Goto(r, "dropPrices") /\ request[r].package \in Packages
  BY RequestFields DEF Typed, DeletePackage
<1> DEFINE p == request[r].package
           doc == IF request[r].ask.call = "deletePackagePermanent"
                  THEN [package[p] EXCEPT !.state = "gone", !.is_initial = FALSE]
                  ELSE IF Live(p) THEN [package[p] EXCEPT !.state = "deleted"]
                  ELSE package[p]
<1>1. package[p] \in PackageStates
  BY <1>0, PackageFields
<1>2. package' = [package EXCEPT ![p] = doc]
  BY <1>0, <1>1 DEF DeletePackage, TypeOK, PackageStates
<1>3. /\ doc \in PackageStates
      /\ doc.is_initial => package[p].is_initial
      /\ doc.state # "live"
      /\ doc.state = "none" => package[p].state = "none"
  BY <1>1 DEF PackageStates, DocStates, Live
<1> HIDE DEF doc
<1>4. SetPackage(r, doc) /\ package' \in [Packages -> PackageStates]
  BY <1>0, <1>2, <1>3, SetPackageStep
<1>5. Others(r) /\ Goes(r, "dropPrices") /\ \A d, e \in request'[r].doc : d = e
  BY <1>0, GoesStep DEF Pcs
<1>6. Steady(r)
  BY <1>0, <1>4, <1>5, PackageSteady
<1> QED
  BY <1>0, <1>3, <1>4, <1>5, <1>6 DEF Package

LEMMA DropPricesStep ==
  ASSUME Typed, NEW r \in Requests, DropPrices(r)
  PROVE  /\ Steady(r) /\ request[r].pc = "dropPrices"
         /\ UNCHANGED <<package, feature, configs, history, cached>>
         /\ Goes(r, IF Call(r) = "deletePackagePermanent" THEN "dropConfigs"
                    ELSE "clearPrices")
         /\ \A p \in Packages \ {Package(r)} : price'[p] = price[p]
         /\ \A i \in Intervals :
              /\ price'[Package(r)][i].state # "live"
              /\ price'[Package(r)][i].is_initial => price[Package(r)][i].is_initial
<1> DEFINE p == request[r].package
           for_good == request[r].ask.call = "deletePackagePermanent"
           row == [i \in Intervals |->
                IF for_good THEN [state |-> "none", is_initial |-> FALSE, by |-> Nobody]
                ELSE IF price[p][i].state = "live"
                THEN [price[p][i] EXCEPT !.state = "deleted"]
                ELSE price[p][i]]
           pc == IF for_good THEN "dropConfigs" ELSE "clearPrices"
<1>0. /\ TypeOK /\ latest' = latest /\ request[r].pc = "dropPrices"
      /\ UNCHANGED <<package, feature, configs, history, cached>>
      /\ Goto(r, pc) /\ pc \in Pcs /\ p \in Packages
  BY RequestFields DEF Typed, DropPrices, Pcs
<1>1. ASSUME NEW i \in Intervals
      PROVE  /\ row[i] \in PriceStates /\ row[i].state # "live"
             /\ row[i].is_initial => price[p][i].is_initial
  <2>1. price[p][i] \in PriceStates
    BY <1>0, PriceFields
  <2> QED
    BY <2>1 DEF PriceStates, DocStates
<1>2. price' = [price EXCEPT ![p] = row]
  BY <1>0 DEF DropPrices, TypeOK
<1>3. row \in [Intervals -> PriceStates]
  BY <1>1
<1> HIDE DEF row, pc
<1>4. SetPrices(r, row) /\ price' \in [Packages -> [Intervals -> PriceStates]]
  BY <1>0, <1>2, <1>3, SetPricesStep
<1>5. Others(r) /\ Goes(r, pc) /\ \A d, e \in request'[r].doc : d = e
  BY <1>0, GoesStep
<1>6. Steady(r)
  BY <1>0, <1>4, <1>5, PriceSteady
<1> QED
  BY <1>0, <1>1, <1>4, <1>5, <1>6 DEF pc, Package, Call, SetPrices

LEMMA DropConfigsStep ==
  ASSUME Typed, NEW r \in Requests, DropConfigs(r)
  PROVE  /\ Steady(r) /\ request[r].pc = "dropConfigs" /\ Goes(r, "clear")
         /\ UNCHANGED <<package, price, feature, history, cached>>
         /\ configs' = configs \ {Package(r)}
<1>0. /\ latest' = latest /\ request[r].pc = "dropConfigs" /\ Goto(r, "clear")
      /\ UNCHANGED <<package, price, feature, history, cached>>
      /\ configs' = configs \ {Package(r)}
  BY DEF DropConfigs, Package
<1>1. Others(r) /\ Goes(r, "clear") /\ \A d, e \in request'[r].doc : d = e
  BY <1>0, GoesStep DEF Pcs
<1>2. Steady(r)
  BY <1>0, <1>1, TypedNext DEF Typed, TypeOK
<1> QED
  BY <1>0, <1>1, <1>2

LEMMA RestorePackageStep ==
  ASSUME Typed, NEW r \in Requests, RestorePackage(r)
  PROVE  /\ Steady(r) /\ request[r].pc = "restore"
         /\ UNCHANGED <<price, feature, configs, history, cached>>
         /\ \/ Ends(r, "rejected") /\ package' = package
            \/ Goes(r, "restored") /\ package' = package
            \/ /\ \E pc \in {"revive", "restored"} : Goes(r, pc)
               /\ \E doc \in PackageStates :
                    /\ SetPackage(r, doc) /\ doc.state = "live"
                    /\ doc.version = package[Package(r)].version
                    /\ doc.is_initial = package[Package(r)].is_initial
<1>0. /\ TypeOK /\ latest' = latest /\ request[r].pc = "restore"
      /\ UNCHANGED <<price, feature, configs, history, cached>>
      /\ request[r].package \in Packages
  BY RequestFields DEF Typed, RestorePackage
<1>1. CASE package[Package(r)].state = "deleted"
  <2> DEFINE p == request[r].package
             doc == [package[p] EXCEPT !.state = "live"]
  <2>1. PICK pc \in {"revive", "restored"} : Goto(r, pc)
    BY <1>1 DEF RestorePackage, Package
  <2>2. package' = [package EXCEPT ![p] = doc]
    BY <1>0, <1>1 DEF RestorePackage, Package, TypeOK, PackageStates
  <2>3. package[p] \in PackageStates
    BY <1>0, PackageFields
  <2>4. /\ doc \in PackageStates /\ doc.state = "live"
        /\ doc.version = package[p].version
        /\ doc.is_initial = package[p].is_initial
    BY <2>3 DEF PackageStates, DocStates
  <2> HIDE DEF doc
  <2>5. SetPackage(r, doc) /\ package' \in [Packages -> PackageStates]
    BY <1>0, <2>2, <2>4, SetPackageStep
  <2>6. Others(r) /\ Goes(r, pc) /\ \A d, e \in request'[r].doc : d = e
    BY <2>1, GoesStep DEF Pcs
  <2>7. Steady(r)
    BY <1>0, <2>5, <2>6, PackageSteady
  <2> QED
    BY <1>0, <2>4, <2>5, <2>6, <2>7 DEF Package
<1>2. CASE package[Package(r)].state # "deleted"
  <2>1. package' = package /\ (Finish(r, "rejected") \/ Goto(r, "restored"))
    BY <1>2 DEF RestorePackage, Package
  <2>2. /\ Others(r) /\ \A d, e \in request'[r].doc : d = e
        /\ Ends(r, "rejected") \/ Goes(r, "restored")
    BY <2>1, GoesStep, EndsStep DEF Pcs, Ended
  <2>3. Steady(r)
    BY <1>0, <2>1, <2>2, PackageSteady DEF TypeOK
  <2> QED
    BY <1>0, <2>1, <2>2, <2>3
<1> QED
  BY <1>1, <1>2

LEMMA FindRestoredStep ==
  ASSUME Typed, NEW r \in Requests, FindRestored(r)
  PROVE  /\ Steady(r) /\ Untouched /\ request[r].pc = "restored"
         /\ \/ Live(Package(r)) /\ Goes(r, "revive")
            \/ ~Live(Package(r)) /\ Goes(r, "clear")
<1>0. Untouched /\ latest' = latest /\ request[r].pc = "restored"
  BY DEF FindRestored, Untouched
<1>1. CASE Live(Package(r))
  <2>1. Goto(r, "revive")
    BY <1>1 DEF FindRestored, Package
  <2> QED
    BY <1>0, <1>1, <2>1, GoesStep, UntouchedSteady DEF Pcs
<1>2. CASE ~Live(Package(r))
  <2>1. Goto(r, "clear")
    BY <1>2 DEF FindRestored, Package
  <2> QED
    BY <1>0, <1>2, <2>1, GoesStep, UntouchedSteady DEF Pcs
<1> QED
  BY <1>1, <1>2

LEMMA RevivePricesStep ==
  ASSUME Typed, NEW r \in Requests, RevivePrices(r)
  PROVE  /\ Steady(r) /\ request[r].pc = "revive" /\ Goes(r, "clearPrices")
         /\ UNCHANGED <<package, feature, configs, history, cached>>
         /\ \A p \in Packages \ {Package(r)} : price'[p] = price[p]
         /\ \A i \in Intervals :
              price'[Package(r)][i].is_initial = price[Package(r)][i].is_initial
<1> DEFINE p == request[r].package
           row == [i \in Intervals |->
                IF price[p][i].state = "deleted"
                THEN [price[p][i] EXCEPT !.state = "live"] ELSE price[p][i]]
<1>0. /\ TypeOK /\ latest' = latest /\ request[r].pc = "revive"
      /\ UNCHANGED <<package, feature, configs, history, cached>>
      /\ Goto(r, "clearPrices") /\ p \in Packages
  BY RequestFields DEF Typed, RevivePrices
<1>1. ASSUME NEW i \in Intervals
      PROVE  row[i] \in PriceStates /\ row[i].is_initial = price[p][i].is_initial
  <2>1. price[p][i] \in PriceStates
    BY <1>0, PriceFields
  <2> QED
    BY <2>1 DEF PriceStates, DocStates
<1>2. price' = [price EXCEPT ![p] = row]
  BY <1>0 DEF RevivePrices, TypeOK
<1>3. row \in [Intervals -> PriceStates]
  BY <1>1
<1> HIDE DEF row
<1>4. SetPrices(r, row) /\ price' \in [Packages -> [Intervals -> PriceStates]]
  BY <1>0, <1>2, <1>3, SetPricesStep
<1>5. Others(r) /\ Goes(r, "clearPrices") /\ \A d, e \in request'[r].doc : d = e
  BY <1>0, GoesStep DEF Pcs
<1>6. Steady(r)
  BY <1>0, <1>4, <1>5, PriceSteady
<1> QED
  BY <1>0, <1>1, <1>4, <1>5, <1>6 DEF Package, SetPrices

LEMMA ClearCacheStep ==
  ASSUME Typed, NEW r \in Requests, ClearCache(r)
  PROVE  /\ Steady(r) /\ request[r].pc = "clear" /\ cached' = NoCopies
         /\ UNCHANGED <<package, price, feature, configs, history>>
         /\ \/ Call(r) \in WriteCalls /\ Goes(r, "read")
            \/ Call(r) \notin WriteCalls /\ Ends(r, "done")
<1>0. /\ latest' = latest /\ request[r].pc = "clear" /\ cached' = NoCopies
      /\ UNCHANGED <<package, price, feature, configs, history>>
  BY DEF ClearCache
<1>1. CASE Call(r) \in WriteCalls
  <2>1. Goto(r, "read")
    BY <1>1 DEF ClearCache, Call
  <2> QED
    BY <1>0, <1>1, <2>1, GoesStep, ClearSteady DEF Pcs
<1>2. CASE Call(r) \notin WriteCalls
  <2>1. Finish(r, "done")
    BY <1>2 DEF ClearCache, Call
  <2> QED
    BY <1>0, <1>2, <2>1, EndsStep, ClearSteady DEF Ended
<1> QED
  BY <1>1, <1>2

-----------------------------------------------------------------------------
(* What is read of a package, and where it goes. *)

LEMMA DocumentTyped ==
  ASSUME TypeOK, NEW p \in Packages
  PROVE  Document(p) \in Documents
<1> DEFINE prices == [i \in LivePrices(p) |->
                        [is_initial |-> price[p][i].is_initial, by |-> price[p][i].by]]
           Shown == [is_initial : BOOLEAN, by : Requests \cup {Nobody}]
<1>1. LivePrices(p) \in SUBSET Intervals /\ LiveFeatures(p) \in SUBSET Features
  BY DEF LivePrices, LiveFeatures
<1>2. prices \in [LivePrices(p) -> Shown]
  BY <1>1, PriceFields
<1> HIDE DEF prices, Shown
<1>3. prices \in UNION {[S -> Shown] : S \in SUBSET Intervals}
  BY <1>1, <1>2
<1>4. Offer(p) \in Offers
  BY <1>1, <1>3 DEF Offer, Offers, prices, Shown
<1> QED
  BY <1>4, PackageFields DEF Document, Documents

(* r has read its package, and goes on to pc. *)
Reads(r, pc) ==
  /\ request'[r].pc = pc /\ request'[r].doc = {Document(Package(r))}
  /\ request'[r].first = request[r].first
  /\ request'[r].job = request[r].job

LEMMA ReadsStep ==
  ASSUME Typed, NEW r \in Requests, NEW pc \in {"record", "store"},
         Become(r, [request[r] EXCEPT !.pc = pc, !.doc = {Document(request[r].package)}])
  PROVE  Others(r) /\ Reads(r, pc) /\ \A d, e \in request'[r].doc : d = e
<1> DEFINE doc == {Document(request[r].package)}
           q == [request[r] EXCEPT !.pc = pc, !.doc = doc]
<1>1. /\ TypeOK /\ request[r] \in RequestStates
      /\ doc \in SUBSET Documents /\ \A d, e \in doc : d = e
  BY RequestFields, DocumentTyped DEF Typed
<1>2. Become(r, q)
  OBVIOUS
<1> HIDE DEF doc
<1>3. /\ q \in RequestStates /\ q.pc = pc /\ q.doc = doc
      /\ q.ask = request[r].ask /\ q.package = request[r].package
      /\ q.alone = request[r].alone
      /\ q.first = request[r].first /\ q.job = request[r].job
  BY <1>1 DEF RequestStates
<1> HIDE DEF q
<1>4. Others(r) /\ request'[r] = q
  BY <1>1, <1>2, <1>3, Becomes
<1> QED
  BY <1>1, <1>3, <1>4 DEF Reads, doc, Package

LEMMA ReadPackageStep ==
  ASSUME Typed, NEW r \in Requests, ReadPackage(r)
  PROVE  /\ Steady(r) /\ Untouched /\ request[r].pc = "read"
         /\ \/ Live(Package(r)) /\ Reads(r, "record")
            \/ Ends(r, "rejected")
<1>0. Untouched /\ latest' = latest /\ request[r].pc = "read"
  BY DEF ReadPackage, Untouched
<1>1. CASE Live(Package(r))
  <2>1. Become(r, [request[r] EXCEPT !.pc = "record",
                                     !.doc = {Document(request[r].package)}])
    BY <1>1 DEF ReadPackage, Package
  <2> QED
    BY <1>0, <1>1, <2>1, ReadsStep, UntouchedSteady
<1>2. CASE ~Live(Package(r))
  <2>1. Finish(r, "rejected")
    BY <1>2 DEF ReadPackage, Package
  <2> QED
    BY <1>0, <2>1, EndsStep, UntouchedSteady DEF Ended
<1> QED
  BY <1>1, <1>2

LEMMA FetchPackageStep ==
  ASSUME Typed, NEW r \in Requests, FetchPackage(r)
  PROVE  /\ Steady(r) /\ Untouched /\ request[r].pc = "fetch"
         /\ \/ Live(Package(r)) /\ Reads(r, "store")
            \/ Ends(r, "rejected")
<1>0. Untouched /\ latest' = latest /\ request[r].pc = "fetch"
  BY DEF FetchPackage, Untouched
<1>1. CASE Live(Package(r))
  <2>1. Become(r, [request[r] EXCEPT !.pc = "store",
                                     !.doc = {Document(request[r].package)}])
    BY <1>1 DEF FetchPackage, Package
  <2> QED
    BY <1>0, <1>1, <2>1, ReadsStep, UntouchedSteady
<1>2. CASE ~Live(Package(r))
  <2>1. Finish(r, "rejected")
    BY <1>2 DEF FetchPackage, Package
  <2> QED
    BY <1>0, <2>1, EndsStep, UntouchedSteady DEF Ended
<1> QED
  BY <1>1, <1>2

LEMMA ReadCacheStep ==
  ASSUME Typed, NEW r \in Requests, ReadCache(r)
  PROVE  /\ Steady(r) /\ Untouched /\ request[r].pc = "get"
         /\ Goes(r, "fetch") \/ Ends(r, "done")
<1>0. /\ Untouched /\ latest' = latest /\ request[r].pc = "get"
      /\ Goto(r, "fetch") \/ Finish(r, "done")
  BY DEF ReadCache, Untouched
<1> QED
  BY <1>0, GoesStep, EndsStep, UntouchedSteady DEF Pcs, Ended

LEMMA StoreCacheStep ==
  ASSUME Typed, NEW r \in Requests, StoreCache(r)
  PROVE  /\ Steady(r) /\ request[r].pc = "store" /\ Ends(r, "done")
         /\ UNCHANGED <<package, price, feature, configs, history>>
         /\ \A p \in Packages : cached'[p] =
              IF p = Package(r) THEN request[r].doc ELSE cached[p]
<1>0. /\ TypeOK /\ latest' = latest /\ request[r].pc = "store"
      /\ UNCHANGED <<package, price, feature, configs, history>>
      /\ Finish(r, "done") /\ Package(r) \in Packages
      /\ request[r].doc \subseteq Documents
      /\ cached' = [cached EXCEPT ![Package(r)] = request[r].doc]
      /\ cached \in [Packages -> SUBSET Documents]
  BY RequestFields DEF Typed, StoreCache, Package
<1>1. Others(r) /\ Ends(r, "done") /\ \A d, e \in request'[r].doc : d = e
  BY <1>0, EndsStep DEF Ended
<1>2. Cardinality(request[r].doc) <= 1
  <2>1. CASE request[r].doc = {}
    BY <2>1, FS_EmptySet
  <2>2. CASE request[r].doc # {}
    <3>1. PICK d \in request[r].doc : request[r].doc = {d}
      BY <2>2, OneRead
    <3> QED
      BY <3>1, FS_Singleton
  <2> QED
    BY <2>1, <2>2
<1>3. \A p \in Packages : cached'[p] =
        IF p = Package(r) THEN request[r].doc ELSE cached[p]
  BY <1>0
<1>4. /\ cached' \in [Packages -> SUBSET Documents]
      /\ \A p \in Packages : Cardinality(cached'[p]) <= 1
  BY <1>0, <1>2, <1>3 DEF Typed, TypeOK
<1>5. Steady(r)
  BY <1>0, <1>1, <1>4, TypedNext DEF Typed, TypeOK
<1> QED
  BY <1>0, <1>1, <1>3, <1>5

(* The history of the package of r ends with a new row. *)
Records(r, row) ==
  /\ history'[Package(r)] = Append(history[Package(r)], row)
  /\ \A p \in Packages \ {Package(r)} : history'[p] = history[p]

LEMMA RecordHistoryStep ==
  ASSUME Typed, NEW r \in Requests, RecordHistory(r)
  PROVE  /\ Steady(r) /\ request[r].pc = "record" /\ Ends(r, "done")
         /\ UNCHANGED <<package, price, feature, configs, cached>>
         /\ \E d \in request[r].doc :
              Records(r, [version |-> d.version, offer |-> d.offer])
<1>0. /\ TypeOK /\ latest' = latest /\ request[r].pc = "record"
      /\ UNCHANGED <<package, price, feature, configs, cached>>
      /\ Finish(r, "done") /\ Package(r) \in Packages
      /\ request[r].doc \subseteq Documents
      /\ history \in [Packages -> Seq(Entries)]
  BY RequestFields DEF Typed, RecordHistory, Package
<1>1. PICK d \in request[r].doc :
        history' = [history EXCEPT ![Package(r)] =
          Append(@, [version |-> d.version, offer |-> d.offer])]
  BY DEF RecordHistory, Package
<1> DEFINE row == [version |-> d.version, offer |-> d.offer]
<1>2. row \in Entries
  BY <1>0 DEF Entries, Documents
<1>3. history' = [history EXCEPT ![Package(r)] = Append(@, row)]
  BY <1>1
<1> HIDE DEF row
<1>4. Records(r, row) /\ history' \in [Packages -> Seq(Entries)]
  BY <1>0, <1>2, <1>3 DEF Records
<1>5. Others(r) /\ Ends(r, "done") /\ \A b, c \in request'[r].doc : b = c
  BY <1>0, EndsStep DEF Ended
<1>6. Steady(r)
  BY <1>0, <1>4, <1>5, TypedNext DEF Typed, TypeOK
<1> QED
  BY <1>0, <1>1, <1>4, <1>5, <1>6 DEF row

-----------------------------------------------------------------------------
(* A request arrives. *)

(* What another request is at does not change, only that it is not alone.  *)
Stays(s) ==
  /\ request'[s].pc = request[s].pc /\ request'[s].ask = request[s].ask
  /\ request'[s].package = request[s].package
  /\ request'[s].first = request[s].first /\ request'[s].doc = request[s].doc
  /\ request'[s].seen = request[s].seen
  /\ request'[s].job = request[s].job
  /\ request'[s].alone = (request[s].alone /\ s \notin UnderWay)

Begins(r, p, ask) ==
  /\ request'[r].ask = ask /\ request'[r].package = p
  /\ request'[r].alone = (UnderWay = {})
  /\ request'[r].doc = {} /\ request'[r].seen = {}
  /\ request'[r].job = EntryJobs(ask.call, ask.prices)
  /\ \A i, j \in request'[r].first : i = j
  /\ request'[r].first # {} => ask.call = "createPackagePrices"
  /\ request'[r].pc =
       IF ask.call = "createPackagePrices" /\ request'[r].first = {} THEN "insert"
       ELSE Entry(ask.call, ask.initial)

EntryPcs == {"clearOthers", "create", "find", "check", "demoteAll", "priceRoute",
             "restore", "get"}

LEMMA EntryFields ==
  ASSUME NEW ask \in Payloads
  PROVE  /\ Entry(ask.call, ask.initial) \in EntryPcs
         /\ EntryJobs(ask.call, ask.prices) \in [Intervals -> Jobs]
         /\ \A i \in Intervals :
              /\ EntryJobs(ask.call, ask.prices)[i].step \in {"idle", "find"}
              /\ EntryJobs(ask.call, ask.prices)[i].step = "find" =>
                   /\ ask.call \in {"updatePackagePrice", "deletePackagePrice"}
                   /\ i \in DOMAIN ask.prices
<1>1. Entry(ask.call, ask.initial) \in EntryPcs
  BY AskFields DEF Entry, EntryPcs, CallNames, WriteCalls, PriceCalls, Restores,
     Deletions
<1>2. ASSUME NEW i \in Intervals
      PROVE  LET job == EntryJobs(ask.call, ask.prices)[i]
             IN /\ job \in Jobs /\ job.step \in {"idle", "find"}
                /\ job.step = "find" =>
                     /\ ask.call \in {"updatePackagePrice", "deletePackagePrice"}
                     /\ i \in DOMAIN ask.prices
  <2>1. CASE i \notin DOMAIN ask.prices
    BY <2>1, IdleJob DEF EntryJobs
  <2>2. CASE i \in DOMAIN ask.prices /\ ask.call = "updatePackagePrice"
    <3>1. ask.prices[i] \in Flags
      BY <2>2, AskFields
    <3> QED
      BY <2>2, <3>1, IdleJob DEF EntryJobs
  <2>3. CASE i \in DOMAIN ask.prices /\ ask.call = "deletePackagePrice"
    BY <2>3, IdleJob DEF EntryJobs, Flags
  <2>4. CASE ask.call \notin {"updatePackagePrice", "deletePackagePrice"}
    BY <2>4, IdleJob DEF EntryJobs
  <2> QED
    BY <2>1, <2>2, <2>3, <2>4
<1>3. EntryJobs(ask.call, ask.prices) \in [Intervals -> Jobs]
  BY <1>2 DEF EntryJobs
<1> QED
  BY <1>1, <1>2, <1>3

LEMMA FreshTyped ==
  ASSUME NEW p \in Packages
  PROVE  Fresh(p) \in RequestStates
<1>1. [i \in Intervals |-> Idle] \in [Intervals -> Jobs]
  BY IdleJob
<1> QED
  BY <1>1, ReadingAsked DEF Fresh, RequestStates

LEMMA ArriveStep ==
  ASSUME Typed, NEW r \in Requests, NEW p \in Packages, NEW ask \in Asks,
         Arrive(r, p, ask)
  PROVE  /\ Typed' /\ Untouched /\ latest' = {r} /\ request[r].pc = "idle"
         /\ ask \in Payloads
         /\ package[p].state = "none" <=> ask.call = "createPackage"
         /\ Begins(r, p, ask)
         /\ \A s \in Requests \ {r} : Stays(s)
<1>0. /\ TypeOK /\ Untouched /\ latest' = {r} /\ request[r].pc = "idle"
      /\ package[p].state = "none" <=> ask.call = "createPackage"
  BY DEF Typed, Arrive, Untouched
<1>1. ask \in Payloads
  BY AsksAssumption
<1>2. PICK first \in IF ask.call = "createPackagePrices"
                     THEN Firsts(ask.call, ask.prices, DOMAIN ask.prices) ELSE {{}} :
        request' = [s \in Requests |->
            IF s # r THEN [request[s] EXCEPT !.alone = @ /\ s \notin UnderWay]
            ELSE [Fresh(p) EXCEPT
                    !.pc = IF ask.call = "createPackagePrices" /\ first = {} THEN "insert"
                           ELSE Entry(ask.call, ask.initial),
                    !.ask = ask, !.alone = UnderWay = {}, !.first = first,
                    !.job = EntryJobs(ask.call, ask.prices)]]
  BY DEF Arrive
<1>3. /\ first \in SUBSET Intervals /\ \A i, j \in first : i = j
      /\ first # {} => ask.call = "createPackagePrices"
  <2>1. CASE ask.call = "createPackagePrices"
    <3>1. DOMAIN ask.prices \in SUBSET Intervals
      BY <1>1, AskFields
    <3>2. first \in Firsts(ask.call, ask.prices, DOMAIN ask.prices)
      BY <1>2, <2>1
    <3> QED
      BY <2>1, <3>1, <3>2, FirstsFields
  <2>2. CASE ask.call # "createPackagePrices"
    <3>1. first = {}
      BY <1>2, <2>2
    <3> QED
      BY <3>1
  <2> QED
    BY <2>1, <2>2
<1>4. ASSUME NEW s \in Requests \ {r}
      PROVE  request'[s] \in RequestStates /\ Stays(s)
  <2> DEFINE b == request[s].alone /\ s \notin UnderWay
             q == [request[s] EXCEPT !.alone = b]
  <2>1. request[s] \in RequestStates /\ b \in BOOLEAN
    BY <1>0, RequestFields
  <2>2. request'[s] = q
    BY <1>2
  <2> HIDE DEF b
  <2>3. /\ q \in RequestStates /\ q.pc = request[s].pc /\ q.ask = request[s].ask
        /\ q.package = request[s].package /\ q.alone = b
        /\ q.first = request[s].first /\ q.doc = request[s].doc
        /\ q.seen = request[s].seen /\ q.job = request[s].job
    BY <2>1 DEF RequestStates
  <2> HIDE DEF q
  <2> QED
    BY <2>2, <2>3 DEF Stays, b
<1>5. request'[r] \in RequestStates /\ Begins(r, p, ask)
  <2> DEFINE pc == IF ask.call = "createPackagePrices" /\ first = {} THEN "insert"
                   ELSE Entry(ask.call, ask.initial)
             b == UnderWay = {}
             jobs == EntryJobs(ask.call, ask.prices)
             q == [pc |-> pc, ask |-> ask, package |-> p, alone |-> b, version |-> 0,
                   seen |-> {}, had |-> {}, first |-> first, doc |-> {}, job |-> jobs]
  <2>1. request'[r] = q
    BY <1>2 DEF Fresh
  <2>2. pc \in EntryPcs \cup {"insert"} /\ b \in BOOLEAN /\ jobs \in [Intervals -> Jobs]
    BY <1>1, EntryFields
  <2> HIDE DEF pc, b, jobs
  <2>3. q \in RequestStates
    BY <1>1, <1>3, <2>2 DEF RequestStates, EntryPcs, Waiting
  <2>4. /\ q.pc = pc /\ q.ask = ask /\ q.package = p /\ q.alone = b
        /\ q.seen = {} /\ q.first = first /\ q.doc = {} /\ q.job = jobs
    OBVIOUS
  <2> HIDE DEF q
  <2> QED
    BY <1>3, <2>1, <2>3, <2>4 DEF Begins, pc, b, jobs
<1>6. request' \in [Requests -> RequestStates]
  <2> DEFINE q(s) ==
        IF s # r THEN [request[s] EXCEPT !.alone = @ /\ s \notin UnderWay]
        ELSE [Fresh(p) EXCEPT
                !.pc = IF ask.call = "createPackagePrices" /\ first = {} THEN "insert"
                       ELSE Entry(ask.call, ask.initial),
                !.ask = ask, !.alone = UnderWay = {}, !.first = first,
                !.job = EntryJobs(ask.call, ask.prices)]
  <2>1. request' = [s \in Requests |-> q(s)]
    BY <1>2
  <2> HIDE DEF q
  <2>2. \A s \in Requests : q(s) \in RequestStates
    BY <1>4, <1>5, <2>1
  <2> QED
    BY <2>1, <2>2
<1>7. Cardinality({r}) <= 1
  <2>1. Cardinality({r}) = 1
    BY FS_Singleton, Zenon
  <2> QED
    BY <2>1
<1>8. TypeOK'
  BY <1>0, <1>6, <1>7 DEF Untouched, TypeOK
<1>9. \A s \in Requests : \A d, e \in request'[s].doc : d = e
  BY <1>4, <1>5 DEF Typed, Stays, Begins
<1> QED
  BY <1>0, <1>1, <1>4, <1>5, <1>8, <1>9 DEF Typed, Untouched

-----------------------------------------------------------------------------
(* Control: which calls come to a step, and where a request has jobs.      *)

Inserting == WriteCalls \cup {"createPackagePrice", "createPackagePrices"}

CallsAt(pc) ==
  CASE pc \in {"idle", "get", "fetch", "store"} -> {"getPublicPackage"}
    [] pc = "find" -> {"updatePackage", "updatePackageIsInitial"} \cup Deletions
    [] pc \in {"see", "remove", "rewrite", "elect", "features", "dropFeatures",
               "reviveFeatures", "write"} -> {"updatePackage"}
    [] pc = "check" -> WriteCalls \cup {"createPackagePrice"}
    [] pc \in {"package", "existing"} -> {"createPackagePrice"}
    [] pc \in {"demoteAll", "insert"} -> Inserting
    [] pc = "clearPrices" -> Inserting \cup {"deletePackage"} \cup Restores
    [] pc \in {"addFeatures", "read", "record"} -> WriteCalls
    [] pc = "clearOthers" -> WriteCalls \cup {"updatePackageIsInitial"}
    [] pc = "create" -> {"createPackage"}
    [] pc = "mark" -> {"updatePackageIsInitial"}
    [] pc \in {"delete", "dropPrices", "dropConfigs"} -> Deletions
    [] pc \in {"restore", "restored", "revive"} -> Restores
    [] pc = "clear" -> WriteCalls \cup Restores \cup Deletions
                         \cup {"updatePackageIsInitial"}
    [] pc = "priceRoute" -> {"updatePackagePrice", "deletePackagePrice"}
    [] OTHER -> CallNames

PlacedAt(r) ==
  /\ Call(r) \in CallsAt(request[r].pc)
  /\ request[r].pc \notin Waiting \cup {"rejected"} => JobsDone(r)

Placed == \A r \in Requests : PlacedAt(r)

(* A request that was alone until now is the only one under way.           *)
Exclusive ==
  \A r \in Requests : request[r].alone =>
    /\ ~AtRest(r) => r \in latest
    /\ r \in latest => \A s \in Requests \ {r} : AtRest(s)

Base == Typed /\ Placed /\ Exclusive

(* A step of r that is not its arrival. *)
StepOf(r) ==
  PriceJob(r) \/ PriceStep(r) \/ FeatureStep(r) \/ PackageStep(r) \/ ReadStep(r)

Moved(r) ==
  /\ Call(r) \in CallsAt(request'[r].pc)
  /\ request'[r].pc \notin Waiting \cup {"rejected"} =>
       \A i \in Intervals : request'[r].job[i].step = "idle"
  /\ ~AtRest(r)
  /\ request'[r].pc # "idle"

LEMMA OthersSame ==
  ASSUME NEW r \in Requests, Others(r), NEW s \in Requests \ {r}
  PROVE  /\ request'[s] = request[s]
         /\ AtRest(s)' = AtRest(s) /\ JobsDone(s)' = JobsDone(s)
         /\ PlacedAt(s)' = PlacedAt(s)
BY DEF Others, AtRest, JobsDone, PlacedAt, Call

LEMMA BaseKept ==
  ASSUME Base, NEW r \in Requests, Steady(r), Moved(r)
  PROVE  Base' /\ (Serial' => Serial)
<1>1. Placed'
  <2>1. PlacedAt(r)'
    BY DEF Moved, PlacedAt, Call, JobsDone, Steady, Others
  <2>2. \A s \in Requests \ {r} : PlacedAt(s)'
    BY OthersSame DEF Base, Placed, Steady
  <2> QED
    BY <2>1, <2>2 DEF Placed
<1>2. Exclusive'
  <2>1. \A s \in Requests : request'[s].alone = request[s].alone
    BY DEF Steady, Others
  <2>2. \A s \in Requests \ {r} : AtRest(s)' = AtRest(s)
    BY OthersSame DEF Steady
  <2>3. ~AtRest(r)
    BY DEF Moved
  <2> QED
    BY <2>1, <2>2, <2>3 DEF Exclusive, Base, Steady
<1>3. Serial' => Serial
  <2>1. \A s \in Requests : request'[s].alone = request[s].alone
    BY DEF Steady, Others
  <2>2. \A s \in Requests : request[s].pc # "idle" => request'[s].pc # "idle"
    BY DEF Steady, Others, Moved
  <2> QED
    BY <2>1, <2>2 DEF Serial
<1> QED
  BY <1>1, <1>2, <1>3 DEF Base, Steady

LEMMA CallNamed ==
  ASSUME TypeOK, NEW r \in Requests
  PROVE  Call(r) \in CallNames
<1>1. request[r].ask \in Payloads
  BY RequestFields
<1> QED
  BY <1>1, AskFields DEF Call

LEMMA GoesMoved ==
  ASSUME Base, NEW r \in Requests, NEW pc, Goes(r, pc), pc # "idle",
         JobsDone(r), request[r].pc \notin Ended \cup {"idle"},
         Call(r) \in CallsAt(pc)
  PROVE  Moved(r)
BY DEF Goes, Moved, AtRest, JobsDone

LEMMA EndsMoved ==
  ASSUME Base, NEW r \in Requests, NEW pc \in Ended, Ends(r, pc),
         JobsDone(r), request[r].pc \notin Ended \cup {"idle"}
  PROVE  Moved(r)
BY CallNamed DEF Ends, Moved, AtRest, JobsDone, CallsAt, Ended, Base, Typed

LEMMA StartsMoved ==
  ASSUME Base, NEW r \in Requests, NEW pc \in {"remove", "rewrite", "elect"},
         NEW seen, NEW jobs, Starts(r, pc, seen, jobs),
         request[r].pc \notin Ended \cup {"idle"}, Call(r) = "updatePackage"
  PROVE  Moved(r)
BY DEF Starts, Moved, AtRest, CallsAt, Waiting

LEMMA ReadsMoved ==
  ASSUME Base, NEW r \in Requests, NEW pc \in {"record", "store"}, Reads(r, pc),
         JobsDone(r), request[r].pc \notin Ended \cup {"idle"},
         Call(r) \in CallsAt(pc)
  PROVE  Moved(r)
BY DEF Reads, Moved, AtRest, JobsDone

LEMMA JobMoved ==
  ASSUME Base, NEW r \in Requests, NEW i \in Intervals,
         request[r].job[i].step # "idle",
         request'[r].pc = request[r].pc \/ request'[r].pc = "rejected"
  PROVE  /\ Moved(r) /\ request[r].pc \in Waiting \cup {"rejected"}
<1>1. ~JobsDone(r) /\ PlacedAt(r)
  BY DEF JobsDone, Base, Placed
<1>2. request[r].pc \in Waiting \cup {"rejected"}
  BY <1>1 DEF PlacedAt
<1>3. Call(r) \in CallsAt("rejected")
  BY CallNamed DEF CallsAt, Base, Typed
<1> QED
  BY <1>1, <1>2, <1>3 DEF Moved, PlacedAt, AtRest, Waiting, JobsDone

LEMMA PlacedHere ==
  ASSUME Base, NEW r \in Requests
  PROVE  /\ Typed /\ TypeOK /\ Call(r) \in CallsAt(request[r].pc)
         /\ Call(r) \in CallNames
         /\ request[r].pc \notin Waiting \cup {"rejected"} => JobsDone(r)
BY CallNamed DEF Base, Typed, Placed, PlacedAt

LEMMA PriceJobMoved ==
  ASSUME Base, NEW r \in Requests, PriceJob(r)
  PROVE  Steady(r) /\ Moved(r)
<1>0. Typed
  BY PlacedHere
<1>1. PICK i \in Intervals :
        JobFind(r, i) \/ JobDemote(r, i) \/ JobWrite(r, i) \/ JobClear(r, i)
  BY DEF PriceJob
<1>2. CASE JobFind(r, i)
  BY <1>0, <1>2, JobFindStep, JobMoved DEF JobMoves
<1>3. CASE JobDemote(r, i)
  BY <1>0, <1>3, JobDemoteStep, JobMoved DEF JobMoves
<1>4. CASE JobWrite(r, i)
  BY <1>0, <1>4, JobWriteStep, JobMoved DEF JobMoves
<1>5. CASE JobClear(r, i)
  BY <1>0, <1>5, JobClearStep, JobMoved
<1> QED
  BY <1>1, <1>2, <1>3, <1>4, <1>5

LEMMA PriceStepMoved ==
  ASSUME Base, NEW r \in Requests, PriceStep(r)
  PROVE  Steady(r) /\ Moved(r)
<1>0. Typed /\ Call(r) \in CallsAt(request[r].pc) /\ Call(r) \in CallNames
  BY PlacedHere
<1>j. request[r].pc \notin Waiting \cup {"rejected"} => JobsDone(r)
  BY PlacedHere
<1>1. CASE SeePrices(r)
  <2>1. /\ Steady(r) /\ request[r].pc = "see"
        /\ Starts(r, "remove", LivePrices(Package(r)), Removals(r, LivePrices(Package(r))))
    BY <1>0, <1>1, SeePricesStep
  <2>2. Call(r) = "updatePackage" /\ request[r].pc \notin Ended \cup {"idle"}
    BY <1>0, <2>1 DEF CallsAt, Ended
  <2> QED
    BY <2>1, <2>2, StartsMoved
<1>2. CASE Removed(r)
  <2>1. /\ Steady(r) /\ request[r].pc = "remove" /\ JobsDone(r)
        /\ \/ Goes(r, "check")
           \/ Starts(r, "rewrite", request[r].seen, Rewrites(r))
    BY <1>0, <1>2, RemovedStep
  <2>2. /\ Call(r) = "updatePackage" /\ request[r].pc \notin Ended \cup {"idle"}
        /\ Call(r) \in CallsAt("check")
    BY <1>0, <2>1 DEF CallsAt, Ended, WriteCalls
  <2>3. CASE Goes(r, "check")
    BY <2>1, <2>2, <2>3, GoesMoved
  <2>4. CASE Starts(r, "rewrite", request[r].seen, Rewrites(r))
    BY <2>1, <2>2, <2>4, StartsMoved
  <2> QED
    BY <2>1, <2>3, <2>4
<1>3. CASE CheckIntervals(r)
  <2>1. /\ Steady(r) /\ request[r].pc = "check"
        /\ \/ Ends(r, "rejected")
           \/ /\ request'[r].pc =
                    IF Call(r) = "createPackagePrice" THEN "package"
                    ELSE IF request'[r].first # {} THEN "demoteAll" ELSE "insert"
              /\ request'[r].job = request[r].job
    BY <1>0, <1>3, CheckIntervalsStep
  <2>2. JobsDone(r) /\ request[r].pc \notin Ended \cup {"idle"}
    BY <1>j, <2>1 DEF Ended, Waiting
  <2>3. CASE Ends(r, "rejected")
    BY <2>1, <2>2, <2>3, EndsMoved DEF Ended
  <2>4. CASE ~Ends(r, "rejected")
    <3>1. PICK pc \in {"package", "demoteAll", "insert"} :
            /\ request'[r].pc = pc
            /\ pc = "package" <=> Call(r) = "createPackagePrice"
      BY <2>1, <2>4
    <3>2. Call(r) \in CallsAt(pc)
      BY <1>0, <2>1, <3>1 DEF CallsAt, WriteCalls, Inserting
    <3> QED
      BY <2>1, <2>2, <2>4, <3>1, <3>2 DEF Moved, AtRest, JobsDone
  <2> QED
    BY <2>3, <2>4
<1>4. CASE CheckPackage(r)
  <2>1. /\ Steady(r) /\ request[r].pc = "package"
        /\ Goes(r, "existing") \/ Ends(r, "rejected")
    BY <1>0, <1>4, CheckPackageStep
  <2>2. /\ JobsDone(r) /\ request[r].pc \notin Ended \cup {"idle"}
        /\ Call(r) \in CallsAt("existing")
    BY <1>0, <1>j, <2>1 DEF Ended, Waiting, CallsAt
  <2> QED
    BY <2>1, <2>2, GoesMoved, EndsMoved DEF Ended
<1>5. CASE CheckExisting(r)
  <2>1. /\ Steady(r) /\ request[r].pc = "existing"
        /\ Goes(r, "demoteAll") \/ Goes(r, "insert") \/ Ends(r, "rejected")
    BY <1>0, <1>5, CheckExistingStep
  <2>2. /\ JobsDone(r) /\ request[r].pc \notin Ended \cup {"idle"}
        /\ Call(r) \in CallsAt("demoteAll") /\ Call(r) \in CallsAt("insert")
    BY <1>0, <1>j, <2>1 DEF Ended, Waiting, CallsAt, Inserting
  <2> QED
    BY <2>1, <2>2, GoesMoved, EndsMoved DEF Ended
<1>6. CASE DemoteAll(r)
  <2>1. Steady(r) /\ request[r].pc = "demoteAll" /\ Goes(r, "insert")
    BY <1>0, <1>6, DemoteAllStep
  <2>2. /\ JobsDone(r) /\ request[r].pc \notin Ended \cup {"idle"}
        /\ Call(r) \in CallsAt("insert")
    BY <1>0, <1>j, <2>1 DEF Ended, Waiting, CallsAt
  <2> QED
    BY <2>1, <2>2, GoesMoved
<1>7. CASE InsertPrices(r)
  <2>1. /\ Steady(r) /\ request[r].pc = "insert"
        /\ Goes(r, "clearPrices") \/ Ends(r, "rejected")
    BY <1>0, <1>7, InsertPricesStep
  <2>2. /\ JobsDone(r) /\ request[r].pc \notin Ended \cup {"idle"}
        /\ Call(r) \in CallsAt("clearPrices")
    BY <1>0, <1>j, <2>1 DEF Ended, Waiting, CallsAt
  <2> QED
    BY <2>1, <2>2, GoesMoved, EndsMoved DEF Ended
<1>8. CASE ClearAfterPrices(r)
  <2>1. /\ Steady(r) /\ request[r].pc = "clearPrices"
        /\ \/ Call(r) = "createPackage" /\ Goes(r, "addFeatures")
           \/ /\ Call(r) = "updatePackage"
              /\ Starts(r, "rewrite", request[r].seen, Rewrites(r))
           \/ Call(r) = "deletePackage" /\ Goes(r, "dropConfigs")
           \/ Call(r) \in Restores /\ Goes(r, "clear")
           \/ Ends(r, "done")
    BY <1>0, <1>8, ClearAfterPricesStep
  <2>2. JobsDone(r) /\ request[r].pc \notin Ended \cup {"idle"}
    BY <1>j, <2>1 DEF Ended, Waiting
  <2>3. /\ Call(r) = "createPackage" => Call(r) \in CallsAt("addFeatures")
        /\ Call(r) = "deletePackage" => Call(r) \in CallsAt("dropConfigs")
        /\ Call(r) \in Restores => Call(r) \in CallsAt("clear")
    BY DEF CallsAt, WriteCalls, Deletions
  <2>4. CASE Starts(r, "rewrite", request[r].seen, Rewrites(r)) /\ Call(r) = "updatePackage"
    BY <2>1, <2>2, <2>4, StartsMoved
  <2> QED
    BY <2>1, <2>2, <2>3, <2>4, GoesMoved, EndsMoved DEF Ended
<1>9. CASE Review(r)
  <2>1. PICK jobs :
          /\ Steady(r) /\ request[r].pc = "rewrite"
          /\ Starts(r, "elect", request[r].seen, jobs)
    BY <1>0, <1>9, ReviewStep
  <2>2. Call(r) = "updatePackage" /\ request[r].pc \notin Ended \cup {"idle"}
    BY <1>0, <2>1 DEF CallsAt, Ended
  <2> QED
    BY <2>1, <2>2, StartsMoved
<1>10. CASE Elected(r)
  <2>1. /\ Steady(r) /\ request[r].pc = "elect" /\ JobsDone(r)
        /\ \E pc \in {"features", "clearOthers", "write"} : Goes(r, pc)
    BY <1>0, <1>10, ElectedStep
  <2>2. /\ request[r].pc \notin Ended \cup {"idle"}
        /\ \A pc \in {"features", "clearOthers", "write"} : Call(r) \in CallsAt(pc)
    BY <1>0, <2>1 DEF Ended, CallsAt, WriteCalls
  <2> QED
    BY <2>1, <2>2, GoesMoved
<1>11. CASE PriceRouteDone(r)
  <2>1. Steady(r) /\ request[r].pc = "priceRoute" /\ JobsDone(r) /\ Ends(r, "done")
    BY <1>0, <1>11, PriceRouteDoneStep
  <2> QED
    BY <2>1, EndsMoved DEF Ended
<1> QED
  BY <1>1, <1>2, <1>3, <1>4, <1>5, <1>6, <1>7, <1>8, <1>9, <1>10, <1>11 DEF PriceStep

LEMMA FeatureStepMoved ==
  ASSUME Base, NEW r \in Requests, FeatureStep(r)
  PROVE  Steady(r) /\ Moved(r)
<1>0. /\ Typed /\ Call(r) \in CallsAt(request[r].pc) /\ Call(r) \in CallNames
      /\ request[r].pc \notin Waiting \cup {"rejected"} => JobsDone(r)
  BY PlacedHere
<1>1. CASE SeeFeatures(r)
  <2>1. PICK pc \in {"dropFeatures", "addFeatures", "clearOthers", "write"} :
          Steady(r) /\ request[r].pc = "features" /\ Goes(r, pc)
    BY <1>0, <1>1, SeeFeaturesStep
  <2>2. /\ JobsDone(r) /\ request[r].pc \notin Ended \cup {"idle"}
        /\ Call(r) \in CallsAt(pc)
    BY <1>0, <2>1 DEF Ended, Waiting, CallsAt, WriteCalls
  <2> QED
    BY <2>1, <2>2, GoesMoved
<1>2. CASE DropFeatures(r)
  <2>1. PICK pc \in {"addFeatures", "clearOthers", "write"} :
          Steady(r) /\ request[r].pc = "dropFeatures" /\ Goes(r, pc)
    BY <1>0, <1>2, DropFeaturesStep
  <2>2. /\ JobsDone(r) /\ request[r].pc \notin Ended \cup {"idle"}
        /\ Call(r) \in CallsAt(pc)
    BY <1>0, <2>1 DEF Ended, Waiting, CallsAt, WriteCalls
  <2> QED
    BY <2>1, <2>2, GoesMoved
<1>3. CASE AddFeatures(r)
  <2>1. /\ Steady(r) /\ request[r].pc = "addFeatures"
        /\ \/ Ends(r, "rejected")
           \/ Call(r) = "createPackage" /\ Goes(r, "clear")
           \/ Call(r) # "createPackage" /\ Goes(r, "reviveFeatures")
    BY <1>0, <1>3, AddFeaturesStep
  <2>2. /\ JobsDone(r) /\ request[r].pc \notin Ended \cup {"idle"}
        /\ Call(r) \in CallsAt("clear")
        /\ Call(r) # "createPackage" => Call(r) \in CallsAt("reviveFeatures")
    BY <1>0, <2>1 DEF Ended, Waiting, CallsAt, WriteCalls
  <2> QED
    BY <2>1, <2>2, GoesMoved, EndsMoved DEF Ended
<1>4. CASE ReviveFeatures(r)
  <2>1. PICK pc \in {"clearOthers", "write"} :
          Steady(r) /\ request[r].pc = "reviveFeatures" /\ Goes(r, pc)
    BY <1>0, <1>4, ReviveFeaturesStep
  <2>2. /\ JobsDone(r) /\ request[r].pc \notin Ended \cup {"idle"}
        /\ Call(r) \in CallsAt(pc)
    BY <1>0, <2>1 DEF Ended, Waiting, CallsAt, WriteCalls
  <2> QED
    BY <2>1, <2>2, GoesMoved
<1> QED
  BY <1>1, <1>2, <1>3, <1>4 DEF FeatureStep

LEMMA FoundMoves ==
  ASSUME Base, NEW r \in Requests, request[r].pc = "find"
  PROVE  /\ Call(r) \in CallsAt(AfterFind(r)) /\ AfterFind(r) # "idle"
         /\ AfterFind(r) # "delete" => Call(r) \notin Deletions
<1>1. /\ Call(r) \in {"updatePackage", "updatePackageIsInitial"} \cup Deletions
      /\ request[r].ask \in Payloads
  BY PlacedHere, RequestFields DEF CallsAt
<1>2. /\ request[r].ask.repriced =>
            Call(r) \in WriteCalls \cup PriceCalls
      /\ request[r].ask.features # {} => Call(r) \in WriteCalls
  BY <1>1 DEF Payloads, Call
<1>3. /\ Call(r) \notin Deletions /\ request[r].ask.repriced => Call(r) = "updatePackage"
      /\ request[r].ask.features # {} => Call(r) = "updatePackage"
  <2>1. Call(r) \in WriteCalls \cup PriceCalls /\ Call(r) \notin Deletions
          => Call(r) = "updatePackage"
    BY <1>1 DEF WriteCalls, PriceCalls, Deletions
  <2>2. Call(r) \in WriteCalls => Call(r) \notin Deletions
    BY DEF WriteCalls, Deletions
  <2> QED
    BY <1>2, <2>1, <2>2
<1>4. CASE Call(r) \in Deletions
  BY <1>4 DEF AfterFind, CallsAt
<1>5. CASE Call(r) \notin Deletions
  <2>1. AfterFind(r) \in {"see", "features", "clearOthers", "mark", "write"}
    BY <1>5 DEF AfterFind
  <2>2. CASE AfterFind(r) \in {"see", "features"}
    <3>1. Call(r) = "updatePackage"
      BY <1>3, <1>5, <2>2 DEF AfterFind
    <3> QED
      BY <1>5, <2>2, <3>1 DEF CallsAt
  <2>3. CASE AfterFind(r) = "clearOthers"
    BY <1>1, <1>5, <2>3 DEF CallsAt, WriteCalls
  <2>4. CASE AfterFind(r) = "mark"
    BY <1>5, <2>4 DEF AfterFind, CallsAt
  <2>5. CASE AfterFind(r) = "write"
    <3>1. Call(r) = "updatePackage"
      BY <1>1, <1>5, <2>5 DEF AfterFind
    <3> QED
      BY <1>5, <2>5, <3>1 DEF CallsAt
  <2> QED
    BY <1>5, <2>1, <2>2, <2>3, <2>4, <2>5
<1> QED
  BY <1>4, <1>5

LEMMA PackageStepMoved ==
  ASSUME Base, NEW r \in Requests, PackageStep(r)
  PROVE  Steady(r) /\ Moved(r)
<1>0. /\ Typed /\ Call(r) \in CallsAt(request[r].pc) /\ Call(r) \in CallNames
      /\ request[r].pc \notin Waiting \cup {"rejected"} => JobsDone(r)
  BY PlacedHere
<1>1. CASE FindPackage(r)
  <2>1. /\ Steady(r) /\ request[r].pc = "find"
        /\ Goes(r, AfterFind(r)) \/ Ends(r, "rejected")
    BY <1>0, <1>1, FindPackageStep
  <2>2. JobsDone(r) /\ request[r].pc \notin Ended \cup {"idle"}
    BY <1>0, <2>1 DEF Ended, Waiting
  <2> QED
    BY <2>1, <2>2, FoundMoves, GoesMoved, EndsMoved DEF Ended
<1>2. CASE ClearOthers(r)
  <2> DEFINE pc == CASE Call(r) = "createPackage" -> "create"
                     [] Call(r) = "updatePackage" -> "write"
                     [] OTHER -> "mark"
  <2>1. Steady(r) /\ request[r].pc = "clearOthers" /\ Goes(r, pc)
    BY <1>0, <1>2, ClearOthersStep
  <2>2. JobsDone(r) /\ request[r].pc \notin Ended \cup {"idle"}
    BY <1>0, <2>1 DEF Ended, Waiting
  <2>3. Call(r) \in CallsAt(pc) /\ pc # "idle"
    BY <1>0, <2>1 DEF CallsAt, WriteCalls
  <2> HIDE DEF pc
  <2> QED
    BY <2>1, <2>2, <2>3, GoesMoved
<1>3. CASE CreatePackage(r)
  <2>1. /\ Steady(r) /\ request[r].pc = "create"
        /\ Goes(r, "check") \/ Ends(r, "rejected")
    BY <1>0, <1>3, CreatePackageStep
  <2>2. /\ JobsDone(r) /\ request[r].pc \notin Ended \cup {"idle"}
        /\ Call(r) \in CallsAt("check")
    BY <1>0, <2>1 DEF Ended, Waiting, CallsAt, WriteCalls
  <2> QED
    BY <2>1, <2>2, GoesMoved, EndsMoved DEF Ended
<1>4. CASE WritePackage(r)
  <2>1. /\ Steady(r) /\ request[r].pc = "write"
        /\ Goes(r, "clear") \/ Ends(r, "rejected")
    BY <1>0, <1>4, WritePackageStep
  <2>2. /\ JobsDone(r) /\ request[r].pc \notin Ended \cup {"idle"}
        /\ Call(r) \in CallsAt("clear")
    BY <1>0, <2>1 DEF Ended, Waiting, CallsAt, WriteCalls
  <2> QED
    BY <2>1, <2>2, GoesMoved, EndsMoved DEF Ended
<1>5. CASE MarkInitial(r)
  <2>1. /\ Steady(r) /\ request[r].pc = "mark"
        /\ Goes(r, "clear") \/ Ends(r, "rejected")
    BY <1>0, <1>5, MarkInitialStep
  <2>2. /\ JobsDone(r) /\ request[r].pc \notin Ended \cup {"idle"}
        /\ Call(r) \in CallsAt("clear")
    BY <1>0, <2>1 DEF Ended, Waiting, CallsAt
  <2> QED
    BY <2>1, <2>2, GoesMoved, EndsMoved DEF Ended
<1>6. CASE DeletePackage(r)
  <2>1. Steady(r) /\ request[r].pc = "delete" /\ Goes(r, "dropPrices")
    BY <1>0, <1>6, DeletePackageStep
  <2>2. /\ JobsDone(r) /\ request[r].pc \notin Ended \cup {"idle"}
        /\ Call(r) \in CallsAt("dropPrices")
    BY <1>0, <2>1 DEF Ended, Waiting, CallsAt
  <2> QED
    BY <2>1, <2>2, GoesMoved
<1>7. CASE DropPrices(r)
  <2>1. /\ Steady(r) /\ request[r].pc = "dropPrices"
        /\ \/ Goes(r, "dropConfigs")
           \/ Call(r) # "deletePackagePermanent" /\ Goes(r, "clearPrices")
    BY <1>0, <1>7, DropPricesStep
  <2>2. /\ JobsDone(r) /\ request[r].pc \notin Ended \cup {"idle"}
        /\ Call(r) \in CallsAt("dropConfigs")
        /\ Call(r) # "deletePackagePermanent" => Call(r) \in CallsAt("clearPrices")
    BY <1>0, <2>1 DEF Ended, Waiting, CallsAt, Deletions
  <2> QED
    BY <2>1, <2>2, GoesMoved
<1>8. CASE DropConfigs(r)
  <2>1. Steady(r) /\ request[r].pc = "dropConfigs" /\ Goes(r, "clear")
    BY <1>0, <1>8, DropConfigsStep
  <2>2. /\ JobsDone(r) /\ request[r].pc \notin Ended \cup {"idle"}
        /\ Call(r) \in CallsAt("clear")
    BY <1>0, <2>1 DEF Ended, Waiting, CallsAt
  <2> QED
    BY <2>1, <2>2, GoesMoved
<1>9. CASE RestorePackage(r)
  <2>1. /\ Steady(r) /\ request[r].pc = "restore"
        /\ Ends(r, "rejected") \/ \E pc \in {"revive", "restored"} : Goes(r, pc)
    BY <1>0, <1>9, RestorePackageStep
  <2>2. /\ JobsDone(r) /\ request[r].pc \notin Ended \cup {"idle"}
        /\ \A pc \in {"revive", "restored"} : Call(r) \in CallsAt(pc)
    BY <1>0, <2>1 DEF Ended, Waiting, CallsAt
  <2> QED
    BY <2>1, <2>2, GoesMoved, EndsMoved DEF Ended
<1>10. CASE FindRestored(r)
  <2>1. /\ Steady(r) /\ request[r].pc = "restored"
        /\ Goes(r, "revive") \/ Goes(r, "clear")
    BY <1>0, <1>10, FindRestoredStep
  <2>2. /\ JobsDone(r) /\ request[r].pc \notin Ended \cup {"idle"}
        /\ \A pc \in {"revive", "clear"} : Call(r) \in CallsAt(pc)
    BY <1>0, <2>1 DEF Ended, Waiting, CallsAt
  <2> QED
    BY <2>1, <2>2, GoesMoved
<1>11. CASE RevivePrices(r)
  <2>1. Steady(r) /\ request[r].pc = "revive" /\ Goes(r, "clearPrices")
    BY <1>0, <1>11, RevivePricesStep
  <2>2. /\ JobsDone(r) /\ request[r].pc \notin Ended \cup {"idle"}
        /\ Call(r) \in CallsAt("clearPrices")
    BY <1>0, <2>1 DEF Ended, Waiting, CallsAt
  <2> QED
    BY <2>1, <2>2, GoesMoved
<1>12. CASE ClearCache(r)
  <2>1. /\ Steady(r) /\ request[r].pc = "clear"
        /\ \/ Call(r) \in WriteCalls /\ Goes(r, "read")
           \/ Ends(r, "done")
    BY <1>0, <1>12, ClearCacheStep
  <2>2. /\ JobsDone(r) /\ request[r].pc \notin Ended \cup {"idle"}
        /\ Call(r) \in WriteCalls => Call(r) \in CallsAt("read")
    BY <1>0, <2>1 DEF Ended, Waiting, CallsAt
  <2> QED
    BY <2>1, <2>2, GoesMoved, EndsMoved DEF Ended
<1>13. CASE ReadPackage(r)
  <2>1. /\ Steady(r) /\ request[r].pc = "read"
        /\ Reads(r, "record") \/ Ends(r, "rejected")
    BY <1>0, <1>13, ReadPackageStep
  <2>2. /\ JobsDone(r) /\ request[r].pc \notin Ended \cup {"idle"}
        /\ Call(r) \in CallsAt("record")
    BY <1>0, <2>1 DEF Ended, Waiting, CallsAt
  <2> QED
    BY <2>1, <2>2, ReadsMoved, EndsMoved DEF Ended
<1>14. CASE RecordHistory(r)
  <2>1. Steady(r) /\ request[r].pc = "record" /\ Ends(r, "done")
    BY <1>0, <1>14, RecordHistoryStep
  <2>2. JobsDone(r) /\ request[r].pc \notin Ended \cup {"idle"}
    BY <1>0, <2>1 DEF Ended, Waiting
  <2> QED
    BY <2>1, <2>2, EndsMoved DEF Ended
<1> QED
  BY <1>1, <1>2, <1>3, <1>4, <1>5, <1>6, <1>7, <1>8, <1>9, <1>10, <1>11, <1>12,
     <1>13, <1>14 DEF PackageStep

LEMMA ReadStepMoved ==
  ASSUME Base, NEW r \in Requests, ReadStep(r)
  PROVE  Steady(r) /\ Moved(r)
<1>0. /\ Typed /\ Call(r) \in CallsAt(request[r].pc)
      /\ request[r].pc \notin Waiting \cup {"rejected"} => JobsDone(r)
  BY PlacedHere
<1>1. CASE ReadCache(r)
  <2>1. /\ Steady(r) /\ request[r].pc = "get"
        /\ Goes(r, "fetch") \/ Ends(r, "done")
    BY <1>0, <1>1, ReadCacheStep
  <2>2. /\ JobsDone(r) /\ request[r].pc \notin Ended \cup {"idle"}
        /\ Call(r) \in CallsAt("fetch")
    BY <1>0, <2>1 DEF Ended, Waiting, CallsAt
  <2> QED
    BY <2>1, <2>2, GoesMoved, EndsMoved DEF Ended
<1>2. CASE FetchPackage(r)
  <2>1. /\ Steady(r) /\ request[r].pc = "fetch"
        /\ Reads(r, "store") \/ Ends(r, "rejected")
    BY <1>0, <1>2, FetchPackageStep
  <2>2. /\ JobsDone(r) /\ request[r].pc \notin Ended \cup {"idle"}
        /\ Call(r) \in CallsAt("store")
    BY <1>0, <2>1 DEF Ended, Waiting, CallsAt
  <2> QED
    BY <2>1, <2>2, ReadsMoved, EndsMoved DEF Ended
<1>3. CASE StoreCache(r)
  <2>1. Steady(r) /\ request[r].pc = "store" /\ Ends(r, "done")
    BY <1>0, <1>3, StoreCacheStep
  <2>2. JobsDone(r) /\ request[r].pc \notin Ended \cup {"idle"}
    BY <1>0, <2>1 DEF Ended, Waiting
  <2> QED
    BY <2>1, <2>2, EndsMoved DEF Ended
<1> QED
  BY <1>1, <1>2, <1>3 DEF ReadStep

LEMMA StepMoved ==
  ASSUME Base, NEW r \in Requests, StepOf(r)
  PROVE  Steady(r) /\ Moved(r)
BY PriceJobMoved, PriceStepMoved, FeatureStepMoved, PackageStepMoved, ReadStepMoved
   DEF StepOf

LEMMA EntryPlaced ==
  ASSUME NEW ask \in Payloads
  PROVE  /\ ask.call \in CallsAt(Entry(ask.call, ask.initial))
         /\ ask.call = "createPackagePrices" =>
              /\ Entry(ask.call, ask.initial) = "demoteAll"
              /\ ask.call \in CallsAt("insert")
<1>1. ask.call \in CallNames
  BY AskFields
<1>2. CASE ask.call \in WriteCalls \cup {"updatePackageIsInitial", "getPublicPackage"}
  BY <1>2 DEF WriteCalls, Entry, CallsAt, Restores, Deletions
<1>3. CASE ask.call \in PriceCalls
  BY <1>3 DEF PriceCalls, Entry, CallsAt, Inserting, Restores, Deletions
<1>4. CASE ask.call \in Restores
  BY <1>4 DEF Entry, CallsAt, Restores, Deletions
<1>5. CASE ask.call \in Deletions
  BY <1>5 DEF Entry, CallsAt, Restores, Deletions
<1> QED
  BY <1>1, <1>2, <1>3, <1>4, <1>5 DEF CallNames

LEMMA ArriveBase ==
  ASSUME Base, NEW r \in Requests, NEW p \in Packages, NEW ask \in Asks,
         Arrive(r, p, ask)
  PROVE  Base' /\ (Serial' => Serial)
<1>0. /\ Typed /\ Typed' /\ Untouched /\ latest' = {r} /\ request[r].pc = "idle"
      /\ ask \in Payloads /\ Begins(r, p, ask)
      /\ \A s \in Requests \ {r} : Stays(s)
  BY ArriveStep DEF Base
<1>1. ASSUME NEW s \in Requests \ {r}
      PROVE  /\ PlacedAt(s)' /\ AtRest(s)' = AtRest(s)
             /\ request'[s].alone => request[s].alone /\ AtRest(s)
             /\ request'[s].pc = request[s].pc
  <2>1. Stays(s) /\ PlacedAt(s)
    BY <1>0 DEF Base, Placed
  <2> QED
    BY <2>1 DEF Stays, PlacedAt, Call, AtRest, JobsDone, UnderWay
<1>2. PlacedAt(r)'
  <2>1. /\ request'[r].ask = ask
        /\ request'[r].job = EntryJobs(ask.call, ask.prices)
    BY <1>0 DEF Begins
  <2>2. Call(r)' = ask.call
    BY <2>1 DEF Call
  <2>3. Call(r)' \in CallsAt(request'[r].pc)
    BY <1>0, <2>2, EntryPlaced DEF Begins
  <2>4. ASSUME request'[r].pc \notin Waiting \cup {"rejected"}
        PROVE  JobsDone(r)'
    <3>1. ask.call \notin {"updatePackagePrice", "deletePackagePrice"}
      <4>1. SUFFICES ASSUME ask.call \in {"updatePackagePrice", "deletePackagePrice"}
                     PROVE  request'[r].pc = "priceRoute"
        BY <2>4 DEF Waiting
      <4> QED
        BY <1>0, <4>1 DEF Begins, Entry, Restores, Deletions
    <3>2. \A i \in Intervals : EntryJobs(ask.call, ask.prices)[i].step = "idle"
      BY <1>0, <3>1, EntryFields
    <3> QED
      BY <2>1, <3>2 DEF JobsDone
  <2> QED
    BY <2>3, <2>4 DEF PlacedAt
<1>3. Placed'
  BY <1>1, <1>2 DEF Placed
<1>4. Exclusive'
  <2>1. request'[r].alone => UnderWay = {}
    BY <1>0 DEF Begins
  <2>2. \A s \in Requests : UnderWay = {} => AtRest(s)
    BY DEF UnderWay
  <2>3. \A s \in Requests \ {r} : s \notin latest'
    BY <1>0
  <2> QED
    BY <1>0, <1>1, <2>1, <2>2, <2>3 DEF Exclusive
<1>5. Serial' => Serial
  BY <1>0, <1>1 DEF Serial
<1> QED
  BY <1>0, <1>3, <1>4, <1>5 DEF Base

LEMMA NextBase ==
  ASSUME Base, [Next]_vars
  PROVE  Base' /\ (Serial' => Serial)
<1>1. ASSUME NEW r \in Requests, StepOf(r)
      PROVE  Base' /\ (Serial' => Serial)
  BY <1>1, StepMoved, BaseKept
<1>2. ASSUME NEW r \in Requests, NEW p \in Packages, NEW ask \in Asks,
             Arrive(r, p, ask)
      PROVE  Base' /\ (Serial' => Serial)
  BY <1>2, ArriveBase
<1>3. CASE UNCHANGED vars
  BY <1>3 DEF vars, Base, Typed, TypeOK, Placed, PlacedAt, Exclusive, Serial, AtRest,
     JobsDone, Call
<1> QED
  BY <1>1, <1>2, <1>3 DEF Next, StepOf

LEMMA InitBase ==
  ASSUME Init
  PROVE  Base
<1>0. PICK stocked \in [Stock -> (SUBSET Intervals) \ {{}}],
           only \in {{}} \cup {{p} : p \in Stock}, initial \in [Stock -> Intervals] :
        /\ \A p \in Stock : initial[p] \in stocked[p]
        /\ package = [p \in Packages |->
             [state |-> IF p \in Stock THEN "live" ELSE "none",
              is_initial |-> p \in only,
              version |-> IF p \in Stock THEN 1 ELSE 0]]
        /\ price = [p \in Packages |-> [i \in Intervals |->
             [state |-> IF p \in Stock /\ i \in stocked[p] THEN "live" ELSE "none",
              is_initial |-> p \in Stock /\ i = initial[p], by |-> Nobody]]]
  BY Zenon DEF Init
<1>1. PICK q \in Packages : request = [r \in Requests |-> Fresh(q)]
  BY DEF Init
<1>2. package \in [Packages -> PackageStates]
  <2>1. ASSUME NEW p \in Packages
        PROVE  [state |-> IF p \in Stock THEN "live" ELSE "none",
                is_initial |-> p \in only,
                version |-> IF p \in Stock THEN 1 ELSE 0] \in PackageStates
    BY DEF PackageStates, DocStates
  <2> QED
    BY <1>0, <2>1
<1>3. price \in [Packages -> [Intervals -> PriceStates]]
  <2>1. ASSUME NEW p \in Packages, NEW i \in Intervals
        PROVE  [state |-> IF p \in Stock /\ i \in stocked[p] THEN "live" ELSE "none",
                is_initial |-> p \in Stock /\ i = initial[p], by |-> Nobody]
                 \in PriceStates
    BY DEF PriceStates, DocStates
  <2> QED
    BY <1>0, <2>1
<1>4. feature \in [Packages -> [Features -> DocStates]]
  BY DEF Init, DocStates
<1>5. request \in [Requests -> RequestStates]
  BY <1>1, FreshTyped
<1>6. /\ cached \in [Packages -> SUBSET Documents]
      /\ \A p \in Packages : Cardinality(cached[p]) <= 1
      /\ Cardinality(latest) <= 1 /\ latest \subseteq Requests
  BY FS_EmptySet DEF Init
<1>7. configs \subseteq Packages
  BY CatalogAssumption DEF Init
<1>8. history \in [Packages -> Seq(Entries)]
  <2>1. ASSUME NEW p \in Packages
        PROVE  [version |-> 1, offer |-> Offer(p)] \in Entries
    <3> DEFINE prices == [i \in LivePrices(p) |->
                           [is_initial |-> price[p][i].is_initial, by |-> price[p][i].by]]
               Shown == [is_initial : BOOLEAN, by : Requests \cup {Nobody}]
    <3>1. LivePrices(p) \in SUBSET Intervals /\ LiveFeatures(p) \in SUBSET Features
      BY DEF LivePrices, LiveFeatures
    <3>2. \A i \in Intervals : price[p][i] \in PriceStates
      BY <1>3
    <3>3. prices \in [LivePrices(p) -> Shown]
      BY <3>1, <3>2 DEF PriceStates
    <3> HIDE DEF prices, Shown
    <3>4. prices \in UNION {[S -> Shown] : S \in SUBSET Intervals}
      BY <3>1, <3>3
    <3>5. Offer(p) \in Offers
      BY <3>1, <3>4 DEF Offer, Offers, prices, Shown
    <3> QED
      BY <3>5 DEF Entries
  <2>2. ASSUME NEW p \in Packages
        PROVE  /\ <<[version |-> 1, offer |-> Offer(p)]>> \in Seq(Entries)
               /\ <<>> \in Seq(Entries)
    <3> DEFINE e == [version |-> 1, offer |-> Offer(p)]
    <3>1. e \in Entries
      BY <2>1
    <3> HIDE DEF e
    <3>2. <<e>> \in Seq(Entries) /\ <<>> \in Seq(Entries)
      BY <3>1
    <3> QED
      BY <3>2 DEF e
  <2>3. history = [p \in Packages |->
          IF p \in Stock THEN <<[version |-> 1, offer |-> Offer(p)]>> ELSE <<>>]
    BY DEF Init
  <2> DEFINE row(p) == IF p \in Stock THEN <<[version |-> 1, offer |-> Offer(p)]>>
                       ELSE <<>>
  <2>4. \A p \in Packages : row(p) \in Seq(Entries)
    BY <2>2
  <2>5. history = [p \in Packages |-> row(p)]
    BY <2>3
  <2> HIDE DEF row
  <2> QED
    BY <2>4, <2>5
<1>9. ASSUME NEW p \in Packages, NEW n \in DOMAIN history[p]
      PROVE  history[p][n].version \in Nat /\ history[p][n].offer \in Offers
  <2>1. history[p] \in Seq(Entries)
    BY <1>8
  <2>2. history[p][n] \in Entries
    BY <1>9, <2>1
  <2> QED
    BY <2>2 DEF Entries
<1>10. ASSUME NEW r \in Requests
       PROVE  /\ request[r].pc = "idle" /\ Call(r) = "getPublicPackage"
              /\ request[r].doc = {} /\ JobsDone(r) /\ AtRest(r)
              /\ ~request[r].alone
  BY <1>1, IdleJob DEF Fresh, Reading, Call, JobsDone, AtRest, Ended
<1>11. Typed
  BY <1>2, <1>3, <1>4, <1>5, <1>6, <1>7, <1>8, <1>9, <1>10 DEF Typed, TypeOK
<1>12. Placed
  BY <1>10 DEF Placed, PlacedAt, CallsAt
<1>13. Exclusive
  BY <1>10 DEF Exclusive
<1> QED
  BY <1>11, <1>12, <1>13 DEF Base

LEMMA BaseInvariant == Spec => []Base
<1>1. Init => Base
  BY InitBase
<1>2. Base /\ [Next]_vars => Base'
  BY NextBase
<1> QED
  BY <1>1, <1>2, PTL DEF Spec

(* The types of the catalogue hold in every state (TypeOK), for any number *)
(* of packages, intervals, features, requests and payloads.                *)
THEOREM CatalogTypeCorrect == Spec => []TypeOK
<1>1. Base => TypeOK
  BY DEF Base, Typed
<1> QED
  BY <1>1, BaseInvariant, PTL

-----------------------------------------------------------------------------
(* Public copies. *)

(* Steps from which a request does not clear the cache any more. *)
Clean == {"idle", "priceRoute", "read", "record", "get", "fetch", "store"} \cup Ended

Dirty(r) == ~JobsDone(r) \/ request[r].pc \notin Clean

Excused == Rejected # {} \/ \E r \in Requests : Dirty(r)

CopyFresh(p, d) == Live(p) /\ d = Document(p)

CacheInv ==
  Serial =>
    /\ \A p \in Packages : \A d \in cached[p] : CopyFresh(p, d) \/ Excused
    /\ \A r \in Requests : request[r].pc = "store" =>
         Live(Package(r)) /\ request[r].doc = {Document(Package(r))}

(* While requests come one after another, the others rest. *)
LEMMA Solo ==
  ASSUME Base, Serial, NEW r \in Requests, ~AtRest(r)
  PROVE  /\ request[r].alone /\ r \in latest
         /\ \A s \in Requests \ {r} : AtRest(s)
<1>1. request[r].pc # "idle"
  BY DEF AtRest, Base, Placed, PlacedAt, Waiting
<1> QED
  BY <1>1 DEF Serial, Base, Exclusive

LEMMA SameDocuments ==
  ASSUME UNCHANGED <<package, price, feature>>, NEW p
  PROVE  /\ Document(p)' = Document(p) /\ Offer(p)' = Offer(p) /\ Live(p)' = Live(p)
         /\ LivePrices(p)' = LivePrices(p)
BY DEF Document, Offer, LivePrices, LiveFeatures, Live

GoesOn(r) ==
  /\ UNCHANGED cached
  /\ Dirty(r) => Dirty(r)' \/ request'[r].pc = "rejected"
  /\ Dirty(r) \/ UNCHANGED <<package, price, feature>>

Stores(r) ==
  /\ UNCHANGED <<package, price, feature>> /\ request[r].pc = "store"
  /\ \A p \in Packages : cached'[p] =
       IF p = Package(r) THEN request[r].doc ELSE cached[p]

CacheKind(r) ==
  /\ GoesOn(r) \/ cached' = NoCopies \/ Stores(r)
  /\ request'[r].pc = "store" =>
       /\ UNCHANGED <<package, price, feature>>
       /\ Live(Package(r)) /\ request'[r].doc = {Document(Package(r))}

LEMMA CacheKept ==
  ASSUME Base, CacheInv, NEW r \in Requests, Steady(r), Moved(r), CacheKind(r),
         Serial
  PROVE  CacheInv'
<1>0. \A s \in Requests \ {r} : AtRest(s)
  BY Solo DEF Moved
<1>1. ASSUME NEW s \in Requests, request'[s].pc = "store"
      PROVE  Live(Package(s))' /\ request'[s].doc = {Document(Package(s))'}
  <2>1. s = r
    <3>1. s # r => request[s].pc = "store"
      BY <1>1 DEF Steady, Others
    <3> QED
      BY <1>0, <3>1 DEF AtRest, Ended
  <2>2. Package(r)' = Package(r)
    BY DEF Steady, Others, Package
  <2>3. Live(Package(r))' /\ Document(Package(r))' = Document(Package(r))
    BY <1>1, <2>1, <2>2, SameDocuments DEF CacheKind
  <2> QED
    BY <1>1, <2>1, <2>3 DEF CacheKind
<1>2. ASSUME NEW p \in Packages, NEW d \in cached'[p]
      PROVE  CopyFresh(p, d)' \/ Excused'
  <2>1. CASE cached' = NoCopies
    BY <1>2, <2>1 DEF NoCopies
  <2>2. CASE Stores(r)
    <3>1. CASE p = Package(r)
      <4>1. d = Document(p) /\ Live(p)
        BY <1>2, <2>2, <3>1 DEF Stores, CacheInv
      <4> QED
        BY <2>2, <4>1, SameDocuments DEF CopyFresh, Stores
    <3>2. CASE p # Package(r)
      <4>1. d \in cached[p]
        BY <1>2, <2>2, <3>2 DEF Stores
      <4>2. CopyFresh(p, d) \/ Excused
        BY <4>1 DEF CacheInv
      <4>3. CASE CopyFresh(p, d)
        BY <2>2, <4>3, SameDocuments DEF CopyFresh, Stores
      <4>4. CASE Excused
        <5>1. ~Dirty(r) /\ \A s \in Requests \ {r} : ~Dirty(s)
          BY <1>0, <2>2 DEF Dirty, AtRest, Stores, Clean, Base, Placed, PlacedAt, Waiting
        <5>2. PICK s \in Requests : request[s].pc = "rejected"
          BY <4>4, <5>1 DEF Excused, Rejected
        <5>3. request'[s].pc = "rejected"
          BY <2>2, <5>2 DEF Stores, Steady, Others
        <5> QED
          BY <5>3 DEF Excused, Rejected
      <4> QED
        BY <4>2, <4>3, <4>4
    <3> QED
      BY <3>1, <3>2
  <2>3. CASE GoesOn(r)
    <3>1. d \in cached[p]
      BY <1>2, <2>3 DEF GoesOn
    <3>2. CopyFresh(p, d) \/ Excused
      BY <3>1 DEF CacheInv
    <3>3. CASE Dirty(r)
      <4>1. Dirty(r)' \/ request'[r].pc = "rejected"
        BY <2>3, <3>3 DEF GoesOn
      <4> QED
        BY <4>1 DEF Excused, Rejected
    <3>4. CASE ~Dirty(r) /\ CopyFresh(p, d)
      BY <2>3, <3>4, SameDocuments DEF CopyFresh, GoesOn
    <3>5. CASE ~Dirty(r) /\ Excused
      <4>1. \A s \in Requests \ {r} : ~Dirty(s)
        BY <1>0 DEF Dirty, AtRest, Clean
      <4>2. PICK s \in Requests : request[s].pc = "rejected"
        BY <3>5, <4>1 DEF Excused, Rejected
      <4>3. s # r
        BY <3>5, <4>2 DEF Moved, AtRest, Ended, Dirty
      <4>4. request'[s].pc = "rejected"
        BY <4>2, <4>3 DEF Steady, Others
      <4> QED
        BY <4>4 DEF Excused, Rejected
    <3> QED
      BY <3>2, <3>3, <3>4, <3>5
  <2> QED
    BY <2>1, <2>2, <2>3 DEF CacheKind
<1> QED
  BY <1>1, <1>2 DEF CacheInv

LEMMA GoesKind ==
  ASSUME NEW r, NEW pc, Goes(r, pc), pc \notin Clean, UNCHANGED cached,
         Dirty(r) \/ UNCHANGED <<package, price, feature>>
  PROVE  CacheKind(r)
BY DEF Goes, CacheKind, GoesOn, Dirty, Clean

LEMMA EndsKind ==
  ASSUME NEW r, Ends(r, "rejected"), UNCHANGED cached,
         Dirty(r) \/ UNCHANGED <<package, price, feature>>
  PROVE  CacheKind(r)
BY DEF Ends, CacheKind, GoesOn

LEMMA StartsKind ==
  ASSUME NEW r, NEW pc \in {"remove", "rewrite", "elect"}, NEW seen, NEW jobs,
         Starts(r, pc, seen, jobs), UNCHANGED cached,
         UNCHANGED <<package, price, feature>>
  PROVE  CacheKind(r)
BY DEF Starts, CacheKind, GoesOn, Dirty, Clean, Ended

LEMMA JobKind ==
  ASSUME Base, NEW r \in Requests, NEW i \in Intervals, UNCHANGED cached,
         request[r].job[i].step # "idle", request'[r].pc = request[r].pc,
         request'[r].job[i].step # "idle"
  PROVE  CacheKind(r)
<1>1. Dirty(r) /\ Dirty(r)'
  BY DEF Dirty, JobsDone
<1>2. request[r].pc \in Waiting \cup {"rejected"}
  BY JobMoved
<1> QED
  BY <1>1, <1>2 DEF CacheKind, GoesOn, Waiting

LEMMA PriceJobKind ==
  ASSUME Base, NEW r \in Requests, PriceJob(r)
  PROVE  CacheKind(r)
<1>0. Typed
  BY PlacedHere
<1>1. PICK i \in Intervals :
        JobFind(r, i) \/ JobDemote(r, i) \/ JobWrite(r, i) \/ JobClear(r, i)
  BY DEF PriceJob
<1>2. CASE JobFind(r, i)
  <2>1. /\ Untouched /\ request[r].job[i].step = "find"
        /\ \/ JobMoves(r, i, "demote") \/ JobMoves(r, i, "write")
           \/ request'[r].pc = "rejected"
    BY <1>0, <1>2, JobFindStep
  <2>2. CASE request'[r].pc = "rejected"
    BY <2>1, <2>2 DEF CacheKind, GoesOn, Untouched
  <2>3. CASE JobMoves(r, i, "demote") \/ JobMoves(r, i, "write")
    BY <2>1, <2>3, JobKind DEF JobMoves, Untouched
  <2> QED
    BY <2>1, <2>2, <2>3
<1>3. CASE JobDemote(r, i)
  BY <1>0, <1>3, JobDemoteStep, JobKind DEF JobMoves
<1>4. CASE JobWrite(r, i)
  BY <1>0, <1>4, JobWriteStep, JobKind DEF JobMoves
<1>5. CASE JobClear(r, i)
  <2>1. /\ cached' = NoCopies /\ request'[r].pc = request[r].pc
        /\ request[r].job[i].step # "idle"
    BY <1>0, <1>5, JobClearStep
  <2>2. request[r].pc \in Waiting \cup {"rejected"}
    BY <2>1, JobMoved
  <2> QED
    BY <2>1, <2>2 DEF CacheKind, Waiting
<1> QED
  BY <1>1, <1>2, <1>3, <1>4, <1>5

LEMMA PriceStepKind ==
  ASSUME Base, NEW r \in Requests, PriceStep(r)
  PROVE  CacheKind(r)
<1>0. Typed
  BY PlacedHere
<1>1. CASE SeePrices(r)
  BY <1>0, <1>1, SeePricesStep, StartsKind DEF Untouched
<1>2. CASE Removed(r)
  <2>1. /\ Untouched
        /\ \/ Goes(r, "check")
           \/ Starts(r, "rewrite", request[r].seen, Rewrites(r))
    BY <1>0, <1>2, RemovedStep
  <2> QED
    BY <2>1, GoesKind, StartsKind DEF Untouched, Clean, Ended
<1>3. CASE CheckIntervals(r)
  <2>1. /\ Untouched
        /\ \/ Ends(r, "rejected")
           \/ request'[r].pc \in {"package", "demoteAll", "insert"}
    BY <1>0, <1>3, CheckIntervalsStep
  <2>2. CASE request'[r].pc \in {"package", "demoteAll", "insert"}
    BY <2>1, <2>2 DEF CacheKind, GoesOn, Dirty, Clean, Ended, Untouched
  <2> QED
    BY <2>1, <2>2, EndsKind DEF Untouched
<1>4. CASE CheckPackage(r)
  BY <1>0, <1>4, CheckPackageStep, GoesKind, EndsKind DEF Untouched, Clean, Ended
<1>5. CASE CheckExisting(r)
  <2>1. Untouched /\ (Goes(r, "demoteAll") \/ Goes(r, "insert") \/ Ends(r, "rejected"))
    BY <1>0, <1>5, CheckExistingStep
  <2> QED
    BY <2>1, GoesKind, EndsKind DEF Untouched, Clean, Ended
<1>6. CASE DemoteAll(r)
  <2>1. Dirty(r) /\ Goes(r, "insert") /\ UNCHANGED cached
    BY <1>0, <1>6, DemoteAllStep DEF Dirty, Clean, Ended
  <2> QED
    BY <2>1, GoesKind DEF Clean, Ended
<1>7. CASE InsertPrices(r)
  <2>1. /\ Dirty(r) /\ UNCHANGED cached
        /\ Goes(r, "clearPrices") \/ Ends(r, "rejected")
    BY <1>0, <1>7, InsertPricesStep DEF Dirty, Clean, Ended
  <2> QED
    BY <2>1, GoesKind, EndsKind DEF Clean, Ended
<1>8. CASE ClearAfterPrices(r)
  <2>1. /\ cached' = NoCopies
        /\ \/ Goes(r, "addFeatures") \/ Goes(r, "dropConfigs") \/ Goes(r, "clear")
           \/ Starts(r, "rewrite", request[r].seen, Rewrites(r)) \/ Ends(r, "done")
    BY <1>0, <1>8, ClearAfterPricesStep
  <2> QED
    BY <2>1 DEF CacheKind, Goes, Starts, Ends
<1>9. CASE Review(r)
  <2>1. PICK jobs : Untouched /\ Starts(r, "elect", request[r].seen, jobs)
    BY <1>0, <1>9, ReviewStep
  <2> QED
    BY <2>1, StartsKind DEF Untouched
<1>10. CASE Elected(r)
  <2>1. PICK pc \in {"features", "clearOthers", "write"} : Untouched /\ Goes(r, pc)
    BY <1>0, <1>10, ElectedStep
  <2> QED
    BY <2>1, GoesKind DEF Untouched, Clean, Ended
<1>11. CASE PriceRouteDone(r)
  <2>1. /\ Untouched /\ request[r].pc = "priceRoute" /\ JobsDone(r) /\ Ends(r, "done")
    BY <1>0, <1>11, PriceRouteDoneStep
  <2> QED
    BY <2>1 DEF CacheKind, GoesOn, Dirty, Clean, Ends, Untouched
<1> QED
  BY <1>1, <1>2, <1>3, <1>4, <1>5, <1>6, <1>7, <1>8, <1>9, <1>10, <1>11 DEF PriceStep

LEMMA FeatureStepKind ==
  ASSUME Base, NEW r \in Requests, FeatureStep(r)
  PROVE  CacheKind(r)
<1>0. Typed
  BY PlacedHere
<1>1. CASE SeeFeatures(r)
  <2>1. PICK pc \in {"dropFeatures", "addFeatures", "clearOthers", "write"} :
          Untouched /\ Goes(r, pc)
    BY <1>0, <1>1, SeeFeaturesStep
  <2> QED
    BY <2>1, GoesKind DEF Untouched, Clean, Ended
<1>2. CASE DropFeatures(r)
  <2>1. PICK pc \in {"addFeatures", "clearOthers", "write"} :
          UNCHANGED cached /\ request[r].pc = "dropFeatures" /\ Goes(r, pc)
    BY <1>0, <1>2, DropFeaturesStep DEF SetFeatures
  <2>2. Dirty(r)
    BY <2>1 DEF Dirty, Clean, Ended
  <2> QED
    BY <2>1, <2>2, GoesKind DEF Clean, Ended
<1>3. CASE AddFeatures(r)
  <2>1. /\ UNCHANGED cached /\ request[r].pc = "addFeatures"
        /\ Ends(r, "rejected") \/ Goes(r, "clear") \/ Goes(r, "reviveFeatures")
    BY <1>0, <1>3, AddFeaturesStep DEF SetFeatures
  <2>2. Dirty(r)
    BY <2>1 DEF Dirty, Clean, Ended
  <2> QED
    BY <2>1, <2>2, GoesKind, EndsKind DEF Clean, Ended
<1>4. CASE ReviveFeatures(r)
  <2>1. PICK pc \in {"clearOthers", "write"} :
          UNCHANGED cached /\ request[r].pc = "reviveFeatures" /\ Goes(r, pc)
    BY <1>0, <1>4, ReviveFeaturesStep DEF SetFeatures
  <2>2. Dirty(r)
    BY <2>1 DEF Dirty, Clean, Ended
  <2> QED
    BY <2>1, <2>2, GoesKind DEF Clean, Ended
<1> QED
  BY <1>1, <1>2, <1>3, <1>4 DEF FeatureStep

LEMMA PackageStepKind ==
  ASSUME Base, NEW r \in Requests, PackageStep(r)
  PROVE  CacheKind(r)
<1>0. Typed
  BY PlacedHere
<1>1. CASE FindPackage(r)
  <2>1. /\ Untouched
        /\ \/ /\ Goes(r, AfterFind(r))
              /\ AfterFind(r) \in {"delete", "see", "features", "clearOthers", "mark",
                                   "write"}
           \/ Ends(r, "rejected")
    BY <1>0, <1>1, FindPackageStep DEF AfterFind
  <2>2. CASE Ends(r, "rejected")
    BY <2>1, <2>2, EndsKind DEF Untouched
  <2>3. CASE ~Ends(r, "rejected")
    <3>1. AfterFind(r) \notin Clean
      BY <2>1, <2>3 DEF Clean, Ended
    <3> QED
      BY <2>1, <2>3, <3>1, GoesKind DEF Untouched
  <2> QED
    BY <2>2, <2>3
<1>2. CASE ClearOthers(r)
  <2>1. PICK pc \in {"create", "write", "mark"} :
          Goes(r, pc) /\ UNCHANGED cached /\ request[r].pc = "clearOthers"
    BY <1>0, <1>2, ClearOthersStep
  <2>2. Dirty(r) /\ pc \notin Clean
    BY <2>1 DEF Dirty, Clean, Ended
  <2> QED
    BY <2>1, <2>2, GoesKind
<1>3. CASE CreatePackage(r)
  <2>1. /\ UNCHANGED cached /\ request[r].pc = "create"
        /\ Goes(r, "check") \/ Ends(r, "rejected")
    BY <1>0, <1>3, CreatePackageStep
  <2>2. Dirty(r)
    BY <2>1 DEF Dirty, Clean, Ended
  <2> QED
    BY <2>1, <2>2, GoesKind, EndsKind DEF Clean, Ended
<1>4. CASE WritePackage(r)
  <2>1. /\ UNCHANGED cached /\ request[r].pc = "write"
        /\ Goes(r, "clear") \/ Ends(r, "rejected")
    BY <1>0, <1>4, WritePackageStep
  <2>2. Dirty(r)
    BY <2>1 DEF Dirty, Clean, Ended
  <2> QED
    BY <2>1, <2>2, GoesKind, EndsKind DEF Clean, Ended
<1>5. CASE MarkInitial(r)
  <2>1. /\ UNCHANGED cached /\ request[r].pc = "mark"
        /\ Goes(r, "clear") \/ Ends(r, "rejected")
    BY <1>0, <1>5, MarkInitialStep
  <2>2. Dirty(r)
    BY <2>1 DEF Dirty, Clean, Ended
  <2> QED
    BY <2>1, <2>2, GoesKind, EndsKind DEF Clean, Ended
<1>6. CASE DeletePackage(r)
  <2>1. Goes(r, "dropPrices") /\ UNCHANGED cached /\ request[r].pc = "delete"
    BY <1>0, <1>6, DeletePackageStep
  <2>2. Dirty(r)
    BY <2>1 DEF Dirty, Clean, Ended
  <2> QED
    BY <2>1, <2>2, GoesKind DEF Clean, Ended
<1>7. CASE DropPrices(r)
  <2>1. /\ UNCHANGED cached /\ request[r].pc = "dropPrices"
        /\ Goes(r, "dropConfigs") \/ Goes(r, "clearPrices")
    BY <1>0, <1>7, DropPricesStep
  <2>2. Dirty(r)
    BY <2>1 DEF Dirty, Clean, Ended
  <2> QED
    BY <2>1, <2>2, GoesKind DEF Clean, Ended
<1>8. CASE DropConfigs(r)
  <2>1. Goes(r, "clear") /\ UNCHANGED cached /\ UNCHANGED <<package, price, feature>>
    BY <1>0, <1>8, DropConfigsStep
  <2> QED
    BY <2>1, GoesKind DEF Clean, Ended
<1>9. CASE RestorePackage(r)
  <2>1. /\ UNCHANGED cached /\ request[r].pc = "restore"
        /\ Goes(r, "revive") \/ Goes(r, "restored") \/ Ends(r, "rejected")
    BY <1>0, <1>9, RestorePackageStep
  <2>2. Dirty(r)
    BY <2>1 DEF Dirty, Clean, Ended
  <2> QED
    BY <2>1, <2>2, GoesKind, EndsKind DEF Clean, Ended
<1>10. CASE FindRestored(r)
  <2>1. Untouched /\ (Goes(r, "revive") \/ Goes(r, "clear"))
    BY <1>0, <1>10, FindRestoredStep
  <2> QED
    BY <2>1, GoesKind DEF Untouched, Clean, Ended
<1>11. CASE RevivePrices(r)
  <2>1. Goes(r, "clearPrices") /\ UNCHANGED cached /\ request[r].pc = "revive"
    BY <1>0, <1>11, RevivePricesStep
  <2>2. Dirty(r)
    BY <2>1 DEF Dirty, Clean, Ended
  <2> QED
    BY <2>1, <2>2, GoesKind DEF Clean, Ended
<1>12. CASE ClearCache(r)
  <2>1. cached' = NoCopies /\ (Goes(r, "read") \/ Ends(r, "done"))
    BY <1>0, <1>12, ClearCacheStep
  <2> QED
    BY <2>1 DEF CacheKind, Goes, Ends
<1>13. CASE ReadPackage(r)
  <2>1. /\ Untouched /\ request[r].pc = "read" /\ JobsDone(r)
        /\ Reads(r, "record") \/ Ends(r, "rejected")
    BY <1>0, <1>13, ReadPackageStep, PlacedHere DEF Waiting
  <2> QED
    BY <2>1 DEF CacheKind, GoesOn, Reads, Ends, Dirty, Clean, Untouched
<1>14. CASE RecordHistory(r)
  <2>1. /\ UNCHANGED <<package, price, feature, cached>> /\ Ends(r, "done")
        /\ request[r].pc = "record" /\ JobsDone(r)
    BY <1>0, <1>14, RecordHistoryStep, PlacedHere DEF Waiting
  <2> QED
    BY <2>1 DEF CacheKind, GoesOn, Ends, Dirty, Clean
<1> QED
  BY <1>1, <1>2, <1>3, <1>4, <1>5, <1>6, <1>7, <1>8, <1>9, <1>10, <1>11, <1>12,
     <1>13, <1>14 DEF PackageStep

LEMMA ReadStepKind ==
  ASSUME Base, NEW r \in Requests, ReadStep(r)
  PROVE  CacheKind(r)
<1>0. Typed
  BY PlacedHere
<1>1. CASE ReadCache(r)
  <2>1. /\ Untouched /\ request[r].pc = "get" /\ JobsDone(r)
        /\ Goes(r, "fetch") \/ Ends(r, "done")
    BY <1>0, <1>1, ReadCacheStep, PlacedHere DEF Waiting
  <2> QED
    BY <2>1 DEF CacheKind, GoesOn, Goes, Ends, Dirty, Clean, Untouched
<1>2. CASE FetchPackage(r)
  <2>1. /\ Untouched /\ request[r].pc = "fetch" /\ JobsDone(r)
        /\ (Live(Package(r)) /\ Reads(r, "store")) \/ Ends(r, "rejected")
    BY <1>0, <1>2, FetchPackageStep, PlacedHere DEF Waiting
  <2> QED
    BY <2>1 DEF CacheKind, GoesOn, Reads, Ends, Dirty, Clean, Untouched
<1>3. CASE StoreCache(r)
  <2>1. Stores(r) /\ Ends(r, "done")
    BY <1>0, <1>3, StoreCacheStep DEF Stores
  <2> QED
    BY <2>1 DEF CacheKind, Ends
<1> QED
  BY <1>1, <1>2, <1>3 DEF ReadStep

LEMMA StepKind ==
  ASSUME Base, NEW r \in Requests, StepOf(r)
  PROVE  CacheKind(r)
BY PriceJobKind, PriceStepKind, FeatureStepKind, PackageStepKind, ReadStepKind
   DEF StepOf

LEMMA ArriveCache ==
  ASSUME Base, CacheInv, NEW r \in Requests, NEW p \in Packages, NEW ask \in Asks,
         Arrive(r, p, ask), Serial
  PROVE  CacheInv'
<1>0. /\ Untouched /\ request[r].pc = "idle" /\ Begins(r, p, ask) /\ ask \in Payloads
      /\ \A s \in Requests \ {r} : Stays(s)
  BY ArriveStep DEF Base
<1>1. request'[r].pc # "store" /\ ~Dirty(r) /\ request[r].pc # "rejected"
  BY <1>0, EntryFields DEF Begins, EntryPcs, Dirty, Clean, Base, Placed, PlacedAt,
     Waiting
<1>2. ASSUME NEW s \in Requests, request'[s].pc = "store"
      PROVE  Live(Package(s))' /\ request'[s].doc = {Document(Package(s))'}
  <2>1. s # r /\ Stays(s)
    BY <1>0, <1>1, <1>2
  <2>2. Live(Package(s)) /\ request[s].doc = {Document(Package(s))}
    BY <1>2, <2>1 DEF Stays, CacheInv
  <2>3. Package(s)' = Package(s) /\ UNCHANGED <<package, price, feature>>
    BY <1>0, <2>1 DEF Stays, Package, Untouched
  <2> QED
    BY <2>1, <2>2, <2>3, SameDocuments DEF Stays
<1>3. ASSUME NEW q \in Packages, NEW d \in cached'[q]
      PROVE  CopyFresh(q, d)' \/ Excused'
  <2>1. CopyFresh(q, d) \/ Excused
    BY <1>0, <1>3 DEF CacheInv, Untouched
  <2>2. CASE CopyFresh(q, d)
    BY <1>0, <2>2, SameDocuments DEF CopyFresh, Untouched
  <2>3. CASE Excused
    <3>1. PICK s \in Requests \ {r} : request[s].pc = "rejected" \/ Dirty(s)
      BY <1>1, <2>3 DEF Excused, Rejected
    <3>2. request'[s].pc = "rejected" \/ Dirty(s)'
      BY <1>0, <3>1 DEF Stays, Dirty, JobsDone
    <3> QED
      BY <3>1, <3>2 DEF Excused, Rejected
  <2> QED
    BY <2>1, <2>2, <2>3
<1> QED
  BY <1>2, <1>3 DEF CacheInv

LEMMA NextCache ==
  ASSUME Base, CacheInv, [Next]_vars
  PROVE  CacheInv'
<1>0. SUFFICES ASSUME Serial' PROVE CacheInv'
  BY DEF CacheInv
<1>s. Serial
  BY <1>0, NextBase
<1>1. ASSUME NEW r \in Requests, StepOf(r)
      PROVE  CacheInv'
  BY <1>s, <1>1, StepMoved, StepKind, CacheKept
<1>2. ASSUME NEW r \in Requests, NEW p \in Packages, NEW ask \in Asks,
             Arrive(r, p, ask)
      PROVE  CacheInv'
  BY <1>s, <1>2, ArriveCache
<1>3. CASE UNCHANGED vars
  <2>1. /\ UNCHANGED <<package, price, feature, cached, request>>
        /\ Excused' = Excused
        /\ \A r \in Requests : Package(r)' = Package(r)
    BY <1>3 DEF vars, Excused, Rejected, Dirty, JobsDone, Package
  <2>2. \A p, d : CopyFresh(p, d)' = CopyFresh(p, d)
    BY <2>1, SameDocuments DEF CopyFresh
  <2>3. \A r \in Requests : /\ Live(Package(r))' = Live(Package(r))
                             /\ Document(Package(r))' = Document(Package(r))
    BY <2>1 DEF Live, Document, Offer, LivePrices, LiveFeatures, Package
  <2> QED
    BY <1>s, <2>1, <2>2, <2>3 DEF CacheInv
<1> QED
  BY <1>1, <1>2, <1>3 DEF Next, StepOf

(* As long as requests come one after another, every public copy in the    *)
(* cache is the package as it is, unless a request was refused halfway:    *)
(* whatever a call writes, it clears the cache after its last write, and   *)
(* until then some request is still about to do so (CacheInv).             *)
THEOREM StaleExplained == Spec => []StaleOnlyAfterRejection
<1>1. Init => CacheInv
  <2>1. SUFFICES ASSUME Init PROVE CacheInv
    OBVIOUS
  <2>2. PICK q \in Packages : request = [r \in Requests |-> Fresh(q)]
    BY <2>1 DEF Init
  <2>3. \A r \in Requests : request[r].pc # "store"
    BY <2>2 DEF Fresh
  <2>4. \A p \in Packages : cached[p] = {}
    BY <2>1 DEF Init
  <2> QED
    BY <2>3, <2>4 DEF CacheInv
<1>2. Base /\ CacheInv /\ [Next]_vars => CacheInv'
  BY NextCache
<1>3. CacheInv => StaleOnlyAfterRejection
  <2>1. SUFFICES ASSUME CacheInv, Serial, Quiet, NEW p \in Packages, NEW d \in cached[p]
                 PROVE  (Live(p) /\ d = Document(p)) \/ Rejected # {}
    BY DEF StaleOnlyAfterRejection
  <2>2. \A r \in Requests : ~Dirty(r)
    BY <2>1 DEF Quiet, UnderWay, AtRest, Dirty, Clean
  <2> QED
    BY <2>1, <2>2 DEF CacheInv, CopyFresh, Excused
<1> QED
  BY <1>1, <1>2, <1>3, BaseInvariant, PTL DEF Spec

-----------------------------------------------------------------------------
(* Deletions. *)

Withdrawn(p) == package[p].state \in {"deleted", "gone"}

(* Steps that a request takes only with a package that is live. *)
NeedsLive(r) ==
  \/ request[r].pc \in {"see", "remove", "existing", "revive"}
  \/ request[r].pc = "check" /\ Call(r) \in WriteCalls
  \/ request[r].pc \in {"demoteAll", "insert"} /\ Call(r) # "createPackagePrices"

Cascading == {"dropPrices", "clearPrices", "dropConfigs"}

(* r is deleting p, and its configurations are left to do. *)
Deleting(r, p) ==
  Package(r) = p /\ Call(r) \in Deletions /\ request[r].pc \in Cascading

ConfigsGone(p) == p \notin configs \/ \E r \in Requests : Deleting(r, p)

PricesGone(p) ==
  \/ LivePrices(p) = {}
  \/ \E r \in Requests :
       /\ Package(r) = p
       /\ Call(r) = "createPackagePrices" \/ request[r].pc = "dropPrices"

CascadeInv ==
  Serial =>
    /\ \A p \in Packages : Withdrawn(p) => ConfigsGone(p) /\ PricesGone(p)
    /\ \A r \in Requests : NeedsLive(r) => Live(Package(r))

CascadeKind(r) ==
  /\ configs' \subseteq configs
  /\ \A p \in Packages : Withdrawn(p)' =>
       /\ Withdrawn(p) \/ (p = Package(r) /\ request'[r].pc = "dropPrices")
       /\ \/ LivePrices(p)' \subseteq LivePrices(p)
          \/ p = Package(r) /\ Call(r) = "createPackagePrices"
  /\ request[r].pc \in Cascading /\ Call(r) \in Deletions =>
       request'[r].pc \in Cascading \/ Package(r) \notin configs'
  /\ request[r].pc = "dropPrices" => LivePrices(Package(r))' = {}
  /\ NeedsLive(r)' => Live(Package(r))'

LEMMA SamePackage ==
  ASSUME NEW r \in Requests, Others(r)
  PROVE  /\ \A s \in Requests : Package(s)' = Package(s) /\ Call(s)' = Call(s)
         /\ \A s \in Requests \ {r} : request'[s].pc = request[s].pc
BY DEF Others, Package, Call

LEMMA CascadeKept ==
  ASSUME Base, CascadeInv, NEW r \in Requests, Steady(r), Moved(r), CascadeKind(r),
         Serial
  PROVE  CascadeInv'
<1>0. /\ \A s \in Requests : Package(s)' = Package(s) /\ Call(s)' = Call(s)
      /\ \A s \in Requests \ {r} : request'[s].pc = request[s].pc
  BY SamePackage DEF Steady
<1>1. ASSUME NEW s \in Requests, NeedsLive(s)'
      PROVE  Live(Package(s))'
  <2>1. s = r
    <3>1. \A q \in Requests \ {r} : request[q].pc \in Ended \cup {"idle"}
      BY Solo DEF Moved, AtRest
    <3>2. s # r => request'[s].pc \in Ended \cup {"idle"}
      BY <1>0, <3>1
    <3> QED
      BY <1>1, <3>2 DEF NeedsLive, Ended
  <2> QED
    BY <1>1, <2>1 DEF CascadeKind
<1>2. ASSUME NEW p \in Packages, Withdrawn(p)'
      PROVE  ConfigsGone(p)' /\ PricesGone(p)'
  <2>1. CASE p = Package(r) /\ request'[r].pc = "dropPrices"
    <3>1. Call(r) \in Deletions
      BY <2>1 DEF Moved, CallsAt
    <3>2. Deleting(r, p)'
      BY <1>0, <2>1, <3>1 DEF Deleting, Cascading
    <3> QED
      BY <1>0, <2>1, <3>2 DEF ConfigsGone, PricesGone
  <2>2. CASE Withdrawn(p)
    <3>1. ConfigsGone(p) /\ PricesGone(p)
      BY <2>2 DEF CascadeInv
    <3>2. ConfigsGone(p)'
      <4>1. CASE p \notin configs
        BY <4>1 DEF CascadeKind, ConfigsGone
      <4>2. CASE p \in configs
        <5>1. PICK s \in Requests : Deleting(s, p)
          BY <3>1, <4>2 DEF ConfigsGone
        <5>2. CASE s # r
          <6>1. Deleting(s, p)'
            BY <1>0, <5>1, <5>2 DEF Deleting
          <6> QED
            BY <6>1 DEF ConfigsGone
        <5>3. CASE s = r
          <6>1. request'[r].pc \in Cascading \/ p \notin configs'
            BY <5>1, <5>3 DEF Deleting, CascadeKind
          <6>2. request'[r].pc \in Cascading => Deleting(r, p)'
            BY <1>0, <5>1, <5>3 DEF Deleting
          <6> QED
            BY <6>1, <6>2 DEF ConfigsGone
        <5> QED
          BY <5>2, <5>3
      <4> QED
        BY <4>1, <4>2
    <3>3. PricesGone(p)'
      <4>1. CASE p = Package(r) /\ Call(r) = "createPackagePrices"
        BY <1>0, <4>1 DEF PricesGone
      <4>2. CASE LivePrices(p) = {} /\ LivePrices(p)' \subseteq LivePrices(p)
        BY <4>2 DEF PricesGone
      <4>3. ASSUME NEW s \in Requests, Package(s) = p,
                   Call(s) = "createPackagePrices" \/ request[s].pc = "dropPrices"
            PROVE  PricesGone(p)'
        <5>1. CASE Call(s) = "createPackagePrices" \/ s # r
          BY <1>0, <4>3, <5>1 DEF PricesGone
        <5>2. CASE s = r /\ request[s].pc = "dropPrices"
          <6>1. LivePrices(Package(r))' = {} /\ Package(r)' = p
            BY <1>0, <4>3, <5>2 DEF CascadeKind
          <6>2. LivePrices(p)' = {}
            BY <6>1 DEF LivePrices
          <6> QED
            BY <6>2 DEF PricesGone
        <5> QED
          BY <4>3, <5>1, <5>2
      <4> QED
        BY <1>2, <3>1, <4>1, <4>2, <4>3 DEF PricesGone, CascadeKind
    <3> QED
      BY <3>2, <3>3
  <2> QED
    BY <1>2, <2>1, <2>2 DEF CascadeKind
<1> QED
  BY <1>1, <1>2 DEF CascadeInv

(* Most steps: r is not deleting, and no package and no price comes back.  *)
LEMMA CascadeQuiet ==
  ASSUME NEW r \in Requests, Steady(r), package' = package, configs' = configs,
         \A p \in Packages : LivePrices(p)' \subseteq LivePrices(p),
         request[r].pc \notin Cascading \/ Call(r) \notin Deletions,
         request[r].pc # "dropPrices",
         NeedsLive(r)' => Live(Package(r))
  PROVE  CascadeKind(r)
<1>1. Package(r)' = Package(r)
  BY SamePackage DEF Steady
<1> QED
  BY <1>1 DEF CascadeKind, Withdrawn, Live

LEMMA SamePrices ==
  ASSUME price' = price
  PROVE  \A p \in Packages : LivePrices(p)' \subseteq LivePrices(p)
BY DEF LivePrices

Supported(r) == NeedsLive(r) => Live(Package(r))

LEMMA QuietAt ==
  ASSUME NEW r \in Requests, Steady(r), package' = package, configs' = configs,
         \A p \in Packages : LivePrices(p)' \subseteq LivePrices(p),
         request[r].pc \notin Cascading,
         request'[r].pc \notin {"see", "remove", "existing", "revive", "check",
                                "demoteAll", "insert"}
  PROVE  CascadeKind(r)
BY CascadeQuiet DEF NeedsLive, Cascading

LEMMA PriceJobCascade ==
  ASSUME Base, NEW r \in Requests, Supported(r), PriceJob(r)
  PROVE  CascadeKind(r)
<1>0. Typed /\ TypeOK
  BY PlacedHere
<1>1. PICK i \in Intervals :
        JobFind(r, i) \/ JobDemote(r, i) \/ JobWrite(r, i) \/ JobClear(r, i)
  BY DEF PriceJob
<1> DEFINE p == Package(r)
<1>p. p \in Packages
  BY <1>0, RequestFields DEF Package
<1>2. /\ Steady(r) /\ UNCHANGED <<package, configs>>
      /\ request[r].job[i].step # "idle"
      /\ request'[r].pc \in {request[r].pc, "rejected"}
      /\ \A q \in Packages : LivePrices(q)' \subseteq LivePrices(q)
  <2>1. CASE JobFind(r, i)
    BY <1>0, <2>1, JobFindStep, SamePrices DEF JobMoves, Untouched
  <2>2. CASE JobDemote(r, i)
    <3>1. /\ Steady(r) /\ UNCHANGED <<package, configs>>
          /\ request[r].job[i].step # "idle" /\ request'[r].pc = request[r].pc
          /\ \A q \in Packages \ {p} : price'[q] = price[q]
          /\ \A j \in Intervals : price'[p][j] =
               IF j = i THEN price[p][j] ELSE [price[p][j] EXCEPT !.is_initial = FALSE]
      BY <1>0, <2>2, JobDemoteStep DEF JobMoves, SetPrices, Package
    <3>2. \A j \in Intervals : price'[p][j].state = price[p][j].state
      <4>1. SUFFICES ASSUME NEW j \in Intervals
                     PROVE  price'[p][j].state = price[p][j].state
        OBVIOUS
      <4>2. price[p][j] \in PriceStates
        BY <1>0, <1>p, PriceFields
      <4> QED
        BY <3>1, <4>2, Demoted
    <3> QED
      BY <1>p, <3>1, <3>2 DEF LivePrices
  <2>3. CASE JobWrite(r, i)
    <3>1. /\ Steady(r) /\ UNCHANGED <<package, configs>>
          /\ request[r].job[i].step # "idle" /\ request'[r].pc = request[r].pc
          /\ \A q \in Packages \ {p} : price'[q] = price[q]
          /\ \A j \in Intervals : price'[p][j] =
               IF j = i THEN Rewritten(r, i) ELSE price[p][j]
      BY <1>0, <2>3, JobWriteStep DEF JobMoves, SetPrices, Package
    <3>2. Rewritten(r, i).state = "live" => price[p][i].state = "live"
      BY DEF Rewritten, Package
    <3> QED
      BY <1>p, <3>1, <3>2 DEF LivePrices
  <2>4. CASE JobClear(r, i)
    BY <1>0, <2>4, JobClearStep, SamePrices
  <2> QED
    BY <1>1, <2>1, <2>2, <2>3, <2>4
<1>3. request[r].pc \in Waiting \cup {"rejected"}
  BY <1>2, JobMoved
<1>4. NeedsLive(r)' => Live(Package(r))
  BY <1>2, <1>3 DEF NeedsLive, Waiting, Supported
<1>5. request[r].pc \notin Cascading
  BY <1>3 DEF Waiting, Cascading
<1> QED
  BY <1>2, <1>4, <1>5, CascadeQuiet DEF Cascading

LEMMA PriceStepCascade ==
  ASSUME Base, NEW r \in Requests, Supported(r), PriceStep(r)
  PROVE  CascadeKind(r)
<1>0. Typed /\ TypeOK /\ Call(r) \in CallsAt(request[r].pc)
  BY PlacedHere
<1>s. Steady(r) /\ \A s \in Requests : Call(s)' = Call(s)
  BY PriceStepMoved, SamePackage DEF Steady
<1>1. CASE SeePrices(r)
  <2>1. Untouched /\ request[r].pc = "see" /\ request'[r].pc = "remove"
    BY <1>0, <1>1, SeePricesStep DEF Starts
  <2> QED
    BY <1>s, <2>1, SamePrices, CascadeQuiet DEF Untouched, Supported, NeedsLive, Cascading
<1>2. CASE Removed(r)
  <2>1. Untouched /\ request[r].pc = "remove" /\ request'[r].pc \in {"check", "rewrite"}
    BY <1>0, <1>2, RemovedStep DEF Goes, Starts
  <2> QED
    BY <1>s, <2>1, SamePrices, CascadeQuiet DEF Untouched, Supported, NeedsLive, Cascading
<1>3. CASE CheckIntervals(r)
  <2>1. /\ Untouched /\ request[r].pc = "check"
        /\ request'[r].pc \in {"rejected", "package", "demoteAll", "insert"}
        /\ Call(r) = "createPackagePrice" => request'[r].pc \in {"rejected", "package"}
    BY <1>0, <1>3, CheckIntervalsStep DEF Ends
  <2>2. Call(r) \in WriteCalls \cup {"createPackagePrice"}
    BY <1>0, <2>1 DEF CallsAt
  <2> QED
    BY <1>s, <2>1, <2>2, SamePrices, CascadeQuiet
    DEF Untouched, Supported, NeedsLive, Cascading
<1>4. CASE CheckPackage(r)
  <2>1. /\ Untouched /\ request[r].pc = "package"
        /\ \/ Live(Package(r)) /\ request'[r].pc = "existing"
           \/ request'[r].pc = "rejected"
    BY <1>0, <1>4, CheckPackageStep DEF Goes, Ends
  <2> QED
    BY <1>s, <2>1, SamePrices, CascadeQuiet DEF Untouched, NeedsLive, Cascading
<1>5. CASE CheckExisting(r)
  <2>1. /\ Untouched /\ request[r].pc = "existing"
        /\ request'[r].pc \in {"demoteAll", "insert", "rejected"}
    BY <1>0, <1>5, CheckExistingStep DEF Goes, Ends
  <2> QED
    BY <1>s, <2>1, SamePrices, CascadeQuiet DEF Untouched, Supported, NeedsLive, Cascading
<1>6. CASE DemoteAll(r)
  <2> DEFINE p == Package(r)
  <2>1. /\ request[r].pc = "demoteAll" /\ request'[r].pc = "insert"
        /\ UNCHANGED <<package, configs>> /\ p \in Packages
        /\ \A q \in Packages \ {p} : price'[q] = price[q]
        /\ \A j \in Intervals :
             price'[p][j] = [price[p][j] EXCEPT !.is_initial = FALSE]
    BY <1>0, <1>6, DemoteAllStep, RequestFields DEF Goes, SetPrices, Package
  <2>2. \A j \in Intervals : price'[p][j].state = price[p][j].state
    <3>1. SUFFICES ASSUME NEW j \in Intervals
                   PROVE  price'[p][j].state = price[p][j].state
      OBVIOUS
    <3>2. price[p][j] \in PriceStates
      BY <1>0, <2>1, PriceFields
    <3> QED
      BY <2>1, <3>2, Demoted
  <2>3. \A q \in Packages : LivePrices(q)' \subseteq LivePrices(q)
    BY <2>1, <2>2 DEF LivePrices
  <2> HIDE DEF p
  <2> QED
    BY <1>s, <2>1, <2>3, CascadeQuiet DEF Supported, NeedsLive, Cascading
<1>7. CASE InsertPrices(r)
  <2>1. /\ request[r].pc = "insert" /\ request'[r].pc \in {"clearPrices", "rejected"}
        /\ UNCHANGED <<package, configs>>
        /\ \A q \in Packages \ {Package(r)} : price'[q] = price[q]
    BY <1>0, <1>7, InsertPricesStep DEF Goes, Ends, SetPrices, Package
  <2>2. Call(r) = "createPackagePrices" \/ Live(Package(r))
    BY <2>1 DEF Supported, NeedsLive
  <2>3. \A q \in Packages \ {Package(r)} : LivePrices(q)' \subseteq LivePrices(q)
    BY <2>1 DEF LivePrices
  <2>4. Live(Package(r)) => ~Withdrawn(Package(r))'
    BY <1>s, <2>1, SamePackage DEF Live, Withdrawn, Steady
  <2>5. ASSUME NEW q \in Packages, Withdrawn(q)'
        PROVE  /\ Withdrawn(q)
               /\ \/ LivePrices(q)' \subseteq LivePrices(q)
                  \/ q = Package(r) /\ Call(r) = "createPackagePrices"
    <3>1. Withdrawn(q)
      BY <2>1, <2>5 DEF Withdrawn
    <3>2. q = Package(r) => ~Live(q)
      BY <3>1 DEF Live, Withdrawn
    <3> QED
      BY <2>2, <2>3, <3>1, <3>2
  <2> QED
    BY <2>1, <2>5 DEF CascadeKind, NeedsLive, Cascading
<1>8. CASE ClearAfterPrices(r)
  <2>1. /\ UNCHANGED <<package, price, configs>> /\ request[r].pc = "clearPrices"
        /\ request'[r].pc \in {"addFeatures", "rewrite", "dropConfigs", "clear", "done"}
        /\ Call(r) = "deletePackage" => request'[r].pc = "dropConfigs"
    BY <1>0, <1>8, ClearAfterPricesStep DEF Goes, Starts, Ends, Restores
  <2>2. Call(r) \in Deletions => Call(r) = "deletePackage"
    BY <1>0, <2>1 DEF CallsAt, Deletions, Inserting, WriteCalls, Restores
  <2>3. \A p \in Packages : LivePrices(p)' \subseteq LivePrices(p)
    BY <2>1, SamePrices
  <2>4. \A p \in Packages : Withdrawn(p)' => Withdrawn(p)
    BY <2>1 DEF Withdrawn
  <2> QED
    BY <2>1, <2>2, <2>3, <2>4 DEF CascadeKind, NeedsLive, Cascading
<1>9. CASE Review(r)
  <2>1. Untouched /\ request[r].pc = "rewrite" /\ request'[r].pc = "elect"
    BY <1>0, <1>9, ReviewStep DEF Starts
  <2> QED
    BY <1>s, <2>1, SamePrices, QuietAt DEF Untouched, Cascading
<1>10. CASE Elected(r)
  <2>1. /\ Untouched /\ request[r].pc = "elect"
        /\ request'[r].pc \in {"features", "clearOthers", "write"}
    BY <1>0, <1>10, ElectedStep DEF Goes
  <2> QED
    BY <1>s, <2>1, SamePrices, QuietAt DEF Untouched, Cascading
<1>11. CASE PriceRouteDone(r)
  <2>1. Untouched /\ request[r].pc = "priceRoute" /\ request'[r].pc = "done"
    BY <1>0, <1>11, PriceRouteDoneStep DEF Ends
  <2> QED
    BY <1>s, <2>1, SamePrices, QuietAt DEF Untouched, Cascading
<1> QED
  BY <1>1, <1>2, <1>3, <1>4, <1>5, <1>6, <1>7, <1>8, <1>9, <1>10, <1>11 DEF PriceStep

LEMMA FeatureStepCascade ==
  ASSUME Base, NEW r \in Requests, FeatureStep(r)
  PROVE  CascadeKind(r)
<1>0. Typed /\ Steady(r)
  BY PlacedHere, FeatureStepMoved
<1>1. /\ UNCHANGED <<package, price, configs>>
      /\ request[r].pc \in {"features", "dropFeatures", "addFeatures", "reviveFeatures"}
      /\ request'[r].pc \in {"dropFeatures", "addFeatures", "reviveFeatures",
                             "clearOthers", "write", "clear", "rejected"}
  <2>1. CASE SeeFeatures(r)
    BY <1>0, <2>1, SeeFeaturesStep DEF Goes, Untouched
  <2>2. CASE DropFeatures(r)
    BY <1>0, <2>2, DropFeaturesStep DEF Goes, SetFeatures
  <2>3. CASE AddFeatures(r)
    BY <1>0, <2>3, AddFeaturesStep DEF Goes, Ends, SetFeatures
  <2>4. CASE ReviveFeatures(r)
    BY <1>0, <2>4, ReviveFeaturesStep DEF Goes, SetFeatures
  <2> QED
    BY <2>1, <2>2, <2>3, <2>4 DEF FeatureStep
<1> QED
  BY <1>0, <1>1, SamePrices, QuietAt DEF Cascading

LEMMA ReadStepCascade ==
  ASSUME Base, NEW r \in Requests, ReadStep(r)
  PROVE  CascadeKind(r)
<1>0. Typed /\ Steady(r)
  BY PlacedHere, ReadStepMoved
<1>1. /\ UNCHANGED <<package, price, configs>>
      /\ request[r].pc \in {"get", "fetch", "store"}
      /\ request'[r].pc \in {"fetch", "store", "done", "rejected"}
  <2>1. CASE ReadCache(r)
    BY <1>0, <2>1, ReadCacheStep DEF Goes, Ends, Untouched
  <2>2. CASE FetchPackage(r)
    BY <1>0, <2>2, FetchPackageStep DEF Reads, Ends, Untouched
  <2>3. CASE StoreCache(r)
    BY <1>0, <2>3, StoreCacheStep DEF Ends
  <2> QED
    BY <2>1, <2>2, <2>3 DEF ReadStep
<1> QED
  BY <1>0, <1>1, SamePrices, QuietAt DEF Cascading

(* A step at which r writes its package and no price. *)
LEMMA CascadeWrites ==
  ASSUME NEW r \in Requests, Steady(r), configs' = configs, price' = price,
         \A p \in Packages : Withdrawn(p)' =>
           Withdrawn(p) \/ (p = Package(r) /\ request'[r].pc = "dropPrices"),
         request[r].pc \notin Cascading,
         NeedsLive(r)' => Live(Package(r))'
  PROVE  CascadeKind(r)
BY SamePrices DEF CascadeKind, Cascading

LEMMA SetWithdrawn ==
  ASSUME NEW r \in Requests, NEW doc, SetPackage(r, doc), Package(r)' = Package(r)
  PROVE  /\ \A p \in Packages : Withdrawn(p)' => Withdrawn(p) \/ p = Package(r)
         /\ doc.state = package[Package(r)].state =>
              \A p \in Packages : Withdrawn(p)' => Withdrawn(p)
         /\ doc.state = "live" =>
              /\ \A p \in Packages : Withdrawn(p)' => Withdrawn(p)
              /\ Live(Package(r))'
BY DEF SetPackage, Withdrawn, Live

LEMMA PackageStepCascade ==
  ASSUME Base, NEW r \in Requests, Supported(r), PackageStep(r)
  PROVE  CascadeKind(r)
<1>0. Typed /\ TypeOK /\ Call(r) \in CallsAt(request[r].pc) /\ Package(r) \in Packages
  BY PlacedHere, RequestFields DEF Package
<1>s. /\ Steady(r) /\ \A s \in Requests : Call(s)' = Call(s) /\ Package(s)' = Package(s)
  BY PackageStepMoved, SamePackage DEF Steady
<1>1. CASE FindPackage(r)
  <2>1. /\ Untouched /\ request[r].pc = "find"
        /\ \/ FoundIt(r) /\ request'[r].pc = AfterFind(r)
           \/ request'[r].pc = "rejected"
    BY <1>0, <1>1, FindPackageStep DEF Goes, Ends
  <2>2. AfterFind(r) \in {"delete", "see", "features", "clearOthers", "mark", "write"}
    BY DEF AfterFind
  <2>3. FoundIt(r) /\ AfterFind(r) = "see" => Live(Package(r))
    BY <2>1, FoundMoves DEF FoundIt, Deletions
  <2>4. NeedsLive(r)' => Live(Package(r))
    BY <2>1, <2>2, <2>3 DEF NeedsLive
  <2> QED
    BY <1>s, <2>1, <2>4, SamePrices, CascadeQuiet DEF Untouched, Cascading
<1>2. CASE ClearOthers(r)
  <2>1. /\ UNCHANGED <<price, configs>> /\ request[r].pc = "clearOthers"
        /\ request'[r].pc \in {"create", "write", "mark"}
        /\ \A p \in Packages : package'[p].state = package[p].state
    BY <1>0, <1>2, ClearOthersStep DEF Goes
  <2> QED
    BY <1>s, <2>1, CascadeWrites DEF Withdrawn, NeedsLive, Cascading
<1>3. CASE CreatePackage(r)
  <2>1. UNCHANGED <<price, configs>> /\ request[r].pc = "create"
    BY <1>0, <1>3, CreatePackageStep
  <2>2. CASE request'[r].pc = "rejected" /\ package' = package
    BY <1>s, <2>1, <2>2, CascadeWrites DEF Withdrawn, NeedsLive, Cascading
  <2>3. CASE ~(request'[r].pc = "rejected" /\ package' = package)
    <3>1. PICK doc : doc.state = "live" /\ SetPackage(r, doc)
      <4> DEFINE doc == [state |-> "live", is_initial |-> request[r].ask.initial = "yes",
                         version |-> 1]
      <4>1. SetPackage(r, doc)
        BY <1>0, <1>3, <2>3, CreatePackageStep DEF Ends
      <4>2. doc.state = "live"
        OBVIOUS
      <4> HIDE DEF doc
      <4> QED
        BY <4>1, <4>2
    <3>2. Live(Package(r))' /\ \A p \in Packages : Withdrawn(p)' => Withdrawn(p)
      BY <1>s, <3>1, SetWithdrawn
    <3> QED
      BY <1>s, <2>1, <3>2, CascadeWrites DEF Cascading
  <2> QED
    BY <2>2, <2>3
<1>4. CASE WritePackage(r)
  <2>1. /\ UNCHANGED <<price, configs>> /\ request[r].pc = "write"
        /\ request'[r].pc \in {"clear", "rejected"}
        /\ \/ package' = package
           \/ \E doc \in PackageStates : SetPackage(r, doc) /\ doc.state = "live"
    BY <1>0, <1>4, WritePackageStep DEF Goes, Ends
  <2>2. \A p \in Packages : Withdrawn(p)' => Withdrawn(p)
    BY <1>s, <2>1, SetWithdrawn DEF Withdrawn
  <2> QED
    BY <1>s, <2>1, <2>2, CascadeWrites DEF NeedsLive, Cascading
<1>5. CASE MarkInitial(r)
  <2>1. /\ UNCHANGED <<price, configs>> /\ request[r].pc = "mark"
        /\ request'[r].pc \in {"clear", "rejected"}
        /\ \/ package' = package
           \/ \E doc \in PackageStates :
                SetPackage(r, doc) /\ doc.state = package[Package(r)].state
    BY <1>0, <1>5, MarkInitialStep DEF Goes, Ends
  <2>2. \A p \in Packages : Withdrawn(p)' => Withdrawn(p)
    BY <1>s, <2>1, SetWithdrawn DEF Withdrawn
  <2> QED
    BY <1>s, <2>1, <2>2, CascadeWrites DEF NeedsLive, Cascading
<1>6. CASE DeletePackage(r)
  <2>1. /\ UNCHANGED <<price, configs>> /\ request[r].pc = "delete"
        /\ request'[r].pc = "dropPrices"
        /\ \E doc \in PackageStates : SetPackage(r, doc)
    BY <1>0, <1>6, DeletePackageStep DEF Goes
  <2>2. \A p \in Packages : Withdrawn(p)' => Withdrawn(p) \/ p = Package(r)
    BY <1>s, <2>1, SetWithdrawn
  <2> QED
    BY <1>s, <2>1, <2>2, CascadeWrites DEF NeedsLive, Cascading
<1>7. CASE DropPrices(r)
  <2>1. /\ UNCHANGED <<package, configs>> /\ request[r].pc = "dropPrices"
        /\ request'[r].pc \in {"dropConfigs", "clearPrices"}
        /\ \A p \in Packages \ {Package(r)} : price'[p] = price[p]
        /\ \A i \in Intervals : price'[Package(r)][i].state # "live"
    BY <1>0, <1>7, DropPricesStep DEF Goes
  <2>2. LivePrices(Package(r))' = {}
    BY <1>s, <2>1 DEF LivePrices
  <2>3. \A p \in Packages : LivePrices(p)' \subseteq LivePrices(p)
    BY <2>1 DEF LivePrices
  <2>4. \A p \in Packages : Withdrawn(p)' => Withdrawn(p)
    BY <2>1 DEF Withdrawn
  <2> QED
    BY <2>1, <2>2, <2>3, <2>4 DEF CascadeKind, NeedsLive, Cascading
<1>8. CASE DropConfigs(r)
  <2>1. /\ UNCHANGED <<package, price>> /\ request[r].pc = "dropConfigs"
        /\ request'[r].pc = "clear" /\ configs' = configs \ {Package(r)}
    BY <1>0, <1>8, DropConfigsStep DEF Goes
  <2>2. \A p \in Packages : Withdrawn(p)' => Withdrawn(p)
    BY <2>1 DEF Withdrawn
  <2> QED
    BY <2>1, <2>2, SamePrices DEF CascadeKind, NeedsLive, Cascading
<1>9. CASE RestorePackage(r)
  <2>1. /\ UNCHANGED <<price, configs>> /\ request[r].pc = "restore"
        /\ \/ request'[r].pc \in {"restored", "rejected"} /\ package' = package
           \/ /\ request'[r].pc \in {"revive", "restored"}
              /\ \E doc \in PackageStates : SetPackage(r, doc) /\ doc.state = "live"
    BY <1>0, <1>9, RestorePackageStep DEF Goes, Ends
  <2>2. CASE request'[r].pc \in {"restored", "rejected"} /\ package' = package
    BY <1>s, <2>1, <2>2, CascadeWrites DEF Withdrawn, NeedsLive, Cascading
  <2>3. CASE \E doc \in PackageStates : SetPackage(r, doc) /\ doc.state = "live"
    <3>1. Live(Package(r))' /\ \A p \in Packages : Withdrawn(p)' => Withdrawn(p)
      BY <1>s, <2>3, SetWithdrawn
    <3> QED
      BY <1>s, <2>1, <3>1, CascadeWrites DEF Cascading
  <2> QED
    BY <2>1, <2>2, <2>3
<1>10. CASE FindRestored(r)
  <2>1. /\ Untouched /\ request[r].pc = "restored"
        /\ \/ Live(Package(r)) /\ request'[r].pc = "revive"
           \/ request'[r].pc = "clear"
    BY <1>0, <1>10, FindRestoredStep DEF Goes
  <2> QED
    BY <1>s, <2>1, SamePrices, CascadeQuiet DEF Untouched, NeedsLive, Cascading
<1>11. CASE RevivePrices(r)
  <2>1. /\ UNCHANGED <<package, configs>> /\ request[r].pc = "revive"
        /\ request'[r].pc = "clearPrices"
        /\ \A p \in Packages \ {Package(r)} : price'[p] = price[p]
    BY <1>0, <1>11, RevivePricesStep DEF Goes
  <2>l. Live(Package(r))
    BY <2>1 DEF Supported, NeedsLive
  <2>2. ASSUME NEW p \in Packages, Withdrawn(p)'
        PROVE  Withdrawn(p) /\ LivePrices(p)' \subseteq LivePrices(p)
    <3>1. Withdrawn(p) /\ p # Package(r)
      BY <2>l, <2>1, <2>2 DEF Withdrawn, Live
    <3> QED
      BY <2>1, <3>1 DEF LivePrices
  <2> QED
    BY <2>1, <2>2 DEF CascadeKind, NeedsLive, Cascading
<1>12. CASE ClearCache(r)
  <2>1. /\ UNCHANGED <<package, price, configs>> /\ request[r].pc = "clear"
        /\ request'[r].pc \in {"read", "done"}
    BY <1>0, <1>12, ClearCacheStep DEF Goes, Ends
  <2> QED
    BY <1>s, <2>1, SamePrices, QuietAt DEF Cascading
<1>13. CASE ReadPackage(r)
  <2>1. /\ Untouched /\ request[r].pc = "read"
        /\ request'[r].pc \in {"record", "rejected"}
    BY <1>0, <1>13, ReadPackageStep DEF Reads, Ends
  <2> QED
    BY <1>s, <2>1, SamePrices, QuietAt DEF Untouched, Cascading
<1>14. CASE RecordHistory(r)
  <2>1. /\ UNCHANGED <<package, price, configs>> /\ request[r].pc = "record"
        /\ request'[r].pc = "done"
    BY <1>0, <1>14, RecordHistoryStep DEF Ends
  <2> QED
    BY <1>s, <2>1, SamePrices, QuietAt DEF Cascading
<1> QED
  BY <1>1, <1>2, <1>3, <1>4, <1>5, <1>6, <1>7, <1>8, <1>9, <1>10, <1>11, <1>12,
     <1>13, <1>14 DEF PackageStep

LEMMA StepCascade ==
  ASSUME Base, NEW r \in Requests, Supported(r), StepOf(r)
  PROVE  CascadeKind(r)
BY PriceJobCascade, PriceStepCascade, FeatureStepCascade, PackageStepCascade,
   ReadStepCascade DEF StepOf

(* What stays of the others when a request arrives. *)
LEMMA Stayed ==
  ASSUME NEW s, Stays(s)
  PROVE  /\ Package(s)' = Package(s) /\ Call(s)' = Call(s)
         /\ request'[s].pc = request[s].pc /\ JobsDone(s)' = JobsDone(s)
         /\ AtRest(s)' = AtRest(s)
BY DEF Stays, Package, Call, JobsDone, AtRest

LEMMA ArriveCascade ==
  ASSUME Base, CascadeInv, NEW r \in Requests, NEW p \in Packages, NEW ask \in Asks,
         Arrive(r, p, ask), Serial
  PROVE  CascadeInv'
<1>0. /\ Untouched /\ request[r].pc = "idle" /\ Begins(r, p, ask) /\ ask \in Payloads
      /\ \A s \in Requests \ {r} : Stays(s)
      /\ Call(r) \in CallsAt(request[r].pc)
  BY ArriveStep, PlacedHere DEF Base
<1>1. /\ request[r].pc = "idle" /\ Call(r) = "getPublicPackage"
  BY <1>0 DEF CallsAt
<1>2. ~NeedsLive(r)'
  <2>1. Call(r)' = ask.call
    BY <1>0 DEF Begins, Call
  <2>2. CASE ask.call = "createPackagePrices"
    <3>1. request'[r].pc \in {"insert", "demoteAll"}
      BY <1>0, <2>2, EntryPlaced DEF Begins
    <3> QED
      BY <2>1, <2>2, <3>1 DEF NeedsLive
  <2>3. CASE ask.call # "createPackagePrices"
    <3>1. request'[r].pc = Entry(ask.call, ask.initial)
      BY <1>0, <2>3 DEF Begins
    <3>2. Entry(ask.call, ask.initial) \in EntryPcs
      BY <1>0, EntryFields
    <3>3. ask.call \in CallsAt(Entry(ask.call, ask.initial))
      BY <1>0, EntryPlaced
    <3>4. CASE Entry(ask.call, ask.initial) = "check"
      <4>1. ask.call \notin WriteCalls
        BY <3>4 DEF Entry, WriteCalls, Restores, Deletions
      <4> QED
        BY <2>1, <3>1, <3>4, <4>1 DEF NeedsLive
    <3>5. CASE Entry(ask.call, ask.initial) = "demoteAll"
      <4>1. ask.call \in Inserting
        BY <3>3, <3>5 DEF CallsAt
      <4>2. ask.call = "createPackagePrices"
        BY <3>5, <4>1 DEF Entry, Inserting, WriteCalls, Restores, Deletions
      <4> QED
        BY <2>3, <4>2
    <3> QED
      BY <3>1, <3>2, <3>4, <3>5 DEF EntryPcs, NeedsLive
  <2> QED
    BY <2>2, <2>3
<1>3. ASSUME NEW s \in Requests, NeedsLive(s)'
      PROVE  Live(Package(s))'
  <2>1. s # r /\ Stays(s)
    BY <1>0, <1>2, <1>3
  <2>2. NeedsLive(s)
    BY <1>3, <2>1, Stayed DEF NeedsLive
  <2>3. Live(Package(s))
    BY <2>2 DEF CascadeInv
  <2> QED
    BY <1>0, <2>1, <2>3, Stayed DEF Live, Untouched
<1>4. ASSUME NEW q \in Packages, Withdrawn(q)'
      PROVE  ConfigsGone(q)' /\ PricesGone(q)'
  <2>1. Withdrawn(q)
    BY <1>0, <1>4 DEF Withdrawn, Untouched
  <2>2. ConfigsGone(q) /\ PricesGone(q)
    BY <2>1 DEF CascadeInv
  <2>3. ConfigsGone(q)'
    <3>1. CASE q \notin configs
      BY <1>0, <3>1 DEF ConfigsGone, Untouched
    <3>2. CASE q \in configs
      <4>1. PICK s \in Requests : Deleting(s, q)
        BY <2>2, <3>2 DEF ConfigsGone
      <4>2. s # r
        BY <1>1, <4>1 DEF Deleting, Deletions
      <4>3. Deleting(s, q)'
        BY <1>0, <4>1, <4>2, Stayed DEF Deleting
      <4> QED
        BY <4>3 DEF ConfigsGone
    <3> QED
      BY <3>1, <3>2
  <2>4. PricesGone(q)'
    <3>1. CASE LivePrices(q) = {}
      BY <1>0, <3>1 DEF PricesGone, LivePrices, Untouched
    <3>2. CASE LivePrices(q) # {}
      <4>1. PICK s \in Requests :
              /\ Package(s) = q
              /\ Call(s) = "createPackagePrices" \/ request[s].pc = "dropPrices"
        BY <2>2, <3>2 DEF PricesGone
      <4>2. s # r
        BY <1>1, <4>1
      <4> QED
        BY <1>0, <4>1, <4>2, Stayed DEF PricesGone
    <3> QED
      BY <3>1, <3>2
  <2> QED
    BY <2>3, <2>4
<1> QED
  BY <1>3, <1>4 DEF CascadeInv

LEMMA NextCascade ==
  ASSUME Base, CascadeInv, [Next]_vars
  PROVE  CascadeInv'
<1>0. SUFFICES ASSUME Serial' PROVE CascadeInv'
  BY DEF CascadeInv
<1>s. Serial
  BY <1>0, NextBase
<1>1. ASSUME NEW r \in Requests, StepOf(r)
      PROVE  CascadeInv'
  <2>1. Supported(r)
    BY <1>s DEF CascadeInv, Supported
  <2> QED
    BY <1>s, <1>1, <2>1, StepMoved, StepCascade, CascadeKept
<1>2. ASSUME NEW r \in Requests, NEW p \in Packages, NEW ask \in Asks,
             Arrive(r, p, ask)
      PROVE  CascadeInv'
  BY <1>s, <1>2, ArriveCascade
<1>3. CASE UNCHANGED vars
  <2>1. UNCHANGED <<package, price, configs, request>>
    BY <1>3 DEF vars
  <2>2. \A p \in Packages : /\ Withdrawn(p)' = Withdrawn(p)
                            /\ ConfigsGone(p)' = ConfigsGone(p)
                            /\ PricesGone(p)' = PricesGone(p)
    BY <2>1 DEF Withdrawn, ConfigsGone, PricesGone, Deleting, Package, Call, LivePrices
  <2>3. \A r \in Requests : /\ NeedsLive(r)' = NeedsLive(r)
                            /\ Live(Package(r))' = Live(Package(r))
    BY <2>1 DEF NeedsLive, Live, Package, Call
  <2> QED
    BY <1>s, <2>2, <2>3 DEF CascadeInv
<1> QED
  BY <1>1, <1>2, <1>3 DEF Next, StepOf

(* As long as requests come one after another, a deleted package has no    *)
(* configurations left when nothing is under way, and no price for sale    *)
(* but one that createPackagePrices has put there: all others that insert  *)
(* or bring back prices have found the package live, and until the prices  *)
(* and configurations are gone its deletion is under way (CascadeInv).     *)
THEOREM DeletionsCascade == Spec => []DeletionCascades
<1>1. Init => CascadeInv
  <2>1. SUFFICES ASSUME Init PROVE CascadeInv
    OBVIOUS
  <2>2. PICK q \in Packages : request = [r \in Requests |-> Fresh(q)]
    BY <2>1 DEF Init
  <2>3. \A r \in Requests : request[r].pc = "idle"
    BY <2>2 DEF Fresh
  <2>4. \A p \in Packages : package[p].state \in {"live", "none"}
    BY <2>1 DEF Init
  <2> QED
    BY <2>3, <2>4 DEF CascadeInv, Withdrawn, NeedsLive
<1>2. Base /\ CascadeInv /\ [Next]_vars => CascadeInv'
  BY NextCascade
<1>3. CascadeInv => DeletionCascades
  <2>1. SUFFICES ASSUME CascadeInv, Serial, Quiet, NEW p \in Packages,
                        package[p].state \in {"deleted", "gone"}
                 PROVE  /\ p \notin configs
                        /\ \A i \in LivePrices(p) :
                             \E r \in Requests : /\ Call(r) = "createPackagePrices"
                                                 /\ Package(r) = p
    BY DEF DeletionCascades, Call, Package
  <2>2. \A r \in Requests : request[r].pc \in Ended \cup {"idle"}
    BY <2>1 DEF Quiet, UnderWay, AtRest
  <2>3. \A r \in Requests : request[r].pc \notin Cascading
    BY <2>2 DEF Cascading, Ended
  <2>4. ConfigsGone(p) /\ PricesGone(p)
    BY <2>1 DEF CascadeInv, Withdrawn
  <2> QED
    BY <2>3, <2>4 DEF ConfigsGone, PricesGone, Deleting, Cascading
<1> QED
  BY <1>1, <1>2, <1>3, BaseInvariant, PTL DEF Spec

-----------------------------------------------------------------------------
(* Snapshots and offers. *)

Selling == WriteCalls \cup PriceCalls \cup Restores

(* The newest row of p shows what is offered. *)
Matches(p) ==
  LET last == Len(history[p])
  IN /\ last > 0
     /\ history[p][last].version = package[p].version
     /\ history[p][last].offer = Offer(p)

(* What explains that p is offered with something that was never sold. *)
Explained(p) ==
  \E r \in Requests :
    /\ Package(r) = p
    /\ \/ Call(r) \in PriceCalls \cup Restores
       \/ request[r].pc = "rejected"
       \/ Call(r) \in WriteCalls /\ request[r].pc \notin Ended

(* Of a request that is or was alone. *)
RecordInv ==
  \A r \in Requests : request[r].alone =>
    /\ request[r].pc = "record" => request[r].doc = {Document(Package(r))}
    /\ Succeeded(r, WriteCalls) => Matches(Package(r))

OfferInv ==
  Serial =>
    /\ \A p \in Packages : Live(p) => Explained(p) \/ Matches(p)
    /\ \A r \in Requests : request[r].pc = "dropPrices" => ~Live(Package(r))

LEMMA SnapshotNewest ==
  ASSUME Typed, NEW p \in Packages, Matches(p)
  PROVE  history[p] # <<>> /\ Snapshot(p).offer = Offer(p)
<1> DEFINE last == Len(history[p])
           same == {n \in DOMAIN history[p] : history[p][n].version = package[p].version}
<1>1. history[p] \in Seq(Entries)
  BY DEF Typed
<1>2. /\ last \in Nat /\ last > 0 /\ DOMAIN history[p] = 1 .. last
      /\ history[p][last].version = package[p].version
      /\ history[p][last].offer = Offer(p)
  BY <1>1 DEF Matches
<1>3. last \in same /\ \A n \in same : n \in Int /\ n <= last
  BY <1>2
<1>4. \A n \in same : (\A k \in same : k <= n) <=> n = last
  BY <1>2, <1>3
<1>5. (CHOOSE n \in same : \A k \in same : k <= n) = last
  BY <1>3, <1>4
<1>6. same # {}
  BY <1>3
<1> HIDE DEF last, same
<1>7. Newest(p, same) = history[p][last]
  BY <1>5 DEF Newest
<1>8. Snapshot(p) = Newest(p, same)
  BY <1>6 DEF Snapshot, same
<1>9. history[p] # <<>>
  BY <1>1, <1>2 DEF last
<1> QED
  BY <1>2, <1>7, <1>8, <1>9

Unaffected(p) ==
  /\ Live(p)' => Live(p)
  /\ package'[p].version = package[p].version
  /\ Offer(p)' = Offer(p) /\ history'[p] = history[p]

SaleKind(r) ==
  /\ request'[r].pc = "record" => Untouched /\ request'[r].doc = {Document(Package(r))}
  /\ request'[r].pc = "done" /\ Call(r) \in WriteCalls => RecordHistory(r)
  /\ \A p \in Packages \ {Package(r)} : Unaffected(p)
  /\ Call(r) \notin Selling =>
       \A p \in Packages : p = Package(r) =>
         \/ request'[r].pc = "rejected" \/ ~Live(p)' \/ Unaffected(p)
         \/ request[r].pc = "dropPrices" /\ package' = package
  /\ request'[r].pc = "dropPrices" => ~Live(Package(r))'
  /\ request[r].pc = "rejected" => request'[r].pc = "rejected"

LEMMA UnaffectedMatches ==
  ASSUME NEW p, Unaffected(p), Matches(p)
  PROVE  Matches(p)'
BY DEF Unaffected, Matches

LEMMA SameOffer ==
  ASSUME NEW p, price'[p] = price[p], feature'[p] = feature[p]
  PROVE  Offer(p)' = Offer(p)
BY DEF Offer, LivePrices, LiveFeatures

(* RecordHistory records what it has read, that is what there is. *)
LEMMA RecordedMatches ==
  ASSUME Typed, NEW r \in Requests, RecordHistory(r),
         request[r].doc = {Document(Package(r))}
  PROVE  Matches(Package(r))'
<1>1. /\ Steady(r) /\ UNCHANGED <<package, price, feature>>
      /\ Records(r, [version |-> Document(Package(r)).version,
                     offer |-> Document(Package(r)).offer])
  BY RecordHistoryStep
<1>2. Package(r) \in Packages /\ Package(r)' = Package(r)
  BY <1>1, RequestFields, SamePackage DEF Typed, Package, Steady
<1>3. ASSUME NEW p \in Packages, p = Package(r)
      PROVE  Matches(p)'
  <2> DEFINE row == [version |-> package[p].version, offer |-> Offer(p)]
  <2>1. row = [version |-> Document(p).version, offer |-> Document(p).offer]
    BY DEF Document
  <2>2. row \in Entries
    <3>1. Document(p) \in Documents
      BY DocumentTyped DEF Typed
    <3> QED
      BY <2>1, <3>1 DEF Documents, Entries
  <2>3. row.version = package[p].version /\ row.offer = Offer(p)
    OBVIOUS
  <2> HIDE DEF row
  <2>4. history'[p] = Append(history[p], row) /\ history[p] \in Seq(Entries)
    BY <1>1, <1>3, <2>1 DEF Records, Typed
  <2>5. Len(history'[p]) > 0 /\ history'[p][Len(history'[p])] = row
    BY <2>2, <2>4
  <2>6. package'[p].version = package[p].version /\ Offer(p)' = Offer(p)
    BY <1>1, SameOffer
  <2> QED
    BY <2>3, <2>5, <2>6 DEF Matches
<1> QED
  BY <1>2, <1>3 DEF Matches

LEMMA RecordKept ==
  ASSUME Base, RecordInv, NEW r \in Requests, Steady(r), Moved(r), SaleKind(r)
  PROVE  RecordInv'
<1>0. /\ \A s \in Requests : Package(s)' = Package(s) /\ Call(s)' = Call(s)
      /\ \A s \in Requests \ {r} : request'[s] = request[s]
      /\ request'[r].alone = request[r].alone /\ latest' = latest
  BY SamePackage DEF Steady, Others
<1>1. ~AtRest(r)
  BY DEF Moved
<1>2. SUFFICES ASSUME NEW s \in Requests, request'[s].alone
               PROVE  /\ request'[s].pc = "record" =>
                           request'[s].doc = {Document(Package(s))'}
                      /\ Succeeded(s, WriteCalls)' => Matches(Package(s))'
  BY DEF RecordInv
<1>3. CASE s # r
  <2>1. s \notin latest
    BY <1>0, <1>1, <1>2, <1>3 DEF Base, Exclusive
  <2>2. AtRest(s)
    BY <1>0, <1>2, <1>3, <2>1 DEF Base, Exclusive
  <2>3. request'[s].pc # "record"
    BY <1>0, <1>3, <2>2 DEF AtRest, Ended
  <2>4. ~Succeeded(s, WriteCalls)'
    BY <1>0, <2>1 DEF Succeeded
  <2> QED
    BY <2>3, <2>4
<1>4. CASE s = r
  <2>1. ASSUME request'[r].pc = "record"
        PROVE  request'[r].doc = {Document(Package(r))'}
    <3>1. Untouched /\ request'[r].doc = {Document(Package(r))}
      BY <2>1 DEF SaleKind
    <3>2. Document(Package(r))' = Document(Package(r))
      BY <1>0, <3>1, SameDocuments DEF Untouched
    <3> QED
      BY <3>1, <3>2
  <2>2. ASSUME Succeeded(r, WriteCalls)'
        PROVE  Matches(Package(r))'
    <3>1. request'[r].pc = "done" /\ Call(r) \in WriteCalls
      BY <1>0, <2>2 DEF Succeeded, Call
    <3>2. RecordHistory(r)
      BY <3>1 DEF SaleKind
    <3>3. request[r].doc = {Document(Package(r))}
      BY <1>0, <1>2, <1>4, <3>2 DEF RecordInv, RecordHistory
    <3> QED
      BY <3>2, <3>3, RecordedMatches DEF Base
  <2> QED
    BY <1>4, <2>1, <2>2
<1> QED
  BY <1>3, <1>4

(* Steps of r that leave its package, its rows and its history alone. *)
LEMMA SaleSame ==
  ASSUME NEW r \in Requests, Steady(r),
         UNCHANGED <<package, price, feature, history>>,
         request'[r].pc \notin {"record", "dropPrices"},
         request'[r].pc = "done" => Call(r) \notin WriteCalls,
         request[r].pc = "rejected" => request'[r].pc = "rejected"
  PROVE  SaleKind(r)
<1>1. Package(r)' = Package(r)
  BY SamePackage DEF Steady
<1>2. \A p : Unaffected(p)
  BY SameDocuments DEF Unaffected
<1> QED
  BY <1>1, <1>2 DEF SaleKind, Live

(* Steps of a call that may change what is for sale. *)
LEMMA SaleOwn ==
  ASSUME NEW r \in Requests, Steady(r), history' = history,
         \A p \in Packages \ {Package(r)} :
           /\ price'[p] = price[p] /\ feature'[p] = feature[p]
           /\ package'[p].state = package[p].state
           /\ package'[p].version = package[p].version,
         Call(r) \in Selling \/ request'[r].pc = "rejected",
         request'[r].pc \notin {"record", "dropPrices", "done"},
         request[r].pc = "rejected" => request'[r].pc = "rejected"
  PROVE  SaleKind(r)
<1>1. \A p \in Packages \ {Package(r)} : Unaffected(p)
  BY SameOffer DEF Unaffected, Live
<1> QED
  BY <1>1 DEF SaleKind

LEMMA PriceJobSale ==
  ASSUME Base, NEW r \in Requests, PriceJob(r)
  PROVE  SaleKind(r)
<1>0. Typed /\ Steady(r) /\ Call(r) \in CallsAt(request[r].pc)
  BY PlacedHere, PriceJobMoved
<1>1. PICK i \in Intervals :
        JobFind(r, i) \/ JobDemote(r, i) \/ JobWrite(r, i) \/ JobClear(r, i)
  BY DEF PriceJob
<1>2. /\ request[r].job[i].step # "idle"
      /\ UNCHANGED <<package, feature, history>>
      /\ \A p \in Packages \ {Package(r)} : price'[p] = price[p]
      /\ request'[r].pc = request[r].pc \/ request'[r].pc = "rejected"
  <2>1. CASE JobFind(r, i)
    BY <1>0, <2>1, JobFindStep DEF JobMoves, Untouched
  <2>2. CASE JobDemote(r, i)
    BY <1>0, <2>2, JobDemoteStep DEF JobMoves, SetPrices, Package
  <2>3. CASE JobWrite(r, i)
    BY <1>0, <2>3, JobWriteStep DEF JobMoves, SetPrices, Package
  <2>4. CASE JobClear(r, i)
    BY <1>0, <2>4, JobClearStep
  <2> QED
    BY <1>1, <2>1, <2>2, <2>3, <2>4
<1>3. request[r].pc \in Waiting \cup {"rejected"}
  BY <1>2, JobMoved
<1>4. request[r].pc \in Waiting => Call(r) \in Selling
  BY <1>0 DEF Waiting, CallsAt, Selling, WriteCalls, PriceCalls
<1> QED
  BY <1>0, <1>2, <1>3, <1>4, SaleOwn DEF Waiting

LEMMA FeatureStepSale ==
  ASSUME Base, NEW r \in Requests, FeatureStep(r)
  PROVE  SaleKind(r)
<1>0. Typed /\ Steady(r) /\ Call(r) \in CallsAt(request[r].pc)
  BY PlacedHere, FeatureStepMoved
<1>1. /\ UNCHANGED <<package, price, history>>
      /\ \A p \in Packages \ {Package(r)} : feature'[p] = feature[p]
      /\ request[r].pc \in {"features", "dropFeatures", "addFeatures", "reviveFeatures"}
      /\ request'[r].pc \in {"dropFeatures", "addFeatures", "reviveFeatures",
                             "clearOthers", "write", "clear", "rejected"}
  <2>1. CASE SeeFeatures(r)
    BY <1>0, <2>1, SeeFeaturesStep DEF Goes, Untouched
  <2>2. CASE DropFeatures(r)
    BY <1>0, <2>2, DropFeaturesStep DEF Goes, SetFeatures
  <2>3. CASE AddFeatures(r)
    BY <1>0, <2>3, AddFeaturesStep DEF Goes, Ends, SetFeatures
  <2>4. CASE ReviveFeatures(r)
    BY <1>0, <2>4, ReviveFeaturesStep DEF Goes, SetFeatures
  <2> QED
    BY <2>1, <2>2, <2>3, <2>4 DEF FeatureStep
<1>2. Call(r) \in Selling
  BY <1>0, <1>1 DEF CallsAt, Selling, WriteCalls
<1> QED
  BY <1>0, <1>1, <1>2, SaleOwn

LEMMA ReadStepSale ==
  ASSUME Base, NEW r \in Requests, ReadStep(r)
  PROVE  SaleKind(r)
<1>0. Typed /\ Steady(r) /\ Call(r) \in CallsAt(request[r].pc)
  BY PlacedHere, ReadStepMoved
<1>1. /\ UNCHANGED <<package, price, feature, history>>
      /\ request[r].pc \in {"get", "fetch", "store"}
      /\ request'[r].pc \in {"fetch", "store", "done", "rejected"}
  <2>1. CASE ReadCache(r)
    BY <1>0, <2>1, ReadCacheStep DEF Goes, Ends, Untouched
  <2>2. CASE FetchPackage(r)
    BY <1>0, <2>2, FetchPackageStep DEF Reads, Ends, Untouched
  <2>3. CASE StoreCache(r)
    BY <1>0, <2>3, StoreCacheStep DEF Ends
  <2> QED
    BY <2>1, <2>2, <2>3 DEF ReadStep
<1>2. Call(r) \notin WriteCalls
  BY <1>0, <1>1 DEF CallsAt, WriteCalls
<1> QED
  BY <1>0, <1>1, <1>2, SaleSame

LEMMA PriceStepSale ==
  ASSUME Base, NEW r \in Requests, PriceStep(r)
  PROVE  SaleKind(r)
<1>0. Typed /\ Steady(r) /\ Call(r) \in CallsAt(request[r].pc)
  BY PlacedHere, PriceStepMoved
<1>1. CASE DemoteAll(r) \/ InsertPrices(r)
  <2>1. /\ UNCHANGED <<package, feature, history>>
        /\ request[r].pc \in {"demoteAll", "insert"}
        /\ request'[r].pc \in {"insert", "clearPrices", "rejected"}
        /\ \A p \in Packages \ {Package(r)} : price'[p] = price[p]
    <3>1. CASE DemoteAll(r)
      BY <1>0, <3>1, DemoteAllStep DEF Goes, SetPrices, Package
    <3>2. CASE InsertPrices(r)
      BY <1>0, <3>2, InsertPricesStep DEF Goes, Ends, SetPrices, Package
    <3> QED
      BY <1>1, <3>1, <3>2
  <2>2. Call(r) \in Selling
    BY <1>0, <2>1 DEF CallsAt, Inserting, Selling, WriteCalls, PriceCalls
  <2> QED
    BY <1>0, <2>1, <2>2, SaleOwn
<1>2. CASE SeePrices(r)
  BY <1>0, <1>2, SeePricesStep, SaleSame DEF Starts, Untouched
<1>3. CASE Removed(r)
  <2>1. /\ Untouched /\ request[r].pc = "remove"
        /\ request'[r].pc \in {"check", "rewrite"}
    BY <1>0, <1>3, RemovedStep DEF Goes, Starts
  <2> QED
    BY <1>0, <2>1, SaleSame DEF Untouched
<1>4. CASE CheckIntervals(r)
  <2>1. /\ Untouched /\ request[r].pc = "check"
        /\ request'[r].pc \in {"package", "demoteAll", "insert", "rejected"}
    BY <1>0, <1>4, CheckIntervalsStep DEF Ends
  <2> QED
    BY <1>0, <2>1, SaleSame DEF Untouched
<1>5. CASE CheckPackage(r)
  BY <1>0, <1>5, CheckPackageStep, SaleSame DEF Goes, Ends, Untouched
<1>6. CASE CheckExisting(r)
  <2>1. /\ Untouched /\ request[r].pc = "existing"
        /\ request'[r].pc \in {"demoteAll", "insert", "rejected"}
    BY <1>0, <1>6, CheckExistingStep DEF Goes, Ends
  <2> QED
    BY <1>0, <2>1, SaleSame DEF Untouched
<1>7. CASE ClearAfterPrices(r)
  <2>1. /\ UNCHANGED <<package, price, feature, history>>
        /\ request[r].pc = "clearPrices"
        /\ request'[r].pc \in {"addFeatures", "rewrite", "dropConfigs", "clear", "done"}
        /\ request'[r].pc = "done" => Call(r) \notin WriteCalls
    BY <1>0, <1>7, ClearAfterPricesStep DEF Goes, Starts, Ends
  <2> QED
    BY <1>0, <2>1, SaleSame
<1>8. CASE Review(r)
  <2>1. Untouched /\ request[r].pc = "rewrite" /\ request'[r].pc = "elect"
    BY <1>0, <1>8, ReviewStep DEF Starts
  <2> QED
    BY <1>0, <2>1, SaleSame DEF Untouched
<1>9. CASE Elected(r)
  <2>1. /\ Untouched /\ request[r].pc = "elect"
        /\ request'[r].pc \in {"features", "clearOthers", "write"}
    BY <1>0, <1>9, ElectedStep DEF Goes
  <2> QED
    BY <1>0, <2>1, SaleSame DEF Untouched
<1>10. CASE PriceRouteDone(r)
  <2>1. Untouched /\ request[r].pc = "priceRoute" /\ request'[r].pc = "done"
    BY <1>0, <1>10, PriceRouteDoneStep DEF Ends
  <2>2. Call(r) \notin WriteCalls
    BY <1>0, <2>1 DEF CallsAt, WriteCalls
  <2> QED
    BY <1>0, <2>1, <2>2, SaleSame DEF Untouched
<1> QED
  BY <1>1, <1>2, <1>3, <1>4, <1>5, <1>6, <1>7, <1>8, <1>9, <1>10 DEF PriceStep

LEMMA PackageStepSale ==
  ASSUME Base, NEW r \in Requests, PackageStep(r)
  PROVE  SaleKind(r)
<1>0. /\ Typed /\ Steady(r) /\ Call(r) \in CallsAt(request[r].pc)
      /\ Package(r)' = Package(r) /\ Package(r) \in Packages
  BY PlacedHere, PackageStepMoved, SamePackage, RequestFields DEF Steady, Package
<1>1. CASE FindPackage(r)
  <2>1. /\ Untouched /\ request[r].pc = "find"
        /\ request'[r].pc = AfterFind(r) \/ request'[r].pc = "rejected"
    BY <1>0, <1>1, FindPackageStep DEF Goes, Ends
  <2>2. AfterFind(r) \in {"delete", "see", "features", "clearOthers", "mark", "write"}
    BY DEF AfterFind
  <2> QED
    BY <1>0, <2>1, <2>2, SaleSame DEF Untouched
<1>2. CASE ClearOthers(r)
  <2>1. /\ UNCHANGED <<price, feature, history>> /\ request[r].pc = "clearOthers"
        /\ request'[r].pc \in {"create", "write", "mark"}
        /\ \A p \in Packages : /\ package'[p].state = package[p].state
                               /\ package'[p].version = package[p].version
    BY <1>0, <1>2, ClearOthersStep DEF Goes
  <2>2. \A p \in Packages : Unaffected(p)
    BY <2>1, SameOffer DEF Unaffected, Live
  <2> QED
    BY <1>0, <2>1, <2>2 DEF SaleKind
<1>3. CASE CreatePackage(r) \/ WritePackage(r)
  <2>1. /\ UNCHANGED <<price, feature, history>>
        /\ request[r].pc \in {"create", "write"}
        /\ request'[r].pc \in {"check", "clear", "rejected"}
        /\ \A p \in Packages \ {Package(r)} : package'[p] = package[p]
    <3>1. CASE CreatePackage(r)
      BY <1>0, <3>1, CreatePackageStep DEF Goes, Ends, SetPackage
    <3>2. CASE WritePackage(r)
      BY <1>0, <3>2, WritePackageStep DEF Goes, Ends, SetPackage
    <3> QED
      BY <1>3, <3>1, <3>2
  <2>2. Call(r) \in Selling
    BY <1>0, <2>1 DEF CallsAt, Selling, WriteCalls
  <2> QED
    BY <1>0, <2>1, <2>2, SaleOwn
<1>4. CASE MarkInitial(r)
  <2>1. /\ UNCHANGED <<price, feature, history>> /\ request[r].pc = "mark"
        /\ request'[r].pc \in {"clear", "rejected"}
        /\ \A p \in Packages : /\ package'[p].state = package[p].state
                               /\ package'[p].version = package[p].version
    BY <1>0, <1>4, MarkInitialStep DEF Goes, Ends, SetPackage
  <2>2. \A p \in Packages : Unaffected(p)
    BY <2>1, SameOffer DEF Unaffected, Live
  <2> QED
    BY <1>0, <2>1, <2>2 DEF SaleKind
<1>5. CASE DeletePackage(r)
  <2>1. /\ UNCHANGED <<price, feature, history>> /\ request[r].pc = "delete"
        /\ request'[r].pc = "dropPrices"
        /\ \A p \in Packages \ {Package(r)} : package'[p] = package[p]
        /\ package'[Package(r)].state # "live"
    BY <1>0, <1>5, DeletePackageStep DEF Goes, SetPackage
  <2>2. ~Live(Package(r))' /\ \A p \in Packages : p = Package(r) => ~Live(p)'
    BY <1>0, <2>1 DEF Live
  <2>3. \A p \in Packages \ {Package(r)} : Unaffected(p)
    BY <2>1, SameOffer DEF Unaffected, Live
  <2> QED
    BY <2>1, <2>2, <2>3 DEF SaleKind
<1>6. CASE DropPrices(r)
  <2>1. /\ UNCHANGED <<package, feature, history>> /\ request[r].pc = "dropPrices"
        /\ request'[r].pc \in {"dropConfigs", "clearPrices"}
        /\ \A p \in Packages \ {Package(r)} : price'[p] = price[p]
    BY <1>0, <1>6, DropPricesStep DEF Goes
  <2>2. \A p \in Packages \ {Package(r)} : Unaffected(p)
    BY <2>1, SameOffer DEF Unaffected, Live
  <2> QED
    BY <2>1, <2>2 DEF SaleKind
<1>7. CASE DropConfigs(r)
  BY <1>0, <1>7, DropConfigsStep, SaleSame DEF Goes
<1>8. CASE RestorePackage(r) \/ RevivePrices(r)
  <2>1. /\ UNCHANGED <<feature, history>>
        /\ request[r].pc \in {"restore", "revive"}
        /\ request'[r].pc \in {"restored", "revive", "clearPrices", "rejected"}
        /\ \A p \in Packages \ {Package(r)} : /\ package'[p] = package[p]
                                              /\ price'[p] = price[p]
    <3>1. CASE RestorePackage(r)
      BY <1>0, <3>1, RestorePackageStep DEF Goes, Ends, SetPackage
    <3>2. CASE RevivePrices(r)
      BY <1>0, <3>2, RevivePricesStep DEF Goes
    <3> QED
      BY <1>8, <3>1, <3>2
  <2>2. Call(r) \in Selling
    BY <1>0, <2>1 DEF CallsAt, Selling
  <2> QED
    BY <1>0, <2>1, <2>2, SaleOwn
<1>9. CASE FindRestored(r)
  <2>1. Untouched /\ request[r].pc = "restored" /\ request'[r].pc \in {"revive", "clear"}
    BY <1>0, <1>9, FindRestoredStep DEF Goes
  <2> QED
    BY <1>0, <2>1, SaleSame DEF Untouched
<1>10. CASE ClearCache(r)
  <2>1. /\ UNCHANGED <<package, price, feature, history>> /\ request[r].pc = "clear"
        /\ \/ request'[r].pc = "read"
           \/ request'[r].pc = "done" /\ Call(r) \notin WriteCalls
    BY <1>0, <1>10, ClearCacheStep DEF Goes, Ends
  <2> QED
    BY <1>0, <2>1, SaleSame
<1>11. CASE ReadPackage(r)
  <2>1. /\ Untouched /\ request[r].pc = "read"
        /\ \/ request'[r].pc = "record" /\ request'[r].doc = {Document(Package(r))}
           \/ request'[r].pc = "rejected"
    BY <1>0, <1>11, ReadPackageStep DEF Reads, Ends
  <2>2. \A p : Unaffected(p)
    BY <2>1, SameDocuments DEF Untouched, Unaffected
  <2> QED
    BY <2>1, <2>2 DEF SaleKind
<1>12. CASE RecordHistory(r)
  <2>1. /\ UNCHANGED <<package, price, feature>> /\ request[r].pc = "record"
        /\ request'[r].pc = "done"
        /\ \A p \in Packages \ {Package(r)} : history'[p] = history[p]
    BY <1>0, <1>12, RecordHistoryStep DEF Ends, Records
  <2>2. \A p \in Packages \ {Package(r)} : Unaffected(p)
    BY <2>1, SameOffer DEF Unaffected, Live
  <2>3. Call(r) \in Selling
    BY <1>0, <2>1 DEF CallsAt, Selling
  <2> QED
    BY <1>12, <2>1, <2>2, <2>3 DEF SaleKind
<1> QED
  BY <1>1, <1>2, <1>3, <1>4, <1>5, <1>6, <1>7, <1>8, <1>9, <1>10, <1>11, <1>12
     DEF PackageStep

LEMMA StepSale ==
  ASSUME Base, NEW r \in Requests, StepOf(r)
  PROVE  SaleKind(r)
BY PriceJobSale, PriceStepSale, FeatureStepSale, PackageStepSale, ReadStepSale
   DEF StepOf

LEMMA ArriveRecord ==
  ASSUME Base, RecordInv, NEW r \in Requests, NEW p \in Packages, NEW ask \in Asks,
         Arrive(r, p, ask)
  PROVE  RecordInv'
<1>0. /\ Untouched /\ latest' = {r} /\ Begins(r, p, ask) /\ ask \in Payloads
      /\ \A s \in Requests \ {r} : Stays(s)
  BY ArriveStep DEF Base
<1>1. request'[r].pc \notin {"record", "done"}
  BY <1>0, EntryFields DEF Begins, EntryPcs
<1>2. SUFFICES ASSUME NEW s \in Requests, request'[s].alone
               PROVE  /\ request'[s].pc # "record"
                      /\ ~Succeeded(s, WriteCalls)'
  BY DEF RecordInv
<1>3. CASE s = r
  BY <1>1, <1>3 DEF Succeeded
<1>4. CASE s # r
  <2>1. Stays(s)
    BY <1>0, <1>4
  <2>2. s \notin UnderWay
    BY <1>2, <2>1 DEF Stays
  <2>3. AtRest(s)
    BY <2>2 DEF UnderWay
  <2>4. request'[s].pc # "record"
    BY <2>1, <2>3 DEF AtRest, Ended, Stays
  <2>5. s \notin latest'
    BY <1>0, <1>4
  <2> QED
    BY <2>4, <2>5 DEF Succeeded
<1> QED
  BY <1>3, <1>4

LEMMA SameMatches ==
  ASSUME UNCHANGED <<package, price, feature, history>>, NEW p
  PROVE  Matches(p)' = Matches(p)
BY SameDocuments DEF Matches

LEMMA NextRecord ==
  ASSUME Base, RecordInv, [Next]_vars
  PROVE  RecordInv'
<1>1. ASSUME NEW r \in Requests, StepOf(r)
      PROVE  RecordInv'
  BY <1>1, StepMoved, StepSale, RecordKept
<1>2. ASSUME NEW r \in Requests, NEW p \in Packages, NEW ask \in Asks,
             Arrive(r, p, ask)
      PROVE  RecordInv'
  BY <1>2, ArriveRecord
<1>3. CASE UNCHANGED vars
  <2>1. UNCHANGED <<package, price, feature, history, request, latest>>
    BY <1>3 DEF vars
  <2>2. \A r \in Requests : /\ Document(Package(r))' = Document(Package(r))
                            /\ Matches(Package(r))' = Matches(Package(r))
    BY <2>1 DEF Matches, Document, Offer, LivePrices, LiveFeatures, Package
  <2> QED
    BY <2>1, <2>2 DEF RecordInv, Succeeded
<1> QED
  BY <1>1, <1>2, <1>3 DEF Next, StepOf

LEMMA NothingRecorded ==
  ASSUME Init
  PROVE  RecordInv
<1>1. PICK q \in Packages : request = [r \in Requests |-> Fresh(q)]
  BY DEF Init
<1>2. \A r \in Requests : ~request[r].alone
  BY <1>1 DEF Fresh
<1> QED
  BY <1>2 DEF RecordInv

LEMMA RecordInvariant == Spec => []RecordInv
<1>1. Init => RecordInv
  BY NothingRecorded
<1>2. Base /\ RecordInv /\ [Next]_vars => RecordInv'
  BY NextRecord
<1> QED
  BY <1>1, <1>2, BaseInvariant, PTL DEF Spec

(* A createPackage or updatePackage that was alone and succeeded has left  *)
(* a snapshot of the offer it has made: what it read before it recorded    *)
(* (RecordInv) is still what there is, and the row it appends is the       *)
(* newest of the package's version, whatever older calls have written.     *)
THEOREM SalesMatchUpdates == Spec => []SaleMatchesUpdate
<1>1. Base /\ RecordInv => SaleMatchesUpdate
  <2>1. SUFFICES ASSUME Base, RecordInv, NEW r \in Requests, Succeeded(r, WriteCalls)
                 PROVE  Snapshot(Package(r)).offer = Offer(Package(r))
    BY DEF SaleMatchesUpdate, Package
  <2>2. Package(r) \in Packages
    BY <2>1, RequestFields DEF Base, Typed, Package
  <2>3. Matches(Package(r))
    BY <2>1 DEF RecordInv, Succeeded
  <2> QED
    BY <2>1, <2>2, <2>3, SnapshotNewest DEF Base
<1> QED
  BY <1>1, BaseInvariant, RecordInvariant, PTL

(* What explains an offer stays: other requests rest, and r's own call     *)
(* explains it until it ends.                                              *)
LEMMA ExplainedKept ==
  ASSUME Base, NEW r \in Requests, Steady(r), NEW p \in Packages, Explained(p),
         p = Package(r) => /\ Call(r) \notin PriceCalls \cup Restores
                           /\ request[r].pc = "rejected" => request'[r].pc = "rejected"
                           /\ Call(r) \notin WriteCalls
  PROVE  Explained(p)'
<1>1. /\ \A s \in Requests : Package(s)' = Package(s) /\ Call(s)' = Call(s)
      /\ \A s \in Requests \ {r} : request'[s].pc = request[s].pc
  BY SamePackage DEF Steady
<1>2. PICK s \in Requests :
        /\ Package(s) = p
        /\ \/ Call(s) \in PriceCalls \cup Restores
           \/ request[s].pc = "rejected"
           \/ Call(s) \in WriteCalls /\ request[s].pc \notin Ended
  BY DEF Explained
<1>3. CASE s # r
  BY <1>1, <1>2, <1>3 DEF Explained
<1>4. CASE s = r
  <2>1. request'[r].pc = "rejected"
    BY <1>2, <1>4
  <2> QED
    BY <1>1, <1>2, <1>4, <2>1 DEF Explained
<1> QED
  BY <1>3, <1>4

LEMMA OfferKept ==
  ASSUME Base, RecordInv, OfferInv, NEW r \in Requests, Steady(r), Moved(r),
         SaleKind(r), Serial
  PROVE  OfferInv'
<1>0. /\ \A s \in Requests : Package(s)' = Package(s) /\ Call(s)' = Call(s)
      /\ \A s \in Requests \ {r} : request'[s].pc = request[s].pc
      /\ request[r].alone /\ \A s \in Requests \ {r} : AtRest(s)
  BY SamePackage, Solo DEF Steady, Moved
<1>1. ASSUME NEW s \in Requests, request'[s].pc = "dropPrices"
      PROVE  ~Live(Package(s))'
  <2>1. s = r
    BY <1>0, <1>1 DEF AtRest, Ended
  <2> QED
    BY <1>1, <2>1 DEF SaleKind
<1>2. ASSUME NEW p \in Packages, Live(p)'
      PROVE  Explained(p)' \/ Matches(p)'
  <2>1. ASSUME Unaffected(p), ~(p = Package(r) /\ Call(r) \in Selling)
        PROVE  Explained(p)' \/ Matches(p)'
    <3>1. Live(p)
      BY <1>2, <2>1 DEF Unaffected
    <3>2. CASE Matches(p)
      BY <2>1, <3>2, UnaffectedMatches
    <3>3. CASE Explained(p)
      <4>1. request[r].pc = "rejected" => request'[r].pc = "rejected"
        BY DEF SaleKind
      <4> QED
        BY <2>1, <3>3, <4>1, ExplainedKept DEF Selling
    <3> QED
      BY <3>1, <3>2, <3>3 DEF OfferInv
  <2>2. CASE p # Package(r)
    <3>1. Unaffected(p)
      BY <2>2 DEF SaleKind
    <3> QED
      BY <2>1, <2>2, <3>1
  <2>3. CASE p = Package(r) /\ Call(r) \in Selling
    <3>1. CASE Call(r) \in PriceCalls \cup Restores
      BY <1>0, <2>3, <3>1 DEF Explained
    <3>2. CASE Call(r) \in WriteCalls /\ request'[r].pc # "done"
      BY <1>0, <2>3, <3>2 DEF Explained, Ended
    <3>3. CASE Call(r) \in WriteCalls /\ request'[r].pc = "done"
      <4>1. RecordHistory(r)
        BY <3>3 DEF SaleKind
      <4>2. request[r].doc = {Document(Package(r))}
        BY <1>0, <4>1 DEF RecordInv, RecordHistory
      <4>3. Matches(Package(r))'
        BY <4>1, <4>2, RecordedMatches DEF Base
      <4> QED
        BY <1>0, <2>3, <4>3 DEF Matches
    <3> QED
      BY <2>3, <3>1, <3>2, <3>3 DEF Selling
  <2>4. CASE p = Package(r) /\ Call(r) \notin Selling
    <3>1. CASE request'[r].pc = "rejected"
      BY <1>0, <2>4, <3>1 DEF Explained
    <3>2. CASE Unaffected(p)
      BY <2>1, <2>4, <3>2
    <3>3. CASE request[r].pc = "dropPrices" /\ package' = package
      <4>1. ~Live(p)
        BY <2>4, <3>3 DEF OfferInv
      <4> QED
        BY <1>2, <3>3, <4>1 DEF Live
    <3> QED
      BY <1>2, <2>4, <3>1, <3>2, <3>3 DEF SaleKind
  <2> QED
    BY <2>2, <2>3, <2>4
<1> QED
  BY <1>1, <1>2 DEF OfferInv

LEMMA ArriveOffer ==
  ASSUME Base, OfferInv, NEW r \in Requests, NEW p \in Packages, NEW ask \in Asks,
         Arrive(r, p, ask), Serial
  PROVE  OfferInv'
<1>0. /\ Untouched /\ request[r].pc = "idle" /\ Begins(r, p, ask) /\ ask \in Payloads
      /\ \A s \in Requests \ {r} : Stays(s)
      /\ Call(r) \in CallsAt(request[r].pc)
  BY ArriveStep, PlacedHere DEF Base
<1>1. Call(r) = "getPublicPackage" /\ request'[r].pc # "dropPrices"
  BY <1>0, EntryFields DEF CallsAt, Begins, EntryPcs
<1>2. ASSUME NEW s \in Requests, request'[s].pc = "dropPrices"
      PROVE  ~Live(Package(s))'
  <2>1. s # r
    BY <1>1, <1>2
  <2>2. Package(s)' = Package(s) /\ ~Live(Package(s))
    BY <1>0, <1>2, <2>1, Stayed DEF OfferInv
  <2> QED
    BY <1>0, <2>2 DEF Live, Untouched
<1>3. ASSUME NEW q \in Packages, Live(q)'
      PROVE  Explained(q)' \/ Matches(q)'
  <2>1. Live(q)
    BY <1>0, <1>3 DEF Live, Untouched
  <2>2. CASE Matches(q)
    BY <1>0, <2>2, SameMatches DEF Untouched
  <2>3. CASE Explained(q)
    <3>1. PICK s \in Requests :
            /\ Package(s) = q
            /\ \/ Call(s) \in PriceCalls \cup Restores
               \/ request[s].pc = "rejected"
               \/ Call(s) \in WriteCalls /\ request[s].pc \notin Ended
      BY <2>3 DEF Explained
    <3>2. s # r
      BY <1>0, <1>1, <3>1 DEF WriteCalls, PriceCalls, Restores
    <3>3. /\ Package(s)' = Package(s) /\ Call(s)' = Call(s)
          /\ request'[s].pc = request[s].pc
      BY <1>0, <3>2, Stayed
    <3> QED
      BY <3>1, <3>3 DEF Explained
  <2> QED
    BY <2>1, <2>2, <2>3 DEF OfferInv
<1> QED
  BY <1>2, <1>3 DEF OfferInv

LEMMA NextOffer ==
  ASSUME Base, RecordInv, OfferInv, [Next]_vars
  PROVE  OfferInv'
<1>0. SUFFICES ASSUME Serial' PROVE OfferInv'
  BY DEF OfferInv
<1>s. Serial
  BY <1>0, NextBase
<1>1. ASSUME NEW r \in Requests, StepOf(r)
      PROVE  OfferInv'
  BY <1>s, <1>1, StepMoved, StepSale, OfferKept
<1>2. ASSUME NEW r \in Requests, NEW p \in Packages, NEW ask \in Asks,
             Arrive(r, p, ask)
      PROVE  OfferInv'
  BY <1>s, <1>2, ArriveOffer
<1>3. CASE UNCHANGED vars
  <2>1. UNCHANGED <<package, price, feature, history, request>>
    BY <1>3 DEF vars
  <2>2. \A p \in Packages : /\ Live(p)' = Live(p) /\ Matches(p)' = Matches(p)
                            /\ Explained(p)' = Explained(p)
    BY <2>1, SameMatches DEF Live, Explained, Package, Call
  <2>3. \A r \in Requests : Live(Package(r))' = Live(Package(r))
    BY <2>1 DEF Live, Package
  <2> QED
    BY <1>s, <2>1, <2>2, <2>3 DEF OfferInv
<1> QED
  BY <1>1, <1>2, <1>3 DEF Next, StepOf

LEMMA NothingOffered ==
  ASSUME Init
  PROVE  OfferInv
<1>1. PICK q \in Packages : request = [r \in Requests |-> Fresh(q)]
  BY DEF Init
<1>2. \A r \in Requests : request[r].pc = "idle"
  BY <1>1 DEF Fresh
<1>3. /\ history = [p \in Packages |->
           IF p \in Stock THEN <<[version |-> 1, offer |-> Offer(p)]>> ELSE <<>>]
      /\ \A p \in Packages : /\ Live(p) => p \in Stock
                             /\ p \in Stock => package[p].version = 1
  BY DEF Init, Live
<1>4. ASSUME NEW p \in Packages, Live(p)
      PROVE  Matches(p)
  <2>1. history[p] = <<[version |-> 1, offer |-> Offer(p)]>> /\ package[p].version = 1
    BY <1>3, <1>4
  <2> QED
    BY <2>1 DEF Matches
<1> QED
  BY <1>2, <1>4 DEF OfferInv

(* As long as requests come one after another, a live package is sold with *)
(* what it offers, except after price routes, restores and calls refused   *)
(* halfway: every other route that changes what is offered ends with a     *)
(* row of the history that says so (OfferInv and, for the row, RecordInv). *)
THEOREM SalesMatchOffers == Spec => []SaleMatchesOffer
<1>1. Init => OfferInv
  BY NothingOffered
<1>2. Base /\ RecordInv /\ OfferInv /\ [Next]_vars => OfferInv'
  BY NextOffer
<1>3. Base /\ OfferInv => SaleMatchesOffer
  <2>1. SUFFICES ASSUME Base, OfferInv, Serial, Quiet, NEW p \in Packages, Live(p)
                 PROVE  \/ \E r \in Requests :
                             /\ Package(r) = p
                             /\ \/ Call(r) \in PriceCalls \cup Restores
                                \/ r \in Rejected
                        \/ history[p] # <<>> /\ Snapshot(p).offer = Offer(p)
    BY DEF SaleMatchesOffer, Call, Package
  <2>2. \A r \in Requests :
          /\ request[r].pc \in Ended \cup {"idle"}
          /\ request[r].pc = "idle" => Call(r) \notin WriteCalls
    <3>1. \A r \in Requests : request[r].pc \in Ended \cup {"idle"}
      BY <2>1 DEF Quiet, UnderWay, AtRest
    <3>2. \A r \in Requests : Call(r) \in CallsAt(request[r].pc)
      BY <2>1, PlacedHere
    <3> QED
      BY <3>1, <3>2 DEF CallsAt, WriteCalls
  <2>3. CASE Matches(p)
    BY <2>1, <2>3, SnapshotNewest DEF Base
  <2>4. CASE Explained(p)
    BY <2>2, <2>4 DEF Explained, Rejected
  <2> QED
    BY <2>1, <2>3, <2>4 DEF OfferInv
<1> QED
  BY <1>1, <1>2, <1>3, BaseInvariant, RecordInvariant, PTL DEF Spec

-----------------------------------------------------------------------------
(* The initial package. *)

LEMMA AtMostOne ==
  ASSUME NEW S, \A x, y \in S : x = y
  PROVE  Cardinality(S) <= 1
<1>1. CASE S = {}
  BY <1>1, FS_EmptySet
<1>2. CASE S # {}
  <2>1. PICK x : x \in S
    BY <1>2
  <2>2. S = {x}
    BY <2>1
  <2>3. Cardinality({x}) = 1
    BY FS_Singleton, Zenon
  <2> QED
    BY <2>2, <2>3
<1> QED
  BY <1>1, <1>2

(* r is about to write its package as the initial one. *)
Marking(r) ==
  request[r].pc \in {"create", "write", "mark"} /\ request[r].ask.initial = "yes"

MarkInv ==
  Serial =>
    /\ \A p, q \in InitialPackages : p = q
    /\ \A r \in Requests : Marking(r) => InitialPackages \subseteq {Package(r)}

MarkKind(r) ==
  /\ \/ InitialPackages' \subseteq InitialPackages
     \/ Marking(r) /\ InitialPackages' \subseteq InitialPackages \cup {Package(r)}
  /\ request'[r].pc \in {"create", "write", "mark"} /\ request[r].ask.initial = "yes" =>
       InitialPackages' \subseteq {Package(r)}

LEMMA MarkKept ==
  ASSUME Base, MarkInv, NEW r \in Requests, Steady(r), Moved(r), MarkKind(r), Serial
  PROVE  MarkInv'
<1>0. /\ \A s \in Requests : Package(s)' = Package(s)
      /\ \A s \in Requests \ {r} : request'[s] = request[s] /\ AtRest(s)
      /\ request'[r].ask = request[r].ask
  BY SamePackage, Solo DEF Steady, Others, Moved
<1>1. ASSUME NEW s \in Requests, Marking(s)'
      PROVE  InitialPackages' \subseteq {Package(s)'}
  <2>1. s = r
    BY <1>0, <1>1 DEF Marking, AtRest, Ended
  <2> QED
    BY <1>0, <1>1, <2>1 DEF Marking, MarkKind
<1>2. ASSUME NEW p \in InitialPackages', NEW q \in InitialPackages'
      PROVE  p = q
  BY <1>2 DEF MarkInv, MarkKind
<1> QED
  BY <1>1, <1>2 DEF MarkInv

LEMMA MarkSame ==
  ASSUME NEW r \in Requests, package' = package,
         request'[r].pc \in {"create", "write", "mark"} =>
           request[r].ask.initial # "yes"
  PROVE  MarkKind(r)
BY DEF MarkKind, InitialPackages

LEMMA PriceMark ==
  ASSUME Base, NEW r \in Requests, PriceJob(r) \/ PriceStep(r)
  PROVE  MarkKind(r)
<1>0. Typed
  BY PlacedHere
<1>1. CASE PriceJob(r)
  <2>1. PICK i \in Intervals :
          JobFind(r, i) \/ JobDemote(r, i) \/ JobWrite(r, i) \/ JobClear(r, i)
    BY <1>1 DEF PriceJob
  <2>2. /\ request[r].job[i].step # "idle" /\ package' = package
        /\ request'[r].pc = request[r].pc \/ request'[r].pc = "rejected"
    BY <1>0, <2>1, JobFindStep, JobDemoteStep, JobWriteStep, JobClearStep
       DEF JobMoves, Untouched
  <2>3. request[r].pc \in Waiting \cup {"rejected"}
    BY <2>2, JobMoved
  <2> QED
    BY <2>2, <2>3, MarkSame DEF Waiting
<1>2. CASE Elected(r)
  BY <1>0, <1>2, ElectedStep, MarkSame DEF Goes, Untouched
<1>3. CASE PriceStep(r) /\ ~Elected(r)
  <2>1. package' = package /\ request'[r].pc \notin {"create", "write", "mark"}
    <3>1. CASE SeePrices(r) \/ Removed(r) \/ Review(r)
      BY <1>0, <3>1, SeePricesStep, RemovedStep, ReviewStep DEF Starts, Goes, Untouched
    <3>2. CASE CheckIntervals(r) \/ CheckPackage(r) \/ CheckExisting(r)
      BY <1>0, <3>2, CheckIntervalsStep, CheckPackageStep, CheckExistingStep
         DEF Goes, Ends, Untouched
    <3>3. CASE DemoteAll(r) \/ InsertPrices(r) \/ PriceRouteDone(r)
      BY <1>0, <3>3, DemoteAllStep, InsertPricesStep, PriceRouteDoneStep
         DEF Goes, Ends, Untouched
    <3>4. CASE ClearAfterPrices(r)
      BY <1>0, <3>4, ClearAfterPricesStep DEF Goes, Ends, Starts
    <3> QED
      BY <1>3, <3>1, <3>2, <3>3, <3>4 DEF PriceStep
  <2> QED
    BY <2>1, MarkSame
<1> QED
  BY <1>1, <1>2, <1>3

LEMMA RowMark ==
  ASSUME Base, NEW r \in Requests, FeatureStep(r) \/ ReadStep(r)
  PROVE  MarkKind(r)
<1>0. Typed
  BY PlacedHere
<1>1. CASE FeatureStep(r)
  <2>1. CASE SeeFeatures(r)
    BY <1>0, <2>1, SeeFeaturesStep, MarkSame DEF Goes, Untouched
  <2>2. CASE DropFeatures(r)
    BY <1>0, <2>2, DropFeaturesStep, MarkSame DEF Goes, SetFeatures
  <2>3. CASE AddFeatures(r)
    BY <1>0, <2>3, AddFeaturesStep, MarkSame DEF Goes, Ends, SetFeatures
  <2>4. CASE ReviveFeatures(r)
    BY <1>0, <2>4, ReviveFeaturesStep, MarkSame DEF Goes, SetFeatures
  <2> QED
    BY <1>1, <2>1, <2>2, <2>3, <2>4 DEF FeatureStep
<1>2. CASE ReadStep(r)
  <2>1. CASE ReadCache(r)
    BY <1>0, <2>1, ReadCacheStep, MarkSame DEF Goes, Ends, Untouched
  <2>2. CASE FetchPackage(r)
    BY <1>0, <2>2, FetchPackageStep, MarkSame DEF Reads, Ends, Untouched
  <2>3. CASE StoreCache(r)
    BY <1>0, <2>3, StoreCacheStep, MarkSame DEF Ends
  <2> QED
    BY <1>2, <2>1, <2>2, <2>3 DEF ReadStep
<1> QED
  BY <1>1, <1>2

LEMMA SetMark ==
  ASSUME NEW r \in Requests, NEW doc, SetPackage(r, doc)
  PROVE  /\ InitialPackages' \subseteq InitialPackages \cup {Package(r)}
         /\ (doc.is_initial => package[Package(r)].is_initial) =>
              InitialPackages' \subseteq InitialPackages
BY DEF SetPackage, InitialPackages

LEMMA PackageMark ==
  ASSUME Base, NEW r \in Requests, PackageStep(r)
  PROVE  MarkKind(r)
<1>0. Typed /\ Package(r) \in Packages /\ request[r].ask.initial \in Flags
  BY PlacedHere, RequestFields, AskFields DEF Package
<1>1. CASE FindPackage(r)
  <2>1. /\ Untouched
        /\ request'[r].pc = AfterFind(r) \/ request'[r].pc = "rejected"
    BY <1>0, <1>1, FindPackageStep DEF Goes, Ends
  <2>2. AfterFind(r) \in {"create", "write", "mark"} => request[r].ask.initial # "yes"
    BY DEF AfterFind
  <2> QED
    BY <2>1, <2>2, MarkSame DEF Untouched
<1>2. CASE ClearOthers(r)
  <2>1. \A p \in Packages \ {Package(r)} : ~package'[p].is_initial
    BY <1>0, <1>2, ClearOthersStep
  <2>2. package'[Package(r)] = package[Package(r)]
    BY <1>0, <1>2, ClearOthersStep
  <2>3. InitialPackages' \subseteq {Package(r)} \cap InitialPackages
    BY <2>1, <2>2 DEF InitialPackages
  <2> QED
    BY <2>3 DEF MarkKind
<1>3. CASE CreatePackage(r)
  <2>1. request[r].pc = "create" /\ request'[r].pc \in {"check", "rejected"}
    BY <1>0, <1>3, CreatePackageStep DEF Goes, Ends
  <2>2. CASE package' = package
    BY <2>1, <2>2, MarkSame
  <2>3. CASE package' # package
    <3> DEFINE doc == [state |-> "live", is_initial |-> request[r].ask.initial = "yes",
                       version |-> 1]
    <3>1. SetPackage(r, doc)
      BY <1>0, <1>3, <2>3, CreatePackageStep
    <3>2. doc.is_initial => request[r].ask.initial = "yes"
      OBVIOUS
    <3> HIDE DEF doc
    <3> QED
      BY <2>1, <3>1, <3>2, SetMark DEF MarkKind, Marking
  <2> QED
    BY <2>2, <2>3
<1>4. CASE WritePackage(r)
  <2>1. request[r].pc = "write" /\ request'[r].pc \in {"clear", "rejected"}
    BY <1>0, <1>4, WritePackageStep DEF Goes, Ends
  <2>2. CASE package' = package
    BY <2>1, <2>2, MarkSame
  <2>3. CASE package' # package
    <3>1. PICK doc \in PackageStates :
            /\ SetPackage(r, doc)
            /\ doc.is_initial = Flagged(package[Package(r)].is_initial,
                                        request[r].ask.initial)
      BY <1>0, <1>4, <2>3, WritePackageStep
    <3>2. request[r].ask.initial = "yes" \/
            (doc.is_initial => package[Package(r)].is_initial)
      BY <3>1 DEF Flagged
    <3> QED
      BY <2>1, <3>1, <3>2, SetMark DEF MarkKind, Marking
  <2> QED
    BY <2>2, <2>3
<1>5. CASE MarkInitial(r)
  <2>1. request[r].pc = "mark" /\ request'[r].pc \in {"clear", "rejected"}
    BY <1>0, <1>5, MarkInitialStep DEF Goes, Ends
  <2>2. CASE package' = package
    BY <2>1, <2>2, MarkSame
  <2>3. CASE package' # package
    <3>1. PICK doc \in PackageStates :
            SetPackage(r, doc) /\ doc.is_initial = (request[r].ask.initial = "yes")
      BY <1>0, <1>5, <2>3, MarkInitialStep
    <3>2. request[r].ask.initial = "yes" \/
            (doc.is_initial => package[Package(r)].is_initial)
      BY <3>1
    <3> QED
      BY <2>1, <3>1, <3>2, SetMark DEF MarkKind, Marking
  <2> QED
    BY <2>2, <2>3
<1>6. CASE DeletePackage(r)
  <2>1. request'[r].pc = "dropPrices"
    BY <1>0, <1>6, DeletePackageStep DEF Goes
  <2>2. PICK doc \in PackageStates :
          SetPackage(r, doc) /\ (doc.is_initial => package[Package(r)].is_initial)
    BY <1>0, <1>6, DeletePackageStep
  <2> QED
    BY <2>1, <2>2, SetMark DEF MarkKind
<1>7. CASE RestorePackage(r)
  <2>1. request'[r].pc \in {"restored", "revive", "rejected"}
    BY <1>0, <1>7, RestorePackageStep DEF Goes, Ends
  <2>2. CASE package' = package
    BY <2>1, <2>2, MarkSame
  <2>3. CASE package' # package
    <3>1. PICK doc \in PackageStates :
            SetPackage(r, doc) /\ doc.is_initial = package[Package(r)].is_initial
      BY <1>0, <1>7, <2>3, RestorePackageStep
    <3> QED
      BY <2>1, <3>1, SetMark DEF MarkKind
  <2> QED
    BY <2>2, <2>3
<1>8. CASE DropPrices(r) \/ DropConfigs(r) \/ FindRestored(r) \/ RevivePrices(r)
  <2>1. /\ package' = package
        /\ request'[r].pc \in {"dropConfigs", "clearPrices", "clear", "revive"}
    BY <1>0, <1>8, DropPricesStep, DropConfigsStep, FindRestoredStep, RevivePricesStep
       DEF Goes, Untouched
  <2> QED
    BY <2>1, MarkSame
<1>9. CASE ClearCache(r) \/ ReadPackage(r) \/ RecordHistory(r)
  <2>1. /\ package' = package
        /\ request'[r].pc \in {"read", "record", "done", "rejected"}
    BY <1>0, <1>9, ClearCacheStep, ReadPackageStep, RecordHistoryStep
       DEF Goes, Reads, Ends, Untouched
  <2> QED
    BY <2>1, MarkSame
<1> QED
  BY <1>1, <1>2, <1>3, <1>4, <1>5, <1>6, <1>7, <1>8, <1>9 DEF PackageStep

LEMMA ArriveMark ==
  ASSUME Base, MarkInv, NEW r \in Requests, NEW p \in Packages, NEW ask \in Asks,
         Arrive(r, p, ask), Serial
  PROVE  MarkInv'
<1>0. /\ Untouched /\ request[r].pc = "idle" /\ Begins(r, p, ask) /\ ask \in Payloads
      /\ \A s \in Requests \ {r} : Stays(s)
  BY ArriveStep DEF Base
<1>1. ~Marking(r)'
  <2>1. request'[r].ask = ask
    BY <1>0 DEF Begins
  <2>2. request'[r].pc \in {"insert", Entry(ask.call, ask.initial)}
    BY <1>0 DEF Begins
  <2>3. Entry(ask.call, ask.initial) \in EntryPcs
    BY <1>0, EntryFields
  <2>4. Entry(ask.call, ask.initial) = "create" => ask.initial # "yes"
    BY <1>0, AskFields DEF Entry, CallNames, WriteCalls, PriceCalls, Restores, Deletions
  <2> QED
    BY <2>1, <2>2, <2>3, <2>4 DEF Marking, EntryPcs
<1>2. InitialPackages' = InitialPackages
  BY <1>0 DEF InitialPackages, Untouched
<1>3. ASSUME NEW s \in Requests, Marking(s)'
      PROVE  InitialPackages \subseteq {Package(s)'}
  <2>1. s # r
    BY <1>1, <1>3
  <2>2. Marking(s) /\ Package(s)' = Package(s)
    BY <1>0, <1>3, <2>1 DEF Marking, Stays, Package
  <2> QED
    BY <2>2 DEF MarkInv
<1> QED
  BY <1>2, <1>3 DEF MarkInv

LEMMA NextMark ==
  ASSUME Base, MarkInv, [Next]_vars
  PROVE  MarkInv'
<1>0. SUFFICES ASSUME Serial' PROVE MarkInv'
  BY DEF MarkInv
<1>s. Serial
  BY <1>0, NextBase
<1>1. ASSUME NEW r \in Requests, StepOf(r)
      PROVE  MarkInv'
  <2>1. MarkKind(r)
    BY <1>1, PriceMark, RowMark, PackageMark DEF StepOf
  <2> QED
    BY <1>s, <1>1, <2>1, StepMoved, MarkKept
<1>2. ASSUME NEW r \in Requests, NEW p \in Packages, NEW ask \in Asks,
             Arrive(r, p, ask)
      PROVE  MarkInv'
  BY <1>s, <1>2, ArriveMark
<1>3. CASE UNCHANGED vars
  BY <1>s, <1>3 DEF vars, MarkInv, Marking, InitialPackages, Package
<1> QED
  BY <1>1, <1>2, <1>3 DEF Next, StepOf

-----------------------------------------------------------------------------
(* The initial price of each package. *)

Single(p) == \A i, j \in InitialPrices(p) : i = j
JobOf(r, i) == request[r].job[i]
Active(r, i) == JobOf(r, i).step # "idle"
Listed(r) == DOMAIN Prices(r)

(* A price write of a request that is alone.  A deletion goes on after a   *)
(* refusal; an update never does, as the rows it writes are there.  A job  *)
(* about to set the flag has taken it from all others: another one may set *)
(* it on a live row, but only while an update's jobs run together.         *)
JobKindOk(r, i) ==
  /\ IF JobOf(r, i).kind = "delete"
     THEN /\ request[r].pc \in {"remove", "priceRoute", "rejected"}
          /\ JobOf(r, i).is_initial = "unset"
     ELSE request[r].pc \in {"rewrite", "elect", "priceRoute"}
  /\ JobOf(r, i).step = "demote" => JobOf(r, i).is_initial = "yes"
  /\ request[r].pc = "remove" => i \notin Listed(r)
  /\ request[r].pc = "elect" => JobOf(r, i).is_initial # "unset"

JobAlone(r, i) ==
  \/ request[r].pc = "priceRoute"
  \/ request[r].pc = "elect" /\ JobOf(r, i).is_initial = "yes"

JobRowsOk(r, p, i) ==
  /\ request[r].pc \in {"rewrite", "elect"} /\ JobOf(r, i).step # "clear" =>
       i \in LivePrices(p)
  /\ JobOf(r, i).is_initial = "yes" /\ JobOf(r, i).step = "write" =>
       IF request[r].pc = "rewrite" THEN InitialPrices(p) \ {i} \subseteq LivePrices(p)
       ELSE InitialPrices(p) \subseteq {i}

JobsOk(r, p) ==
  \A i \in Intervals : Active(r, i) =>
    /\ JobKindOk(r, i) /\ JobRowsOk(r, p, i)
    /\ JobAlone(r, i) => \A j \in Intervals \ {i} : ~Active(r, j)

(* What the request has seen, and the initial price it inserts. *)
SeenOk(r, p) ==
  /\ request[r].pc \in {"remove", "check", "demoteAll", "insert", "clearPrices"}
       /\ Call(r) = "updatePackage" => request[r].seen \cap Listed(r) \subseteq LivePrices(p)
  /\ request[r].pc = "insert" /\ request[r].first # {} => InitialPrices(p) = {}
  /\ \A i, j \in request[r].first : i = j

(* The flag of i is about to go. *)
Lowers(r, i) ==
  JobOf(r, i).step \in {"find", "write"} /\ JobOf(r, i).is_initial = "no"

(* Several prices are initial for the time being. *)
Tolerates(r, p) ==
  \/ request[r].pc = "rewrite" /\ InitialPrices(p) \subseteq LivePrices(p)
  \/ /\ request[r].pc = "elect"
     /\ \A i, j \in InitialPrices(p) : i = j \/ Lowers(r, i) \/ Lowers(r, j)

RowsOk(r, p) == JobsOk(r, p) /\ SeenOk(r, p)
Orderly(r, p) == Single(p) \/ Tolerates(r, p)

RowsInv ==
  Serial =>
    /\ \A r \in Requests, p \in Packages : p = Package(r) => RowsOk(r, p)
    /\ \A p \in Packages :
         Single(p) \/ \E r \in Requests : Package(r) = p /\ Tolerates(r, p)

LEMMA Own ==
  ASSUME Base, RowsInv, Serial, NEW r \in Requests, ~AtRest(r), NEW p \in Packages,
         p = Package(r)
  PROVE  RowsOk(r, p) /\ Orderly(r, p)
<1>1. \A s \in Requests \ {r} : AtRest(s)
  BY Solo
<1>2. \A s \in Requests : Tolerates(s, p) => s = r
  BY <1>1 DEF Tolerates, AtRest, Ended
<1> QED
  BY <1>2 DEF RowsInv, Orderly

LEMMA RowsKept ==
  ASSUME Base, RowsInv, Serial, NEW r \in Requests, Steady(r), Moved(r),
         NEW p \in Packages, p = Package(r), RowsOk(r, p)', Orderly(r, p)',
         \A q \in Packages \ {p} : price'[q] = price[q]
  PROVE  RowsInv'
<1>0. /\ \A s \in Requests : Package(s)' = Package(s)
      /\ \A s \in Requests \ {r} : request'[s] = request[s] /\ AtRest(s)
  BY SamePackage, Solo DEF Steady, Others, Moved
<1>1. ASSUME NEW s \in Requests, NEW q \in Packages, q = Package(s)'
      PROVE  RowsOk(s, q)'
  <2>1. CASE s = r
    BY <1>0, <1>1, <2>1
  <2>2. CASE s # r
    <3>1. AtRest(s) /\ request'[s] = request[s] /\ q = Package(s)
      BY <1>0, <1>1, <2>2
    <3>2. \A i \in Intervals : ~Active(s, i)'
      BY <3>1 DEF AtRest, JobsDone, Active, JobOf
    <3>3. \A i, j \in request'[s].first : i = j
      BY <3>1 DEF RowsInv, RowsOk, SeenOk
    <3>4. request'[s].pc \in {"idle", "done", "rejected"}
      BY <3>1 DEF AtRest, Ended
    <3> QED
      BY <3>2, <3>3, <3>4 DEF RowsOk, JobsOk, SeenOk
  <2> QED
    BY <2>1, <2>2
<1>2. ASSUME NEW q \in Packages
      PROVE  Single(q)' \/ \E s \in Requests : Package(s)' = q /\ Tolerates(s, q)'
  <2>1. CASE q = p
    BY <1>0, <2>1 DEF Orderly
  <2>2. CASE q # p
    <3>1. \A s \in Requests : Package(s) = q => ~Tolerates(s, q)
      BY <1>0, <2>2 DEF Tolerates, AtRest, Ended
    <3>2. Single(q)
      BY <3>1 DEF RowsInv
    <3> QED
      BY <2>2, <3>2 DEF Single, InitialPrices
  <2> QED
    BY <2>1, <2>2
<1> QED
  BY <1>1, <1>2 DEF RowsInv

(* Where one price is initial, no job is left to do and none is inserted. *)
LEMMA Calm ==
  ASSUME NEW r \in Requests, NEW p \in Packages,
         Single(p), InitialPrices(p)' \subseteq InitialPrices(p),
         \A i \in Intervals : ~Active(r, i)',
         request'[r].pc = "insert" => request'[r].first = {},
         request'[r].pc \in {"remove", "check", "demoteAll", "insert", "clearPrices"} =>
           \/ Call(r)' # "updatePackage"
           \/ (request'[r].seen \cap Listed(r)') \subseteq LivePrices(p)',
         \A i, j \in request'[r].first : i = j
  PROVE  RowsOk(r, p)' /\ Orderly(r, p)'
<1>1. Single(p)'
  BY DEF Single
<1> QED
  BY <1>1 DEF RowsOk, JobsOk, SeenOk, Orderly

(* Outside of these two steps. *)
LEMMA SingleThen ==
  ASSUME NEW r \in Requests, NEW p \in Packages, Orderly(r, p),
         request[r].pc \notin {"rewrite", "elect"}
  PROVE  Single(p)
BY DEF Orderly, Tolerates

LEMMA SameRows ==
  ASSUME NEW p, price'[p] = price[p]
  PROVE  /\ InitialPrices(p)' = InitialPrices(p) /\ LivePrices(p)' = LivePrices(p)
BY DEF InitialPrices, LivePrices

(* Steps that write no price and start no job. *)
LEMMA CalmStep ==
  ASSUME NEW r \in Requests, NEW p \in Packages, p = Package(r), RowsOk(r, p),
         Orderly(r, p), JobsDone(r), Others(r), price' = price,
         request[r].pc \notin {"rewrite", "elect"},
         request'[r].job = request[r].job,
         request'[r].first \in {{}, request[r].first},
         request'[r].pc \notin {"remove", "insert", "clearPrices"},
         request'[r].pc \in {"check", "demoteAll"} => Call(r) # "updatePackage"
  PROVE  RowsOk(r, p)' /\ Orderly(r, p)'
<1>1. Single(p) /\ InitialPrices(p)' = InitialPrices(p)
  BY SingleThen, SameRows
<1>2. \A i \in Intervals : ~Active(r, i)'
  BY DEF JobsDone, Active, JobOf
<1>3. Call(r)' = Call(r) /\ \A i, j \in request'[r].first : i = j
  BY DEF Others, Call, RowsOk, SeenOk
<1> QED
  BY <1>1, <1>2, <1>3, Calm

LEMMA FailsFirst ==
  ASSUME Base, NEW r \in Requests, NEW i \in Intervals, JobFind(r, i)
  PROVE  request'[r].first = request[r].first
<1>1. Typed /\ TypeOK
  BY PlacedHere
<1>2. CASE i \in LivePrices(request[r].package)
  BY <1>1, <1>2, JobFindStep DEF JobMoves
<1>3. CASE i \notin LivePrices(request[r].package)
  <2>1. JobFails(r, i)
    BY <1>3 DEF JobFind
  <2> QED
    BY <1>1, <2>1, RequestFields DEF JobFails, RequestStates, TypeOK
<1> QED
  BY <1>2, <1>3

(* What a step of job i leaves alone. *)
JobFrame(r, i) ==
  /\ request'[r].seen = request[r].seen /\ request'[r].first = request[r].first
  /\ Listed(r)' = Listed(r) /\ Call(r)' = Call(r)
  /\ \A j \in Intervals \ {i} : /\ JobOf(r, j)' = JobOf(r, j)
                                /\ Active(r, j)' = Active(r, j)
                                /\ Lowers(r, j)' = Lowers(r, j)
  /\ request[r].pc \in Waiting \cup {"rejected"}

LEMMA JobMovesFrame ==
  ASSUME Base, NEW r \in Requests, NEW i \in Intervals,
         NEW step \in {"demote", "write", "clear"}, Others(r), JobMoves(r, i, step),
         request[r].job[i].step # "idle"
  PROVE  /\ JobFrame(r, i) /\ request'[r].pc = request[r].pc
         /\ JobOf(r, i)'.step = step /\ JobOf(r, i)'.kind = JobOf(r, i).kind
         /\ JobOf(r, i)'.is_initial = JobOf(r, i).is_initial
         /\ Active(r, i) /\ Active(r, i)'
<1>1. request'[r].pc = request[r].pc
  BY DEF JobMoves
<1>2. request[r].pc \in Waiting \cup {"rejected"}
  BY <1>1, JobMoved
<1>3. Listed(r)' = Listed(r) /\ Call(r)' = Call(r)
  BY DEF Others, Listed, Prices, Call
<1>4. \A j \in Intervals \ {i} : request'[r].job[j] = request[r].job[j]
  BY DEF JobMoves
<1> QED
  BY <1>1, <1>2, <1>3, <1>4 DEF JobMoves, JobFrame, JobOf, Active, Lowers

LEMMA JobSeen ==
  ASSUME NEW r \in Requests, NEW p, NEW i \in Intervals, SeenOk(r, p), JobFrame(r, i),
         request'[r].pc \in {request[r].pc, "rejected"},
         request'[r].pc = "remove" => LivePrices(p) \cap Listed(r) \subseteq LivePrices(p)'
  PROVE  SeenOk(r, p)'
<1>1. request'[r].pc \in {"remove", "rewrite", "elect", "priceRoute", "rejected"}
  BY DEF JobFrame, Waiting
<1>2. \A x, y \in request'[r].first : x = y
  BY DEF JobFrame, SeenOk
<1>3. request'[r].pc = "remove" /\ Call(r)' = "updatePackage" =>
        request'[r].seen \cap Listed(r)' \subseteq LivePrices(p)'
  BY DEF JobFrame, SeenOk
<1> QED
  BY <1>1, <1>2, <1>3 DEF SeenOk

LEMMA JobFindRows ==
  ASSUME Base, NEW r \in Requests, NEW p \in Packages, p = Package(r),
         RowsOk(r, p), Orderly(r, p), NEW i \in Intervals, JobFind(r, i)
  PROVE  RowsOk(r, p)' /\ Orderly(r, p)' /\ price' = price
<1>1. /\ Others(r) /\ price' = price /\ request[r].job[i].step = "find"
      /\ \/ /\ i \in LivePrices(p)
            /\ IF request[r].job[i].is_initial = "yes"
               THEN JobMoves(r, i, "demote") ELSE JobMoves(r, i, "write")
         \/ /\ i \notin LivePrices(p)
            /\ request'[r].pc = "rejected" /\ request'[r].job[i] = Idle
            /\ \A j \in Intervals \ {i} : request'[r].job[j] = request[r].job[j]
  BY JobFindStep, PlacedHere DEF Steady, Untouched, Package
<1>2. InitialPrices(p)' = InitialPrices(p) /\ LivePrices(p)' = LivePrices(p)
  BY <1>1, SameRows
<1>3. /\ Active(r, i) /\ JobOf(r, i).step = "find" /\ JobKindOk(r, i)
      /\ JobRowsOk(r, p, i)
      /\ JobAlone(r, i) => \A j \in Intervals \ {i} : ~Active(r, j)
  BY <1>1 DEF Active, JobOf, RowsOk, JobsOk
<1>4. CASE i \notin LivePrices(p)
  <2>1. /\ request'[r].pc = "rejected" /\ ~Active(r, i)'
        /\ \A j \in Intervals \ {i} : JobOf(r, j)' = JobOf(r, j)
    BY <1>1, <1>4, IdleJob DEF Active, JobOf
  <2>2. request[r].pc \in {"remove", "priceRoute", "rejected"}
    BY <1>3, <1>4 DEF JobRowsOk, JobKindOk
  <2>3. Single(p)
    BY <2>2, SingleThen
  <2>4. ASSUME NEW j \in Intervals, Active(r, j)'
        PROVE  /\ JobKindOk(r, j)' /\ JobRowsOk(r, p, j)' /\ ~JobAlone(r, j)'
    <3>1. j # i /\ JobOf(r, j)' = JobOf(r, j) /\ Active(r, j)
      BY <2>1, <2>4 DEF Active
    <3>2. request[r].pc # "priceRoute" /\ JobKindOk(r, j)
      BY <1>3, <3>1 DEF JobAlone, RowsOk, JobsOk
    <3>3. JobOf(r, j).kind = "delete" /\ JobOf(r, j).is_initial = "unset"
      BY <2>2, <3>2 DEF JobKindOk
    <3> QED
      BY <2>1, <3>1, <3>2, <3>3 DEF JobKindOk, JobRowsOk, JobAlone
  <2>5. JobsOk(r, p)'
    BY <2>4 DEF JobsOk
  <2>6. SeenOk(r, p)'
    <3>1. \A x, y \in request'[r].first : x = y
      BY <1>4, FailsFirst DEF RowsOk, SeenOk
    <3> QED
      BY <2>1, <3>1 DEF SeenOk
  <2> QED
    BY <1>1, <1>2, <2>3, <2>5, <2>6 DEF RowsOk, Orderly, Single
<1>5. CASE i \in LivePrices(p)
  <2>1. PICK step \in {"demote", "write"} :
          /\ JobMoves(r, i, step)
          /\ step = "demote" <=> JobOf(r, i).is_initial = "yes"
    BY <1>1, <1>5 DEF JobOf
  <2>2. /\ JobFrame(r, i) /\ request'[r].pc = request[r].pc
        /\ JobOf(r, i)'.step = step /\ JobOf(r, i)'.kind = JobOf(r, i).kind
        /\ JobOf(r, i)'.is_initial = JobOf(r, i).is_initial
        /\ Active(r, i) /\ Active(r, i)'
    BY <1>1, <2>1, JobMovesFrame
  <2>3. JobKindOk(r, i)' /\ JobRowsOk(r, p, i)'
    BY <1>2, <1>3, <1>5, <2>1, <2>2 DEF JobKindOk, JobRowsOk, JobFrame
  <2>4. JobAlone(r, i)' => JobAlone(r, i)
    BY <2>2 DEF JobAlone
  <2>5. ASSUME NEW j \in Intervals, Active(r, j)', j # i
        PROVE  JobKindOk(r, j)' /\ JobRowsOk(r, p, j)' /\ (JobAlone(r, j)' => JobAlone(r, j))
    <3>1. Active(r, j) /\ JobOf(r, j)' = JobOf(r, j)
      BY <2>2, <2>5 DEF JobFrame
    <3>2. JobKindOk(r, j) /\ JobRowsOk(r, p, j)
      BY <3>1 DEF RowsOk, JobsOk
    <3> QED
      BY <1>2, <2>2, <3>1, <3>2 DEF JobKindOk, JobRowsOk, JobAlone, JobFrame
  <2>6. JobsOk(r, p)'
    BY <2>2, <2>3, <2>4, <2>5, <1>3 DEF JobsOk, RowsOk, JobFrame
  <2>7. SeenOk(r, p)'
    BY <1>2, <2>2, JobSeen DEF RowsOk
  <2>8. \A j \in Intervals : Lowers(r, j) => Lowers(r, j)'
    BY <2>1, <2>2 DEF Lowers, JobFrame
  <2>9. Orderly(r, p)'
    <3>1. Tolerates(r, p) => Tolerates(r, p)'
      BY <1>2, <2>2, <2>8 DEF Tolerates, InitialPrices
    <3>2. Single(p) => Single(p)'
      BY <1>2 DEF Single
    <3> QED
      BY <3>1, <3>2 DEF Orderly
  <2> QED
    BY <1>1, <2>6, <2>7, <2>9 DEF RowsOk
<1> QED
  BY <1>4, <1>5

LEMMA JobDemoteRows ==
  ASSUME Base, NEW r \in Requests, NEW p \in Packages, p = Package(r),
         RowsOk(r, p), Orderly(r, p), NEW i \in Intervals, JobDemote(r, i)
  PROVE  /\ RowsOk(r, p)' /\ Orderly(r, p)'
         /\ \A q \in Packages \ {p} : price'[q] = price[q]
<1>0. Typed /\ TypeOK
  BY PlacedHere
<1> DEFINE row == [j \in Intervals |->
             IF j = i THEN price[p][j] ELSE [price[p][j] EXCEPT !.is_initial = FALSE]]
<1>1. /\ Others(r) /\ request[r].job[i].step = "demote" /\ JobMoves(r, i, "write")
      /\ SetPrices(r, row)
  BY <1>0, JobDemoteStep DEF Steady, Package
<1>r. /\ row[i] = price[p][i]
      /\ \A j \in Intervals \ {i} : row[j] = [price[p][j] EXCEPT !.is_initial = FALSE]
  OBVIOUS
<1> HIDE DEF row
<1>2. /\ \A q \in Packages \ {p} : price'[q] = price[q]
      /\ \A j \in Intervals : price'[p][j] = row[j]
  BY <1>1 DEF SetPrices, Package
<1>3. /\ price'[p][i] = price[p][i]
      /\ \A j \in Intervals \ {i} :
           ~price'[p][j].is_initial /\ price'[p][j].state = price[p][j].state
  <2>1. ASSUME NEW j \in Intervals \ {i}
        PROVE  ~price'[p][j].is_initial /\ price'[p][j].state = price[p][j].state
    <3>1. price[p][j] \in PriceStates
      BY <1>0, PriceFields
    <3>2. price'[p][j] = [price[p][j] EXCEPT !.is_initial = FALSE]
      BY <1>r, <1>2, Zenon
    <3> QED
      BY <3>1, <3>2, Demoted
  <2> QED
    BY <1>r, <1>2, <2>1
<1>4. InitialPrices(p)' \subseteq {i} /\ LivePrices(p)' = LivePrices(p)
  BY <1>2, <1>3 DEF InitialPrices, LivePrices
<1>5. /\ JobFrame(r, i) /\ request'[r].pc = request[r].pc
      /\ JobOf(r, i)'.step = "write" /\ JobOf(r, i)'.kind = JobOf(r, i).kind
      /\ JobOf(r, i)'.is_initial = JobOf(r, i).is_initial
      /\ Active(r, i) /\ Active(r, i)' /\ JobOf(r, i).step = "demote"
  BY <1>1, JobMovesFrame DEF JobOf
<1>6. /\ JobKindOk(r, i) /\ JobRowsOk(r, p, i)
      /\ JobAlone(r, i) => \A j \in Intervals \ {i} : ~Active(r, j)
  BY <1>5 DEF RowsOk, JobsOk
<1>7. JobOf(r, i).is_initial = "yes"
  BY <1>5, <1>6 DEF JobKindOk
<1>8. /\ JobKindOk(r, i)' /\ JobRowsOk(r, p, i)'
      /\ JobAlone(r, i)' => JobAlone(r, i)
  BY <1>4, <1>5, <1>6, <1>7 DEF JobKindOk, JobRowsOk, JobFrame, JobAlone
<1>9. ASSUME NEW j \in Intervals, Active(r, j)', j # i
      PROVE  JobKindOk(r, j)' /\ JobRowsOk(r, p, j)' /\ ~JobAlone(r, j)'
  <2>1. Active(r, j) /\ JobOf(r, j)' = JobOf(r, j)
    BY <1>5, <1>9 DEF JobFrame
  <2>2. JobKindOk(r, j) /\ JobRowsOk(r, p, j)
    BY <2>1 DEF RowsOk, JobsOk
  <2>3. request[r].pc = "rewrite"
    BY <1>6, <1>7, <1>9, <2>1 DEF JobKindOk, JobAlone
  <2>4. i \in LivePrices(p)
    BY <1>5, <1>6, <2>3 DEF JobRowsOk
  <2>5. JobRowsOk(r, p, j)'
    BY <1>4, <1>5, <2>1, <2>2, <2>3, <2>4 DEF JobRowsOk
  <2> QED
    BY <1>5, <2>1, <2>2, <2>3, <2>5 DEF JobKindOk, JobAlone, JobFrame
<1>10. JobsOk(r, p)'
  BY <1>5, <1>6, <1>8, <1>9 DEF JobsOk, JobFrame
<1>11. SeenOk(r, p)'
  BY <1>4, <1>5, JobSeen DEF RowsOk
<1>12. Single(p)'
  BY <1>4 DEF Single
<1> QED
  BY <1>2, <1>10, <1>11, <1>12 DEF RowsOk, Orderly

LEMMA JobClearRows ==
  ASSUME Base, NEW r \in Requests, NEW p \in Packages, p = Package(r),
         RowsOk(r, p), Orderly(r, p), NEW i \in Intervals, JobClear(r, i)
  PROVE  RowsOk(r, p)' /\ Orderly(r, p)' /\ price' = price
<1>0. Typed
  BY PlacedHere
<1>1. /\ Others(r) /\ request[r].job[i].step = "clear" /\ price' = price
      /\ request'[r].pc = request[r].pc /\ request'[r].seen = request[r].seen
      /\ request'[r].first = request[r].first /\ request'[r].job[i] = Idle
      /\ \A j \in Intervals \ {i} : request'[r].job[j] = request[r].job[j]
  BY <1>0, JobClearStep DEF Steady
<1>2. InitialPrices(p)' = InitialPrices(p) /\ LivePrices(p)' = LivePrices(p)
  BY <1>1, SameRows
<1>3. request[r].pc \in Waiting \cup {"rejected"}
  BY <1>1, JobMoved
<1>4. Listed(r)' = Listed(r) /\ Call(r)' = Call(r)
  BY <1>1 DEF Others, Listed, Prices, Call
<1>5. JobFrame(r, i) /\ ~Active(r, i)' /\ ~Lowers(r, i)
  BY <1>1, <1>3, <1>4, IdleJob DEF JobFrame, JobOf, Active, Lowers
<1>6. ASSUME NEW j \in Intervals, Active(r, j)'
      PROVE  /\ JobKindOk(r, j)' /\ JobRowsOk(r, p, j)'
             /\ JobAlone(r, j)' => \A k \in Intervals \ {j} : ~Active(r, k)'
  <2>1. j # i /\ Active(r, j) /\ JobOf(r, j)' = JobOf(r, j)
    BY <1>5, <1>6 DEF JobFrame
  <2>2. /\ JobKindOk(r, j) /\ JobRowsOk(r, p, j)
        /\ JobAlone(r, j) => \A k \in Intervals \ {j} : ~Active(r, k)
    BY <2>1 DEF RowsOk, JobsOk
  <2>3. JobKindOk(r, j)' /\ JobRowsOk(r, p, j)' /\ (JobAlone(r, j)' => JobAlone(r, j))
    BY <1>1, <1>2, <1>4, <2>1, <2>2 DEF JobKindOk, JobRowsOk, JobAlone
  <2> QED
    BY <1>5, <2>2, <2>3 DEF JobFrame
<1>7. JobsOk(r, p)'
  BY <1>6 DEF JobsOk
<1>8. SeenOk(r, p)'
  BY <1>1, <1>2, <1>5, JobSeen DEF RowsOk
<1>9. \A j \in Intervals : Lowers(r, j) => Lowers(r, j)'
  BY <1>5 DEF JobFrame
<1>10. Orderly(r, p)'
  <2>1. Tolerates(r, p) => Tolerates(r, p)'
    BY <1>1, <1>2, <1>9 DEF Tolerates, InitialPrices
  <2>2. Single(p) => Single(p)'
    BY <1>2 DEF Single
  <2> QED
    BY <2>1, <2>2 DEF Orderly
<1> QED
  BY <1>1, <1>7, <1>8, <1>10 DEF RowsOk

(* What the write of job i does to the rows. *)
LEMMA WrittenRows ==
  ASSUME Base, NEW r \in Requests, NEW p \in Packages, p = Package(r),
         NEW i \in Intervals, JobWrite(r, i)
  PROVE  /\ \A q \in Packages \ {p} : price'[q] = price[q]
         /\ IF JobOf(r, i).kind = "delete"
            THEN /\ InitialPrices(p)' = InitialPrices(p)
                 /\ LivePrices(p) \ {i} \subseteq LivePrices(p)'
            ELSE /\ LivePrices(p)' = LivePrices(p)
                 /\ InitialPrices(p)' \subseteq InitialPrices(p) \cup {i}
                 /\ JobOf(r, i).is_initial # "yes" =>
                      InitialPrices(p)' \subseteq InitialPrices(p)
                 /\ JobOf(r, i).is_initial = "no" /\ i \in LivePrices(p) =>
                      i \notin InitialPrices(p)'
<1>0. Typed /\ TypeOK
  BY PlacedHere
<1>1. /\ SetPrices(r, [j \in Intervals |-> IF j = i THEN Rewritten(r, i) ELSE price[p][j]])
  BY <1>0, JobWriteStep DEF Package
<1>2. /\ \A q \in Packages \ {p} : price'[q] = price[q]
      /\ price'[p][i] = Rewritten(r, i)
      /\ \A j \in Intervals \ {i} : price'[p][j] = price[p][j]
  BY <1>1 DEF SetPrices, Package
<1>3. price[p][i] \in PriceStates
  BY <1>0, PriceFields
<1> DEFINE row == price[p][i]
           job == JobOf(r, i)
<1>4. Rewritten(r, i) =
        IF row.state # "live" THEN row
        ELSE IF job.kind = "delete" THEN [row EXCEPT !.state = "deleted"]
        ELSE [row EXCEPT !.is_initial = Flagged(@, job.is_initial),
                         !.by = IF job.kind = "price" THEN r ELSE @]
  BY DEF Rewritten, JobOf, Package
<1>5. CASE job.kind = "delete"
  <2>1. price'[p][i].is_initial = row.is_initial
    BY <1>2, <1>3, <1>4, <1>5 DEF PriceStates
  <2>2. InitialPrices(p)' = InitialPrices(p)
    BY <1>2, <2>1 DEF InitialPrices
  <2>3. LivePrices(p) \ {i} \subseteq LivePrices(p)'
    BY <1>2 DEF LivePrices
  <2> QED
    BY <1>2, <1>5, <2>2, <2>3
<1>6. CASE job.kind # "delete"
  <2>1. /\ price'[p][i].state = row.state
        /\ price'[p][i].is_initial =
             IF row.state = "live" THEN Flagged(row.is_initial, job.is_initial)
             ELSE row.is_initial
    BY <1>2, <1>3, <1>4, <1>6 DEF PriceStates
  <2>2. LivePrices(p)' = LivePrices(p)
    BY <1>2, <2>1 DEF LivePrices
  <2>3. InitialPrices(p)' \subseteq InitialPrices(p) \cup {i}
    BY <1>2 DEF InitialPrices
  <2>4. ASSUME job.is_initial # "yes"
        PROVE  InitialPrices(p)' \subseteq InitialPrices(p)
    BY <1>2, <2>1, <2>4 DEF InitialPrices, Flagged
  <2>5. ASSUME job.is_initial = "no", i \in LivePrices(p)
        PROVE  i \notin InitialPrices(p)'
    BY <2>1, <2>5 DEF InitialPrices, LivePrices, Flagged
  <2> QED
    BY <1>2, <1>6, <2>2, <2>3, <2>4, <2>5
<1> QED
  BY <1>5, <1>6

LEMMA JobWriteRows ==
  ASSUME Base, NEW r \in Requests, NEW p \in Packages, p = Package(r),
         RowsOk(r, p), Orderly(r, p), NEW i \in Intervals, JobWrite(r, i)
  PROVE  /\ RowsOk(r, p)' /\ Orderly(r, p)'
         /\ \A q \in Packages \ {p} : price'[q] = price[q]
<1>0. Typed /\ Others(r) /\ request[r].job[i].step = "write" /\ JobMoves(r, i, "clear")
  BY PlacedHere, JobWriteStep DEF Steady
<1>1. /\ JobFrame(r, i) /\ request'[r].pc = request[r].pc
      /\ JobOf(r, i)'.step = "clear" /\ JobOf(r, i)'.kind = JobOf(r, i).kind
      /\ JobOf(r, i)'.is_initial = JobOf(r, i).is_initial
      /\ Active(r, i) /\ Active(r, i)' /\ JobOf(r, i).step = "write"
  BY <1>0, JobMovesFrame DEF JobOf
<1>2. /\ JobKindOk(r, i) /\ JobRowsOk(r, p, i)
      /\ JobAlone(r, i) => \A j \in Intervals \ {i} : ~Active(r, j)
  BY <1>1 DEF RowsOk, JobsOk
<1>3. JobKindOk(r, i)' /\ JobRowsOk(r, p, i)' /\ (JobAlone(r, i)' => JobAlone(r, i))
  BY <1>1, <1>2 DEF JobKindOk, JobRowsOk, JobAlone, JobFrame
<1>4. \A j \in Intervals \ {i} : JobAlone(r, j)' => JobAlone(r, j)
  BY <1>1 DEF JobAlone, JobFrame
<1>5. \A q \in Packages \ {p} : price'[q] = price[q]
  BY WrittenRows
<1>6. ASSUME \A j \in Intervals \ {i} : Active(r, j) /\ JobRowsOk(r, p, j) /\ ~JobAlone(r, i)
                                          => JobRowsOk(r, p, j)'
      PROVE  JobsOk(r, p)'
  <2>1. ASSUME NEW j \in Intervals \ {i}, Active(r, j)'
        PROVE  /\ JobKindOk(r, j)' /\ JobRowsOk(r, p, j)'
               /\ JobAlone(r, j)' => \A k \in Intervals \ {j} : ~Active(r, k)'
    <3>1. Active(r, j) /\ JobOf(r, j)' = JobOf(r, j)
      BY <1>1, <2>1 DEF JobFrame
    <3>2. /\ JobKindOk(r, j) /\ JobRowsOk(r, p, j) /\ ~JobAlone(r, j) /\ ~JobAlone(r, i)
      BY <1>1, <1>2, <3>1 DEF RowsOk, JobsOk
    <3>3. JobKindOk(r, j)'
      BY <1>1, <3>1, <3>2 DEF JobKindOk, JobFrame
    <3> QED
      BY <1>4, <1>6, <3>1, <3>2, <3>3
  <2> QED
    BY <1>1, <1>2, <1>3, <2>1 DEF JobsOk, JobFrame
<1>7. CASE JobOf(r, i).kind = "delete"
  <2>1. /\ InitialPrices(p)' = InitialPrices(p)
        /\ LivePrices(p) \ {i} \subseteq LivePrices(p)'
    BY <1>7, WrittenRows
  <2>2. request[r].pc \in {"remove", "priceRoute", "rejected"}
    BY <1>2, <1>7 DEF JobKindOk
  <2>3. Single(p)'
    BY <2>1, <2>2, SingleThen DEF Single
  <2>4. SeenOk(r, p)'
    <3>1. request[r].pc = "remove" => LivePrices(p) \cap Listed(r) \subseteq LivePrices(p)'
      BY <1>2, <2>1 DEF JobKindOk
    <3> QED
      BY <1>1, <3>1, JobSeen DEF RowsOk
  <2>5. \A j \in Intervals \ {i} : Active(r, j) /\ JobRowsOk(r, p, j) => JobRowsOk(r, p, j)'
    BY <1>1, <2>1, <2>2 DEF JobRowsOk, JobFrame
  <2> QED
    BY <1>5, <1>6, <2>3, <2>4, <2>5 DEF RowsOk, Orderly
<1>8. CASE JobOf(r, i).kind # "delete"
  <2>1. /\ LivePrices(p)' = LivePrices(p)
        /\ InitialPrices(p)' \subseteq InitialPrices(p) \cup {i}
        /\ JobOf(r, i).is_initial # "yes" => InitialPrices(p)' \subseteq InitialPrices(p)
        /\ JobOf(r, i).is_initial = "no" /\ i \in LivePrices(p) => i \notin InitialPrices(p)'
    BY <1>8, WrittenRows
  <2>2. request[r].pc \in {"rewrite", "elect", "priceRoute"}
    BY <1>2, <1>8 DEF JobKindOk
  <2>3. request[r].pc \in {"rewrite", "elect"} => i \in LivePrices(p)
    BY <1>1, <1>2 DEF JobRowsOk
  <2>4. SeenOk(r, p)'
    BY <1>1, <2>1, JobSeen DEF RowsOk
  <2>5. CASE request[r].pc = "rewrite"
    <3>1. \A j \in Intervals \ {i} : Active(r, j) /\ JobRowsOk(r, p, j) => JobRowsOk(r, p, j)'
      BY <1>1, <2>1, <2>3, <2>5 DEF JobRowsOk, JobFrame
    <3>2. Orderly(r, p)'
      <4>1. CASE JobOf(r, i).is_initial = "yes"
        <5>1. InitialPrices(p)' \subseteq LivePrices(p)'
          BY <1>1, <1>2, <2>1, <2>3, <2>5, <4>1 DEF JobRowsOk
        <5> QED
          BY <1>1, <2>5, <5>1 DEF Orderly, Tolerates
      <4>2. CASE JobOf(r, i).is_initial # "yes"
        <5>1. Single(p) => Single(p)'
          BY <2>1, <4>2 DEF Single
        <5>2. Tolerates(r, p) => Tolerates(r, p)'
          BY <1>1, <2>1, <2>5, <4>2 DEF Tolerates
        <5> QED
          BY <5>1, <5>2 DEF Orderly
      <4> QED
        BY <4>1, <4>2
    <3> QED
      BY <1>5, <1>6, <2>4, <3>1, <3>2 DEF RowsOk
  <2>6. CASE JobOf(r, i).is_initial = "yes" /\ request[r].pc # "rewrite"
    <3>1. JobAlone(r, i)
      BY <2>2, <2>6 DEF JobAlone
    <3>2. InitialPrices(p)' \subseteq {i}
      BY <1>1, <1>2, <2>1, <2>6 DEF JobRowsOk
    <3>3. Single(p)'
      BY <3>2 DEF Single
    <3> QED
      BY <1>5, <1>6, <2>4, <3>1, <3>3 DEF RowsOk, Orderly
  <2>7. CASE JobOf(r, i).is_initial # "yes" /\ request[r].pc # "rewrite"
    <3>1. InitialPrices(p)' \subseteq InitialPrices(p)
      BY <2>1, <2>7
    <3>2. \A j \in Intervals \ {i} : Active(r, j) /\ JobRowsOk(r, p, j) => JobRowsOk(r, p, j)'
      BY <1>1, <2>1, <2>7, <3>1 DEF JobRowsOk, JobFrame
    <3>3. Single(p) => Single(p)'
      BY <3>1 DEF Single
    <3>4. Tolerates(r, p) => Tolerates(r, p)'
      <4>1. CASE request[r].pc = "elect" /\ Tolerates(r, p)
        <5>1. \A a, b \in InitialPrices(p) : a = b \/ Lowers(r, a) \/ Lowers(r, b)
          BY <4>1 DEF Tolerates
        <5>2. i \in InitialPrices(p)' => ~Lowers(r, i)
          BY <2>1, <2>3, <4>1 DEF Lowers
        <5>3. \A a \in InitialPrices(p)' : Lowers(r, a) => Lowers(r, a)'
          <6>1. InitialPrices(p)' \subseteq Intervals
            BY DEF InitialPrices
          <6> QED
            BY <1>1, <5>2, <6>1 DEF JobFrame
        <5>4. \A a, b \in InitialPrices(p)' : a = b \/ Lowers(r, a)' \/ Lowers(r, b)'
          BY <3>1, <5>1, <5>3
        <5> QED
          BY <1>1, <4>1, <5>4 DEF Tolerates
      <4> QED
        BY <2>7, <4>1 DEF Tolerates
    <3> QED
      BY <1>5, <1>6, <2>4, <3>2, <3>3, <3>4 DEF RowsOk, Orderly
  <2> QED
    BY <2>5, <2>6, <2>7
<1> QED
  BY <1>7, <1>8

LEMMA PriceJobRows ==
  ASSUME Base, NEW r \in Requests, NEW p \in Packages, p = Package(r),
         RowsOk(r, p), Orderly(r, p), PriceJob(r)
  PROVE  /\ RowsOk(r, p)' /\ Orderly(r, p)'
         /\ \A q \in Packages \ {p} : price'[q] = price[q]
<1>1. PICK i \in Intervals :
        JobFind(r, i) \/ JobDemote(r, i) \/ JobWrite(r, i) \/ JobClear(r, i)
  BY DEF PriceJob
<1> QED
  BY <1>1, JobFindRows, JobDemoteRows, JobWriteRows, JobClearRows

(* Jobs that begin: none of them has set a flag yet. *)
LEMMA Begun ==
  ASSUME NEW r \in Requests, NEW p \in Packages, p = Package(r),
         Others(r), NEW pc, NEW seen, NEW jobs, Starts(r, pc, seen, jobs),
         SeenOk(r, p), price' = price, pc \in {"remove", "rewrite", "elect"},
         pc = "remove" => seen \cap Listed(r) \subseteq LivePrices(p),
         \A i \in Intervals : jobs[i].step # "idle" =>
           /\ jobs[i].step = "find"
           /\ IF pc = "remove" THEN /\ jobs[i].kind = "delete" /\ i \notin Listed(r)
                                    /\ jobs[i].is_initial = "unset"
              ELSE jobs[i].kind # "delete" /\ i \in LivePrices(p)
           /\ pc = "elect" =>
                /\ jobs[i].is_initial # "unset"
                /\ jobs[i].is_initial = "yes" =>
                     \A j \in Intervals \ {i} : jobs[j].step = "idle"
  PROVE  RowsOk(r, p)'
<1>1. InitialPrices(p)' = InitialPrices(p) /\ LivePrices(p)' = LivePrices(p)
  BY SameRows
<1>2. Listed(r)' = Listed(r)
  BY DEF Others, Listed, Prices
<1>3. \A i \in Intervals : JobOf(r, i)' = jobs[i] /\ (Active(r, i)' <=> jobs[i].step # "idle")
  BY DEF Starts, JobOf, Active
<1>4. request'[r].pc = pc /\ request'[r].seen = seen
      /\ request'[r].first = request[r].first
  BY DEF Starts
<1>5. JobsOk(r, p)'
  <2>1. ASSUME NEW i \in Intervals, Active(r, i)'
        PROVE  /\ JobKindOk(r, i)' /\ JobRowsOk(r, p, i)'
               /\ JobAlone(r, i)' => \A j \in Intervals \ {i} : ~Active(r, j)'
    <3>1. JobKindOk(r, i)'
      BY <1>2, <1>3, <1>4, <2>1 DEF JobKindOk
    <3>2. JobRowsOk(r, p, i)'
      BY <1>1, <1>3, <1>4, <2>1 DEF JobRowsOk
    <3>3. JobAlone(r, i)' => \A j \in Intervals \ {i} : ~Active(r, j)'
      BY <1>3, <1>4, <2>1 DEF JobAlone
    <3> QED
      BY <3>1, <3>2, <3>3
  <2> QED
    BY <2>1 DEF JobsOk
<1>6. SeenOk(r, p)'
  BY <1>1, <1>2, <1>4 DEF SeenOk
<1> QED
  BY <1>5, <1>6 DEF RowsOk

LEMMA SeePricesRows ==
  ASSUME Base, NEW r \in Requests, NEW p \in Packages, p = Package(r),
         RowsOk(r, p), Orderly(r, p), SeePrices(r)
  PROVE  RowsOk(r, p)' /\ Orderly(r, p)' /\ price' = price
<1> DEFINE jobs == Removals(r, LivePrices(p))
<1>1. /\ Others(r) /\ Untouched /\ request[r].pc = "see"
      /\ Starts(r, "remove", LivePrices(p), jobs)
  BY SeePricesStep, PlacedHere DEF Steady
<1>2. \A i \in Intervals : jobs[i].step # "idle" =>
        /\ jobs[i].step = "find" /\ jobs[i].kind = "delete" /\ i \notin Listed(r)
        /\ jobs[i].is_initial = "unset"
  BY DEF Removals, Idle, Job, Listed
<1> HIDE DEF jobs
<1>3. RowsOk(r, p)'
  BY <1>1, <1>2, Begun DEF RowsOk, Untouched
<1>4. Single(p) /\ InitialPrices(p)' = InitialPrices(p)
  BY <1>1, SingleThen, SameRows DEF Untouched
<1> QED
  BY <1>1, <1>3, <1>4 DEF Orderly, Single, Untouched

(* The listed prices that were there are, still. *)
LEMMA RewriteRows ==
  ASSUME Base, NEW r \in Requests, NEW p \in Packages, p = Package(r),
         RowsOk(r, p), Single(p), Others(r), price' = price,
         Call(r) = "updatePackage", request[r].pc \in {"remove", "clearPrices"},
         Starts(r, "rewrite", request[r].seen, Rewrites(r))
  PROVE  RowsOk(r, p)' /\ Orderly(r, p)'
<1> DEFINE jobs == Rewrites(r)
<1>1. request[r].seen \cap Listed(r) \subseteq LivePrices(p)
  BY DEF RowsOk, SeenOk
<1>2. \A i \in Intervals : jobs[i].step # "idle" =>
        /\ jobs[i].step = "find" /\ jobs[i].kind # "delete"
        /\ i \in request[r].seen \cap Listed(r)
  BY DEF Rewrites, Idle, Job, Listed
<1> HIDE DEF jobs
<1>3. RowsOk(r, p)'
  BY <1>1, <1>2, Begun DEF RowsOk, jobs
<1>4. InitialPrices(p)' = InitialPrices(p)
  BY SameRows
<1> QED
  BY <1>3, <1>4 DEF Orderly, Single

LEMMA ReviewRows ==
  ASSUME Base, NEW r \in Requests, NEW p \in Packages, p = Package(r),
         RowsOk(r, p), Orderly(r, p), Review(r)
  PROVE  RowsOk(r, p)' /\ Orderly(r, p)' /\ price' = price
<1> DEFINE live == LivePrices(p)
           initial == {i \in live : price[p][i].is_initial}
<1>1. /\ Others(r) /\ price' = price /\ request[r].pc = "rewrite"
      /\ \E S \in SUBSET Intervals, flag \in {"yes", "no"} :
           /\ Starts(r, "elect", request[r].seen, Elects(S, flag))
           /\ \/ initial = {} /\ flag = "yes" /\ \E i \in live : S = {i}
              \/ initial = {} /\ flag = "no" /\ S = {}
              \/ flag = "no" /\ \E i \in initial : S = initial \ {i}
  BY ReviewStep, PlacedHere DEF Steady, Untouched
<1>2. PICK S \in SUBSET Intervals, flag \in {"yes", "no"} :
        /\ Starts(r, "elect", request[r].seen, Elects(S, flag))
        /\ \/ initial = {} /\ flag = "yes" /\ \E i \in live : S = {i}
           \/ initial = {} /\ flag = "no" /\ S = {}
           \/ flag = "no" /\ \E i \in initial : S = initial \ {i}
  BY <1>1
<1>3. Single(p) \/ InitialPrices(p) = initial
  BY <1>1 DEF Orderly, Tolerates, InitialPrices, LivePrices
<1>4. initial \subseteq live /\ S \subseteq live
  BY <1>2
<1>5. S # {} /\ flag = "yes" => \E i \in live : S = {i}
  BY <1>2
<1> DEFINE jobs == Elects(S, flag)
<1>6. \A i \in Intervals :
        /\ i \in S => /\ jobs[i].step = "find" /\ jobs[i].kind = "flag"
                      /\ jobs[i].is_initial = flag
        /\ i \notin S => jobs[i].step = "idle"
  BY DEF Elects, Idle, Job
<1> HIDE DEF jobs
<1>7. RowsOk(r, p)'
  <2>1. \A i \in Intervals : jobs[i].step # "idle" =>
          /\ jobs[i].step = "find" /\ jobs[i].kind # "delete" /\ i \in live
          /\ jobs[i].is_initial # "unset"
          /\ jobs[i].is_initial = "yes" =>
               \A j \in Intervals \ {i} : jobs[j].step = "idle"
    BY <1>4, <1>5, <1>6
  <2>2. Starts(r, "elect", request[r].seen, jobs)
    BY <1>2 DEF jobs
  <2> QED
    BY <1>1, <2>1, <2>2, Begun DEF RowsOk
<1>8. /\ InitialPrices(p)' = InitialPrices(p) /\ InitialPrices(p) \subseteq Intervals
      /\ request'[r].pc = "elect"
  BY <1>1, <1>2, SameRows DEF InitialPrices, Starts
<1>9. \A i \in Intervals : i \in S /\ flag = "no" => Lowers(r, i)'
  BY <1>2, <1>6 DEF Lowers, JobOf, Starts, jobs
<1>10. Orderly(r, p)'
  <2>1. CASE Single(p)
    BY <1>8, <2>1 DEF Orderly, Single
  <2>2. CASE InitialPrices(p) = initial /\ initial = {}
    BY <1>8, <2>2 DEF Orderly, Single
  <2>3. CASE InitialPrices(p) = initial /\ initial # {}
    <3>1. flag = "no" /\ \E i \in initial : S = initial \ {i}
      BY <1>2, <2>3
    <3>2. \A i, j \in InitialPrices(p)' : i = j \/ Lowers(r, i)' \/ Lowers(r, j)'
      BY <1>8, <1>9, <2>3, <3>1
    <3> QED
      BY <1>8, <3>2 DEF Orderly, Tolerates
  <2> QED
    BY <1>3, <2>1, <2>2, <2>3
<1> QED
  BY <1>1, <1>7, <1>10

LEMMA InsertRows ==
  ASSUME Base, NEW r \in Requests, NEW p \in Packages, p = Package(r),
         RowsOk(r, p), Orderly(r, p), InsertPrices(r)
  PROVE  /\ RowsOk(r, p)' /\ Orderly(r, p)'
         /\ \A q \in Packages \ {p} : price'[q] = price[q]
<1>0. Typed /\ TypeOK /\ Steady(r) /\ Moved(r) /\ JobsDone(r)
  <2>1. request[r].pc = "insert" /\ PriceStep(r)
    BY DEF InsertPrices, PriceStep
  <2> QED
    BY <2>1, PlacedHere, PriceStepMoved DEF Waiting
<1> DEFINE row == [i \in Intervals |->
             IF i \in Inserted(r)
             THEN [state |-> "live", is_initial |-> i \in request[r].first, by |-> r]
             ELSE price[p][i]]
<1>1. /\ request[r].pc = "insert" /\ SetPrices(r, row)
      /\ Goes(r, "clearPrices") \/ Ends(r, "rejected")
  BY <1>0, InsertPricesStep DEF Package
<1>2. \A i \in Intervals :
        IF i \in Inserted(r)
        THEN row[i].state = "live" /\ (row[i].is_initial <=> i \in request[r].first)
        ELSE row[i] = price[p][i]
  OBVIOUS
<1> HIDE DEF row
<1>3. /\ \A q \in Packages \ {p} : price'[q] = price[q]
      /\ \A i \in Intervals : price'[p][i] = row[i]
  BY <1>1 DEF SetPrices, Package
<1>4. Single(p)
  BY <1>1, SingleThen
<1>5. /\ LivePrices(p) \subseteq LivePrices(p)'
      /\ InitialPrices(p)' \subseteq InitialPrices(p) \cup request[r].first
  BY <1>2, <1>3 DEF LivePrices, InitialPrices
<1>6. Single(p)'
  BY <1>1, <1>4, <1>5 DEF Single, RowsOk, SeenOk
<1>7. \A i \in Intervals : ~Active(r, i)'
  BY <1>0, <1>1 DEF JobsDone, Active, JobOf, Goes, Ends
<1>8. /\ Listed(r)' = Listed(r) /\ Call(r)' = Call(r)
      /\ request'[r].first \in {{}, request[r].first}
      /\ request'[r].pc = "rejected" \/
           (request'[r].pc = "clearPrices" /\ request'[r].seen = request[r].seen)
  BY <1>0, <1>1 DEF Steady, Others, Listed, Prices, Call, Goes, Ends
<1>9. SeenOk(r, p)'
  BY <1>1, <1>5, <1>8 DEF SeenOk, RowsOk
<1> QED
  BY <1>3, <1>6, <1>7, <1>9 DEF RowsOk, JobsOk, Orderly

LEMMA DemoteAllRows ==
  ASSUME Base, NEW r \in Requests, NEW p \in Packages, p = Package(r),
         RowsOk(r, p), Orderly(r, p), DemoteAll(r)
  PROVE  /\ RowsOk(r, p)' /\ Orderly(r, p)'
         /\ \A q \in Packages \ {p} : price'[q] = price[q]
<1>0. Typed /\ TypeOK /\ Steady(r) /\ JobsDone(r)
  <2>1. request[r].pc = "demoteAll" /\ PriceStep(r)
    BY DEF DemoteAll, PriceStep
  <2> QED
    BY <2>1, PlacedHere, PriceStepMoved DEF Waiting
<1> DEFINE row == [i \in Intervals |-> [price[p][i] EXCEPT !.is_initial = FALSE]]
<1>1. request[r].pc = "demoteAll" /\ SetPrices(r, row) /\ Goes(r, "insert")
  BY <1>0, DemoteAllStep DEF Package
<1>2. ASSUME NEW i \in Intervals
      PROVE  row[i].state = price[p][i].state /\ ~row[i].is_initial
  <2>1. price[p][i] \in PriceStates
    BY <1>0, PriceFields
  <2> QED
    BY <2>1, Demoted
<1> HIDE DEF row
<1>3. /\ \A q \in Packages \ {p} : price'[q] = price[q]
      /\ \A i \in Intervals : price'[p][i] = row[i]
  BY <1>1 DEF SetPrices, Package
<1>4. InitialPrices(p)' = {} /\ LivePrices(p)' = LivePrices(p)
  BY <1>2, <1>3 DEF InitialPrices, LivePrices
<1>5. \A i \in Intervals : ~Active(r, i)'
  BY <1>0, <1>1 DEF JobsDone, Active, JobOf, Goes
<1>6. Listed(r)' = Listed(r) /\ Call(r)' = Call(r)
  BY <1>0 DEF Steady, Others, Listed, Prices, Call
<1>7. SeenOk(r, p)'
  BY <1>1, <1>4, <1>6 DEF SeenOk, RowsOk, Goes
<1> QED
  BY <1>3, <1>4, <1>5, <1>7 DEF RowsOk, JobsOk, Orderly, Single

LEMMA PriceStepRows ==
  ASSUME Base, NEW r \in Requests, NEW p \in Packages, p = Package(r),
         RowsOk(r, p), Orderly(r, p), PriceStep(r)
  PROVE  /\ RowsOk(r, p)' /\ Orderly(r, p)'
         /\ \A q \in Packages \ {p} : price'[q] = price[q]
<1>0. /\ Typed /\ Others(r) /\ Call(r) \in CallsAt(request[r].pc)
      /\ request[r].pc \notin Waiting \cup {"rejected"} => JobsDone(r)
      /\ Listed(r)' = Listed(r) /\ Call(r)' = Call(r)
  BY PlacedHere, PriceStepMoved DEF Steady, Others, Listed, Prices, Call
<1>1. CASE SeePrices(r)
  BY <1>1, SeePricesRows
<1>2. CASE Removed(r)
  <2>1. /\ price' = price /\ request[r].pc = "remove" /\ JobsDone(r)
        /\ \/ Goes(r, "check")
           \/ Starts(r, "rewrite", request[r].seen, Rewrites(r))
    BY <1>0, <1>2, RemovedStep DEF Untouched
  <2>2. Call(r) = "updatePackage" /\ Single(p)
    BY <1>0, <2>1, SingleThen DEF CallsAt
  <2>3. CASE Goes(r, "check")
    <3>1. InitialPrices(p)' = InitialPrices(p) /\ LivePrices(p)' = LivePrices(p)
      BY <2>1, SameRows
    <3>2. \A i \in Intervals : ~Active(r, i)'
      BY <2>1, <2>3 DEF JobsDone, Active, JobOf, Goes
    <3>3. request[r].seen \cap Listed(r) \subseteq LivePrices(p)
      BY <2>1, <2>2 DEF RowsOk, SeenOk
    <3> QED
      BY <1>0, <2>1, <2>2, <2>3, <3>1, <3>2, <3>3, Calm DEF Goes, RowsOk, SeenOk
  <2> QED
    BY <1>0, <2>1, <2>2, <2>3, RewriteRows
<1>3. CASE CheckIntervals(r)
  <2>1. /\ price' = price /\ request[r].pc = "check"
        /\ \/ Ends(r, "rejected")
           \/ /\ request'[r].pc =
                   IF Call(r) = "createPackagePrice" THEN "package"
                   ELSE IF request'[r].first # {} THEN "demoteAll" ELSE "insert"
              /\ \A i, j \in request'[r].first : i = j
              /\ request'[r].seen = request[r].seen
              /\ request'[r].job = request[r].job
    BY <1>0, <1>3, CheckIntervalsStep DEF Untouched
  <2>2. /\ Single(p) /\ InitialPrices(p)' = InitialPrices(p)
        /\ LivePrices(p)' = LivePrices(p)
    BY <2>1, SingleThen, SameRows
  <2>3. \A i \in Intervals : ~Active(r, i)'
    BY <1>0, <2>1 DEF JobsDone, Active, JobOf, Ends, Waiting
  <2>4. request'[r].pc = "insert" => request'[r].first = {}
    BY <2>1 DEF Ends
  <2>5. \A i, j \in request'[r].first : i = j
    BY <2>1 DEF Ends
  <2>6. request'[r].pc # "rejected" /\ Call(r) = "updatePackage" =>
          (request'[r].seen \cap Listed(r)) \subseteq LivePrices(p)
    BY <2>1 DEF Ends, RowsOk, SeenOk
  <2> QED
    BY <1>0, <2>1, <2>2, <2>3, <2>4, <2>5, <2>6, Calm
<1>4. CASE CheckPackage(r)
  <2>1. /\ price' = price /\ request[r].pc = "package"
        /\ Goes(r, "existing") \/ Ends(r, "rejected")
    BY <1>0, <1>4, CheckPackageStep DEF Untouched
  <2> QED
    BY <1>0, <2>1, CalmStep DEF Goes, Ends, Waiting
<1>5. CASE CheckExisting(r)
  <2>1. /\ price' = price /\ request[r].pc = "existing"
        /\ \/ Goes(r, IF request[r].first # {} THEN "demoteAll" ELSE "insert")
           \/ Ends(r, "rejected")
    BY <1>0, <1>5, CheckExistingStep DEF Untouched
  <2>2. /\ Single(p) /\ InitialPrices(p)' = InitialPrices(p)
        /\ Call(r) # "updatePackage"
    BY <1>0, <2>1, SingleThen, SameRows DEF CallsAt
  <2>3. \A i \in Intervals : ~Active(r, i)'
    BY <1>0, <2>1 DEF JobsDone, Active, JobOf, Goes, Ends, Waiting
  <2>4. /\ request'[r].pc = "insert" => request'[r].first = {}
        /\ \A i, j \in request'[r].first : i = j
    BY <2>1 DEF Goes, Ends, RowsOk, SeenOk
  <2> QED
    BY <1>0, <2>1, <2>2, <2>3, <2>4, Calm
<1>6. CASE DemoteAll(r)
  BY <1>6, DemoteAllRows
<1>7. CASE InsertPrices(r)
  BY <1>7, InsertRows
<1>8. CASE ClearAfterPrices(r)
  <2>1. /\ price' = price /\ request[r].pc = "clearPrices"
        /\ \/ Goes(r, "addFeatures") \/ Goes(r, "dropConfigs") \/ Goes(r, "clear")
           \/ Ends(r, "done")
           \/ /\ Call(r) = "updatePackage"
              /\ Starts(r, "rewrite", request[r].seen, Rewrites(r))
    BY <1>0, <1>8, ClearAfterPricesStep
  <2>2. CASE Starts(r, "rewrite", request[r].seen, Rewrites(r))
              /\ Call(r) = "updatePackage"
    BY <1>0, <2>1, <2>2, SingleThen, RewriteRows
  <2>3. CASE Goes(r, "addFeatures") \/ Goes(r, "dropConfigs") \/ Goes(r, "clear")
               \/ Ends(r, "done")
    BY <1>0, <2>1, <2>3, CalmStep DEF Goes, Ends, Waiting
  <2> QED
    BY <2>1, <2>2, <2>3
<1>9. CASE Review(r)
  BY <1>9, ReviewRows
<1>10. CASE Elected(r)
  <2>1. PICK pc \in {"features", "clearOthers", "write"} :
          price' = price /\ request[r].pc = "elect" /\ JobsDone(r) /\ Goes(r, pc)
    BY <1>0, <1>10, ElectedStep DEF Untouched
  <2>2. \A i \in Intervals : ~Lowers(r, i)
    BY <2>1 DEF JobsDone, Lowers, JobOf
  <2>3. Single(p)
    <3>1. InitialPrices(p) \subseteq Intervals
      BY DEF InitialPrices
    <3> QED
      BY <2>1, <2>2, <3>1 DEF Orderly, Tolerates, Single
  <2>4. InitialPrices(p)' = InitialPrices(p)
    BY <2>1, SameRows
  <2>5. \A i \in Intervals : ~Active(r, i)'
    BY <2>1 DEF JobsDone, Active, JobOf, Goes
  <2>6. \A i, j \in request'[r].first : i = j
    BY <2>1 DEF Goes, RowsOk, SeenOk
  <2> QED
    BY <2>1, <2>3, <2>4, <2>5, <2>6, Calm DEF Goes
<1>11. CASE PriceRouteDone(r)
  <2>1. /\ price' = price /\ request[r].pc = "priceRoute" /\ JobsDone(r)
        /\ Ends(r, "done")
    BY <1>0, <1>11, PriceRouteDoneStep DEF Untouched
  <2> QED
    BY <1>0, <2>1, CalmStep DEF Ends
<1> QED
  BY <1>1, <1>2, <1>3, <1>4, <1>5, <1>6, <1>7, <1>8, <1>9, <1>10, <1>11 DEF PriceStep

LEMMA FeatureStepRows ==
  ASSUME Base, NEW r \in Requests, NEW p \in Packages, p = Package(r),
         RowsOk(r, p), Orderly(r, p), FeatureStep(r)
  PROVE  RowsOk(r, p)' /\ Orderly(r, p)' /\ price' = price
<1>0. /\ Typed /\ Steady(r) /\ Others(r)
      /\ request[r].pc \notin Waiting \cup {"rejected"} => JobsDone(r)
  BY PlacedHere, FeatureStepMoved DEF Steady
<1>1. CASE SeeFeatures(r)
  <2>1. /\ price' = price /\ request[r].pc = "features"
        /\ \E pc \in {"dropFeatures", "addFeatures", "clearOthers", "write"} : Goes(r, pc)
    BY <1>0, <1>1, SeeFeaturesStep DEF Untouched
  <2> QED
    BY <1>0, <2>1, CalmStep DEF Goes, Waiting
<1>2. CASE DropFeatures(r)
  <2>1. /\ price' = price /\ request[r].pc = "dropFeatures"
        /\ \E pc \in {"addFeatures", "clearOthers", "write"} : Goes(r, pc)
    BY <1>0, <1>2, DropFeaturesStep DEF SetFeatures
  <2> QED
    BY <1>0, <2>1, CalmStep DEF Goes, Waiting
<1>3. CASE AddFeatures(r)
  <2>1. /\ price' = price /\ request[r].pc = "addFeatures"
        /\ Ends(r, "rejected") \/ \E pc \in {"clear", "reviveFeatures"} : Goes(r, pc)
    BY <1>0, <1>3, AddFeaturesStep DEF SetFeatures
  <2> QED
    BY <1>0, <2>1, CalmStep DEF Goes, Ends, Waiting
<1>4. CASE ReviveFeatures(r)
  <2>1. /\ price' = price /\ request[r].pc = "reviveFeatures"
        /\ \E pc \in {"clearOthers", "write"} : Goes(r, pc)
    BY <1>0, <1>4, ReviveFeaturesStep DEF SetFeatures
  <2> QED
    BY <1>0, <2>1, CalmStep DEF Goes, Waiting
<1> QED
  BY <1>1, <1>2, <1>3, <1>4 DEF FeatureStep

LEMMA ReadStepRows ==
  ASSUME Base, NEW r \in Requests, NEW p \in Packages, p = Package(r),
         RowsOk(r, p), Orderly(r, p), ReadStep(r)
  PROVE  RowsOk(r, p)' /\ Orderly(r, p)' /\ price' = price
<1>0. /\ Typed /\ Steady(r) /\ Others(r)
      /\ request[r].pc \notin Waiting \cup {"rejected"} => JobsDone(r)
  BY PlacedHere, ReadStepMoved DEF Steady
<1>1. /\ price' = price /\ request[r].pc \in {"get", "fetch", "store"}
      /\ Goes(r, "fetch") \/ Reads(r, "store") \/ Ends(r, "done") \/ Ends(r, "rejected")
  BY <1>0, ReadCacheStep, FetchPackageStep, StoreCacheStep DEF ReadStep, Untouched
<1> QED
  BY <1>0, <1>1, CalmStep DEF Goes, Reads, Ends, Waiting

LEMMA PackageStepRows ==
  ASSUME Base, NEW r \in Requests, NEW p \in Packages, p = Package(r),
         RowsOk(r, p), Orderly(r, p), PackageStep(r)
  PROVE  /\ RowsOk(r, p)' /\ Orderly(r, p)'
         /\ \A q \in Packages \ {p} : price'[q] = price[q]
<1>0. /\ Typed /\ Steady(r) /\ Others(r) /\ Call(r) \in CallsAt(request[r].pc)
      /\ request[r].pc \notin Waiting \cup {"rejected"} => JobsDone(r)
  BY PlacedHere, PackageStepMoved DEF Steady
<1>1. CASE FindPackage(r)
  <2>1. /\ price' = price /\ request[r].pc = "find"
        /\ Ends(r, "rejected") \/
             \E pc \in {"delete", "see", "features", "clearOthers", "mark", "write"} :
               Goes(r, pc)
    BY <1>0, <1>1, FindPackageStep DEF Untouched, AfterFind
  <2> QED
    BY <1>0, <2>1, CalmStep DEF Goes, Ends, Waiting
<1>2. CASE ClearOthers(r)
  <2>1. /\ price' = price /\ request[r].pc = "clearOthers"
        /\ \E pc \in {"create", "write", "mark"} : Goes(r, pc)
    BY <1>0, <1>2, ClearOthersStep
  <2> QED
    BY <1>0, <2>1, CalmStep DEF Goes, Waiting
<1>3. CASE CreatePackage(r)
  <2>1. /\ price' = price /\ request[r].pc = "create"
        /\ Ends(r, "rejected") \/ Goes(r, "check")
    BY <1>0, <1>3, CreatePackageStep
  <2>2. Call(r) # "updatePackage"
    BY <1>0, <2>1 DEF CallsAt
  <2> QED
    BY <1>0, <2>1, <2>2, CalmStep DEF Goes, Ends, Waiting
<1>4. CASE WritePackage(r) \/ MarkInitial(r) \/ DeletePackage(r) \/ DropConfigs(r)
  <2>1. /\ price' = price /\ request[r].pc \in {"write", "mark", "delete", "dropConfigs"}
        /\ Ends(r, "rejected") \/ \E pc \in {"clear", "dropPrices"} : Goes(r, pc)
    BY <1>0, <1>4, WritePackageStep, MarkInitialStep, DeletePackageStep, DropConfigsStep
  <2>2. CASE Ends(r, "rejected")
    BY <1>0, <2>1, <2>2, CalmStep DEF Ends, Waiting
  <2>3. CASE \E pc \in {"clear", "dropPrices"} : Goes(r, pc)
    BY <1>0, <2>1, <2>3, CalmStep DEF Goes, Waiting
  <2> QED
    BY <2>1, <2>2, <2>3
<1>5. CASE RestorePackage(r) \/ FindRestored(r)
  <2>1. /\ price' = price /\ request[r].pc \in {"restore", "restored"}
        /\ Ends(r, "rejected") \/ \E pc \in {"restored", "revive", "clear"} : Goes(r, pc)
    BY <1>0, <1>5, RestorePackageStep, FindRestoredStep DEF Untouched
  <2>2. CASE Ends(r, "rejected")
    BY <1>0, <2>1, <2>2, CalmStep DEF Ends, Waiting
  <2>3. CASE \E pc \in {"restored", "revive", "clear"} : Goes(r, pc)
    BY <1>0, <2>1, <2>3, CalmStep DEF Goes, Waiting
  <2> QED
    BY <2>1, <2>2, <2>3
<1>6. CASE ClearCache(r) \/ ReadPackage(r) \/ RecordHistory(r)
  <2>1. /\ price' = price /\ request[r].pc \in {"clear", "read", "record"}
        /\ \/ Goes(r, "read") \/ Reads(r, "record")
           \/ Ends(r, "done") \/ Ends(r, "rejected")
    BY <1>0, <1>6, ClearCacheStep, ReadPackageStep, RecordHistoryStep DEF Untouched
  <2> QED
    BY <1>0, <2>1, CalmStep DEF Goes, Reads, Ends, Waiting
<1>7. CASE DropPrices(r) \/ RevivePrices(r)
  <2>1. /\ request[r].pc \in {"dropPrices", "revive"}
        /\ \E pc \in {"dropConfigs", "clearPrices"} : Goes(r, pc)
        /\ \A q \in Packages \ {p} : price'[q] = price[q]
        /\ \A i \in Intervals : price'[p][i].is_initial => price[p][i].is_initial
    BY <1>0, <1>7, DropPricesStep, RevivePricesStep
  <2>2. InitialPrices(p)' \subseteq InitialPrices(p)
    BY <2>1 DEF InitialPrices
  <2>3. Single(p) /\ JobsDone(r)
    BY <1>0, <2>1, SingleThen DEF Waiting
  <2>4. Call(r)' # "updatePackage"
    BY <1>0, <2>1 DEF CallsAt, Deletions, Restores, Others, Call
  <2>5. /\ \A i \in Intervals : ~Active(r, i)'
        /\ \A i, j \in request'[r].first : i = j
    BY <2>1, <2>3 DEF JobsDone, Active, JobOf, Goes, RowsOk, SeenOk
  <2> QED
    BY <2>1, <2>2, <2>3, <2>4, <2>5, Calm DEF Goes
<1> QED
  BY <1>1, <1>2, <1>3, <1>4, <1>5, <1>6, <1>7 DEF PackageStep

LEMMA StepRows ==
  ASSUME Base, NEW r \in Requests, NEW p \in Packages, p = Package(r),
         RowsOk(r, p), Orderly(r, p), StepOf(r)
  PROVE  /\ RowsOk(r, p)' /\ Orderly(r, p)'
         /\ \A q \in Packages \ {p} : price'[q] = price[q]
<1>1. CASE PriceJob(r)
  BY <1>1, PriceJobRows
<1>2. CASE PriceStep(r)
  BY <1>2, PriceStepRows
<1>3. CASE FeatureStep(r)
  BY <1>3, FeatureStepRows
<1>4. CASE PackageStep(r)
  BY <1>4, PackageStepRows
<1>5. CASE ReadStep(r)
  BY <1>5, ReadStepRows
<1> QED
  BY <1>1, <1>2, <1>3, <1>4, <1>5 DEF StepOf

(* What a price route begins with: one job, to find its row. *)
LEMMA EntryRows ==
  ASSUME NEW ask \in Payloads, NEW i \in Intervals,
         EntryJobs(ask.call, ask.prices)[i].step # "idle"
  PROVE  /\ Entry(ask.call, ask.initial) = "priceRoute"
         /\ ask.call # "createPackagePrices"
         /\ EntryJobs(ask.call, ask.prices)[i].step = "find"
         /\ EntryJobs(ask.call, ask.prices)[i].kind = "delete" =>
              EntryJobs(ask.call, ask.prices)[i].is_initial = "unset"
         /\ \A j \in Intervals \ {i} : EntryJobs(ask.call, ask.prices)[j].step = "idle"
<1> DEFINE jobs == EntryJobs(ask.call, ask.prices)
<1>1. \A j \in Intervals :
        /\ jobs[j].step \in {"idle", "find"}
        /\ jobs[j].step = "find" =>
             /\ ask.call \in {"updatePackagePrice", "deletePackagePrice"}
             /\ j \in DOMAIN ask.prices
  BY EntryFields
<1>2. ask.call \in {"updatePackagePrice", "deletePackagePrice"} /\ i \in DOMAIN ask.prices
  BY <1>1
<1>3. \E j \in Intervals : DOMAIN ask.prices = {j}
  BY <1>2 DEF Payloads, WriteCalls, PriceCalls
<1>4. DOMAIN ask.prices = {i}
  BY <1>2, <1>3
<1>5. Entry(ask.call, ask.initial) = "priceRoute"
  BY <1>2 DEF Entry, Restores, Deletions
<1>6. jobs[i].kind = "delete" => jobs[i].is_initial = "unset"
  BY <1>2 DEF EntryJobs, Job
<1>7. jobs[i].step = "find" /\ \A j \in Intervals \ {i} : jobs[j].step = "idle"
  BY <1>1, <1>4
<1> QED
  BY <1>2, <1>5, <1>6, <1>7

LEMMA RestRows ==
  ASSUME NEW s \in Requests, NEW q \in Packages, AtRest(s),
         request'[s].pc = request[s].pc, request'[s].job = request[s].job,
         \A i, j \in request'[s].first : i = j
  PROVE  RowsOk(s, q)'
<1>1. \A i \in Intervals : ~Active(s, i)'
  BY DEF AtRest, JobsDone, Active, JobOf
<1>2. request'[s].pc \in {"idle", "done", "rejected"}
  BY DEF AtRest, Ended
<1> QED
  BY <1>1, <1>2 DEF RowsOk, JobsOk, SeenOk

LEMMA BeginRows ==
  ASSUME NEW r \in Requests, NEW p \in Packages, NEW ask \in Payloads,
         Begins(r, p, ask)
  PROVE  RowsOk(r, p)'
<1>0. /\ request'[r].job = EntryJobs(ask.call, ask.prices)
      /\ request'[r].seen = {} /\ \A i, j \in request'[r].first : i = j
      /\ request'[r].pc =
           IF ask.call = "createPackagePrices" /\ request'[r].first = {} THEN "insert"
           ELSE Entry(ask.call, ask.initial)
      /\ Entry(ask.call, ask.initial) \in EntryPcs
  BY EntryFields DEF Begins
<1>1. ASSUME NEW i \in Intervals, Active(r, i)'
      PROVE  /\ JobKindOk(r, i)' /\ JobRowsOk(r, p, i)'
             /\ \A j \in Intervals \ {i} : ~Active(r, j)'
  <2>1. EntryJobs(ask.call, ask.prices)[i].step # "idle"
    BY <1>0, <1>1 DEF Active, JobOf
  <2>2. /\ request'[r].pc = "priceRoute" /\ request'[r].job[i].step = "find"
        /\ request'[r].job[i].kind = "delete" => request'[r].job[i].is_initial = "unset"
        /\ \A j \in Intervals \ {i} : request'[r].job[j].step = "idle"
    BY <1>0, <2>1, EntryRows
  <2>3. JobKindOk(r, i)'
    BY <2>2 DEF JobKindOk, JobOf
  <2>4. JobRowsOk(r, p, i)'
    BY <2>2 DEF JobRowsOk, JobOf
  <2> QED
    BY <2>2, <2>3, <2>4 DEF Active, JobOf
<1>2. JobsOk(r, p)'
  BY <1>1 DEF JobsOk
<1>3. request'[r].pc = "insert" => request'[r].first = {}
  BY <1>0 DEF EntryPcs
<1>4. SeenOk(r, p)'
  BY <1>0, <1>3 DEF SeenOk
<1> QED
  BY <1>2, <1>4 DEF RowsOk

LEMMA ArriveRows ==
  ASSUME Base, RowsInv, NEW r \in Requests, NEW p \in Packages, NEW ask \in Asks,
         Arrive(r, p, ask), Serial, Serial'
  PROVE  RowsInv'
<1>0. /\ Untouched /\ request[r].pc = "idle" /\ Begins(r, p, ask) /\ ask \in Payloads
      /\ \A s \in Requests \ {r} : Stays(s)
  BY ArriveStep DEF Base
<1>1. request'[r].pc # "idle"
  BY <1>0, EntryFields DEF Begins, EntryPcs
<1>2. \A s \in Requests : AtRest(s)
  BY <1>0, <1>1 DEF Serial, Begins, UnderWay
<1>3. Package(r)' = p
  BY <1>0 DEF Begins, Package
<1>4. ASSUME NEW s \in Requests, NEW q \in Packages, q = Package(s)'
      PROVE  RowsOk(s, q)'
  <2>1. CASE s = r
    BY <1>0, <1>3, <1>4, <2>1, BeginRows
  <2>2. CASE s # r
    <3>1. Stays(s) /\ AtRest(s) /\ Package(s) = q
      BY <1>0, <1>2, <1>4, <2>2 DEF Stays, Package
    <3>2. \A i, j \in request'[s].first : i = j
      BY <3>1 DEF RowsInv, RowsOk, SeenOk, Stays
    <3> QED
      BY <3>1, <3>2, RestRows DEF Stays
  <2> QED
    BY <2>1, <2>2
<1>5. ASSUME NEW q \in Packages
      PROVE  Single(q)'
  <2>1. \A s \in Requests : ~Tolerates(s, q)
    BY <1>2 DEF Tolerates, AtRest, Ended
  <2>2. Single(q)
    BY <2>1 DEF RowsInv
  <2> QED
    BY <1>0, <2>2 DEF Single, InitialPrices, Untouched
<1> QED
  BY <1>4, <1>5 DEF RowsInv

LEMMA NextRows ==
  ASSUME Base, RowsInv, [Next]_vars
  PROVE  RowsInv'
<1>0. SUFFICES ASSUME Serial' PROVE RowsInv'
  BY DEF RowsInv
<1>s. Serial
  BY <1>0, NextBase
<1>1. ASSUME NEW r \in Requests, StepOf(r)
      PROVE  RowsInv'
  <2>1. Steady(r) /\ Moved(r) /\ ~AtRest(r)
    BY <1>1, StepMoved DEF Moved
  <2>2. PICK p \in Packages : p = Package(r)
    BY PlacedHere, RequestFields DEF Package
  <2>3. RowsOk(r, p) /\ Orderly(r, p)
    BY <1>s, <2>1, <2>2, Own
  <2>4. /\ RowsOk(r, p)' /\ Orderly(r, p)'
        /\ \A q \in Packages \ {p} : price'[q] = price[q]
    BY <1>1, <2>2, <2>3, StepRows
  <2> QED
    BY <1>s, <2>1, <2>2, <2>4, RowsKept
<1>2. ASSUME NEW r \in Requests, NEW p \in Packages, NEW ask \in Asks,
             Arrive(r, p, ask)
      PROVE  RowsInv'
  BY <1>0, <1>s, <1>2, ArriveRows
<1>3. CASE UNCHANGED vars
  <2>1. request' = request /\ price' = price
    BY <1>3 DEF vars
  <2>2. \A p \in Packages : /\ InitialPrices(p)' = InitialPrices(p)
                             /\ LivePrices(p)' = LivePrices(p)
                             /\ Single(p)' = Single(p)
    BY <2>1 DEF InitialPrices, LivePrices, Single
  <2>3. \A r \in Requests, p \in Packages : RowsOk(r, p)' = RowsOk(r, p)
    BY <2>1, <2>2 DEF RowsOk, JobsOk, JobKindOk, JobRowsOk, JobAlone, SeenOk, Active,
       JobOf, Listed, Prices, Call
  <2>4. \A r \in Requests, p \in Packages : Tolerates(r, p)' = Tolerates(r, p)
    BY <2>1, <2>2 DEF Tolerates, Lowers, JobOf
  <2>5. \A r \in Requests : Package(r)' = Package(r)
    BY <2>1 DEF Package
  <2> QED
    BY <1>s, <2>2, <2>3, <2>4, <2>5 DEF RowsInv
<1> QED
  BY <1>1, <1>2, <1>3 DEF Next, StepOf

LEMMA OneInStock ==
  ASSUME Init
  PROVE  MarkInv /\ RowsInv
<1>0. PICK stocked \in [Stock -> (SUBSET Intervals) \ {{}}],
           only \in {{}} \cup {{p} : p \in Stock}, initial \in [Stock -> Intervals] :
        /\ \A p \in Stock : initial[p] \in stocked[p]
        /\ package = [p \in Packages |->
             [state |-> IF p \in Stock THEN "live" ELSE "none",
              is_initial |-> p \in only,
              version |-> IF p \in Stock THEN 1 ELSE 0]]
        /\ price = [p \in Packages |-> [i \in Intervals |->
             [state |-> IF p \in Stock /\ i \in stocked[p] THEN "live" ELSE "none",
              is_initial |-> p \in Stock /\ i = initial[p], by |-> Nobody]]]
  BY Zenon DEF Init
<1>1. PICK q \in Packages : request = [r \in Requests |-> Fresh(q)]
  BY DEF Init
<1>2. ASSUME NEW r \in Requests
      PROVE  request[r].pc = "idle" /\ request[r].first = {} /\ JobsDone(r)
  BY <1>1, IdleJob DEF Fresh, JobsDone
<1>3. MarkInv
  <2>1. InitialPackages \subseteq only
    BY <1>0 DEF InitialPackages
  <2> QED
    BY <1>2, <2>1 DEF MarkInv, Marking
<1>4. \A r \in Requests, p \in Packages : RowsOk(r, p)
  BY <1>2 DEF RowsOk, JobsOk, SeenOk, JobsDone, Active, JobOf
<1>5. \A p \in Packages : Single(p)
  <2>1. \A p \in Packages : \A i \in InitialPrices(p) : i = initial[p]
    BY <1>0 DEF InitialPrices
  <2> QED
    BY <2>1 DEF Single
<1> QED
  BY <1>3, <1>4, <1>5 DEF RowsInv

(* As long as requests come one after another, at most one package is      *)
(* initial when all is quiet, and at most one price of each package,       *)
(* although the price writes of an update overlap: every route takes the   *)
(* flag from the others before it sets it (MarkInv), and an update that    *)
(* leaves several initial prices looks at them again and takes it from all *)
(* but one before it goes on (RowsInv).                                    *)
THEOREM OneIsInitial == Spec => []OneInitial
<1>1. Init => MarkInv /\ RowsInv
  BY OneInStock
<1>2. Base /\ MarkInv /\ RowsInv /\ [Next]_vars => MarkInv' /\ RowsInv'
  BY NextMark, NextRows
<1>3. MarkInv /\ RowsInv => OneInitial
  <2>1. SUFFICES ASSUME MarkInv, RowsInv, Serial, Quiet
                 PROVE  /\ Cardinality(InitialPackages) <= 1
                        /\ \A p \in Packages : Cardinality(InitialPrices(p)) <= 1
    BY DEF OneInitial
  <2>2. \A p, q \in InitialPackages : p = q
    BY <2>1 DEF MarkInv
  <2>3. \A r \in Requests : AtRest(r)
    BY <2>1 DEF Quiet, UnderWay
  <2>4. \A r \in Requests, p \in Packages : ~Tolerates(r, p)
    BY <2>3 DEF Tolerates, AtRest, Ended
  <2>5. \A p \in Packages : Single(p)
    BY <2>1, <2>4 DEF RowsInv
  <2> QED
    BY <2>2, <2>5, AtMostOne DEF Single
<1> QED
  BY <1>1, <1>2, <1>3, BaseInvariant, PTL DEF Spec
=============================================================================
