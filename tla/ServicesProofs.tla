--------------------------- MODULE ServicesProofs ---------------------------
(***************************************************************************)
(* Usage: its types, its overdrafts and its answers, for any number of     *)
(* usages, packages, minimums, costs and events.  Files: bytes and         *)
(* documents part only for the reasons named, for any number of documents, *)
(* requests and failures.  The two share nothing.                          *)
(***************************************************************************)
EXTENDS Usage, Files, TLAPS

-----------------------------------------------------------------------------
(* Usage *)

LEMMA TheIn ==
  ASSUME NEW S, NEW default, S # {}
  PROVE  The(S, default) \in S
BY DEF The

LEMMA TheNone ==
  ASSUME NEW default
  PROVE  The({}, default) = default
BY DEF The

LEMMA TheOnly ==
  ASSUME NEW x, NEW default
  PROVE  The({x}, default) = x
BY DEF The

LEMMA OneOf ==
  ASSUME NEW S, NEW T \in AtMostOne(S)
  PROVE  T \subseteq S
BY DEF AtMostOne

(* A wallet is none or one number. *)
Balance == The(wallet, 0)
LEMMA WalletIs ==
  ASSUME UsageTypeOK
  PROVE  /\ wallet = {} \/ wallet = {Balance}
         /\ Balance \in Int
<1>1. CASE wallet = {}
  BY <1>1, TheNone DEF Balance
<1>2. CASE wallet # {}
  <2>1. Balance \in wallet
    BY <1>2, TheIn DEF Balance
  <2> QED
    BY <2>1 DEF UsageTypeOK
<1> QED
  BY <1>1, <1>2

-----------------------------------------------------------------------------
(* What a usage under way has read: the balance it read is not above the   *)
(* present one and what others took since, and it was let in with it.      *)
Active(q) == q.pc \in Starting \cup {"running"}
Local(q) ==
  /\ q.pc # "reading" => q.todo = {}
  /\ q.pc = "running" => q.min <= The(q.wallet, 0)
  /\ q.pc = "storing" \/ "store" \in q.todo => q.min \in Minimums
  /\ q.pc \in {"config", "feature", "storing"} => q.package # {}
Held(q, balance) ==
  "wallet" \notin q.todo =>
    IF q.named THEN The(q.wallet, 0) <= balance + q.lowered ELSE q.wallet = {}

Steady ==
  \A u \in Usages : UnderWay(u) => Local(usage[u]) /\ Held(usage[u], Balance)
UsageInv == UsageTypeOK /\ Steady

(* What a step leaves: the types, what the others have read, and no charge *)
(* that was not covered.                                                   *)
Covered == \A u \in Usages : ChargeWasCovered(u)
StepOK == usage' \in [Usages -> UsageStates] /\ Steady' /\ Covered

LEMMA InitUsage == UsageInit => UsageInv
<1> SUFFICES ASSUME UsageInit PROVE UsageInv
  OBVIOUS
<1>1. UsageTypeOK
  <2>1. usage \in [Usages -> UsageStates]
    BY DEF UsageInit, UsageStates, Reads, Starting
  <2>2. {endpoint, endpointCopy} \subseteq AtMostOne(Minimums)
    BY DEF UsageInit, AtMostOne
  <2>3. /\ configCopy \in [Packages -> AtMostOne(Minimums)]
        /\ config \in [Packages -> [endpoint : AtMostOne(Minimums),
                                    feature : AtMostOne(Minimums)]]
    <3>1. {} \in AtMostOne(Minimums)
      BY DEF AtMostOne
    <3> QED
      BY <3>1 DEF UsageInit, NoConfig
  <2>4. wallet \subseteq Int /\ \A b, c \in wallet : b = c
    BY UsageAssumption DEF UsageInit
  <2>5. /\ subscription \in AtMostOne(Packages) /\ over \in BOOLEAN
        /\ clearing \in BOOLEAN /\ strays \in Nat /\ taking \in AtMostOne(Costs)
    BY DEF UsageInit, AtMostOne
  <2>6. events \in 0..MaxEvents
    BY UsageAssumption DEF UsageInit
  <2> QED
    BY <2>1, <2>2, <2>3, <2>4, <2>5, <2>6 DEF UsageTypeOK
<1>2. ASSUME NEW u \in Usages PROVE ~UnderWay(u)
  <2>1. usage[u].pc = "idle"
    BY DEF UsageInit
  <2> QED
    BY <2>1 DEF UnderWay, Starting
<1> QED
  BY <1>1, <1>2 DEF UsageInv, Steady

(* The comparison, and what follows the last of the three reads.           *)
LEMMA DecidedIs ==
  ASSUME NEW q \in UsageStates
  PROVE  /\ \E pc \in {"running", "denied"} : Decided(q) = [q EXCEPT !.pc = pc]
         /\ Decided(q).pc \in {"running", "denied"}
         /\ Decided(q).pc = "running" => q.min <= The(q.wallet, 0)
<1>1. q.min \in Int /\ The(q.wallet, 0) \in Int
  <2>1. CASE q.wallet = {}
    BY <2>1, TheNone DEF UsageStates
  <2>2. CASE q.wallet # {}
    <3>1. The(q.wallet, 0) \in q.wallet
      BY <2>2, TheIn
    <3> QED
      BY <3>1 DEF UsageStates
  <2> QED
    BY <2>1, <2>2
<1> QED
  BY <1>1 DEF Decided, Covers, UsageStates

LEMMA ProceedIs ==
  ASSUME NEW q \in UsageStates, q.pc = "reading"
  PROVE  /\ \E pc \in {"reading", "creating", "config", "running", "denied"} :
              Proceed(q) = [q EXCEPT !.pc = pc]
         /\ Proceed(q).pc # "reading" => q.todo = {}
         /\ Proceed(q).pc = "running" => q.min <= The(q.wallet, 0)
         /\ Proceed(q).pc = "config" => q.package # {}
<1>1. CASE q.todo # {}
  <2>1. Proceed(q) = [q EXCEPT !.pc = "reading"]
    BY <1>1 DEF Proceed, UsageStates
  <2> QED
    BY <2>1 DEF UsageStates
<1>2. CASE q.todo = {} /\ q.wallet = {}
  <2>1. Proceed(q) = [q EXCEPT !.pc = "creating"]
    BY <1>2 DEF Proceed
  <2> QED
    BY <1>2, <2>1 DEF UsageStates
<1>3. CASE q.todo = {} /\ q.wallet # {} /\ Restricted(q.package)
  <2>1. \/ Proceed(q) = [q EXCEPT !.pc = "config"] /\ Included(q.package)
        \/ Proceed(q) = [q EXCEPT !.pc = "denied"]
    BY <1>3 DEF Proceed
  <2> QED
    BY <1>3, <2>1 DEF UsageStates, Included
<1>4. CASE q.todo = {} /\ q.wallet # {} /\ ~Restricted(q.package)
  <2>1. Proceed(q) = Decided(q)
    BY <1>4 DEF Proceed
  <2> QED
    BY <1>4, <2>1, DecidedIs
<1> QED
  BY <1>1, <1>2, <1>3, <1>4

-----------------------------------------------------------------------------
(* A step of one start that changes no balance. *)
LEMMA OwnStep ==
  ASSUME UsageInv, NEW u \in Usages, NEW q \in UsageStates, UnderWay(u),
         usage' = [usage EXCEPT ![u] = q], wallet' = wallet, q.pc # "charged",
         Active(q) => Local(q) /\ Held(q, Balance)
  PROVE  StepOK
<1>1. usage' \in [Usages -> UsageStates]
  BY DEF UsageInv, UsageTypeOK
<1>2. usage'[u] = q /\ \A v \in Usages \ {u} : usage'[v] = usage[v]
  BY DEF UsageInv, UsageTypeOK
<1>3. Balance' = Balance
  BY DEF Balance
<1>4. Steady'
  BY <1>2, <1>3 DEF Steady, UsageInv, UnderWay, Active
<1>5. Covered
  BY <1>2 DEF Covered, ChargeWasCovered
<1> QED
  BY <1>1, <1>4, <1>5 DEF StepOK

(* One of the three reads, with what follows the last of them. *)
LEMMA ReadStep ==
  ASSUME UsageInv, NEW u \in Usages, NEW q \in UsageStates,
         usage[u].pc = "reading", q.pc = "reading",
         usage' = [usage EXCEPT ![u] = Proceed(q)], wallet' = wallet,
         Held(q, Balance),
         "store" \in q.todo => q.min \in Minimums
  PROVE  StepOK
<1>1. PICK pc \in {"reading", "creating", "config", "running", "denied"} :
        Proceed(q) = [q EXCEPT !.pc = pc]
  BY ProceedIs
<1>2. Proceed(q) \in UsageStates /\ Proceed(q).pc = pc
  BY <1>1 DEF UsageStates, Starting
<1>3. Held(Proceed(q), Balance)
  BY <1>1 DEF Held, UsageStates
<1>4. Local(Proceed(q))
  BY <1>1, <1>2, ProceedIs DEF Local, UsageStates
<1>6. UnderWay(u)
  BY DEF UnderWay, Starting
<1> QED
  BY <1>2, <1>3, <1>4, <1>6, OwnStep

(* The comparison at the end of a start. *)
LEMMA DecideStep ==
  ASSUME UsageInv, NEW u \in Usages, NEW q \in UsageStates, UnderWay(u),
         usage' = [usage EXCEPT ![u] = Decided(q)], wallet' = wallet,
         Held(q, Balance), q.todo = {}
  PROVE  StepOK
<1>1. PICK pc \in {"running", "denied"} : Decided(q) = [q EXCEPT !.pc = pc]
  BY DecidedIs
<1>2. Decided(q) \in UsageStates /\ Decided(q).pc = pc
  BY <1>1 DEF UsageStates
<1>3. Held(Decided(q), Balance)
  BY <1>1 DEF Held, UsageStates
<1>4. Local(Decided(q))
  BY <1>1, <1>2, DecidedIs DEF Local, UsageStates
<1> QED
  BY <1>2, <1>3, <1>4, OwnStep

LEMMA ReadWalletInv ==
  ASSUME UsageInv, NEW u \in Usages, ReadWallet(u)
  PROVE  UsageInv' /\ Covered
<1> DEFINE q == [usage[u] EXCEPT !.todo = @ \ {"wallet"},
                                 !.wallet = IF usage[u].named THEN wallet ELSE {}]
<1>1. usage[u] \in UsageStates /\ usage[u].pc = "reading" /\ UnderWay(u)
  BY DEF UsageInv, UsageTypeOK, ReadWallet, UnderWay, Starting
<1>2. q \in UsageStates /\ q.pc = "reading"
  BY <1>1 DEF UsageStates, UsageInv, UsageTypeOK
<1>3. Balance \in Int
  BY WalletIs DEF UsageInv
<1>4. Held(q, Balance)
  BY <1>1, <1>3, TheNone DEF Held, UsageStates, Balance
<1>5. "store" \in q.todo => q.min \in Minimums
  BY <1>1 DEF UsageInv, Steady, Local, UsageStates
<1>6. usage' = [usage EXCEPT ![u] = Proceed(q)] /\ wallet' = wallet
  BY DEF ReadWallet
<1> HIDE DEF q
<1>7. StepOK
  BY <1>1, <1>2, <1>4, <1>5, <1>6, ReadStep
<1> QED
  BY <1>7 DEF StepOK, UsageInv, UsageTypeOK, ReadWallet

LEMMA ReadSubscriptionInv ==
  ASSUME UsageInv, NEW u \in Usages, ReadSubscription(u)
  PROVE  UsageInv' /\ Covered
<1> DEFINE q == [usage[u] EXCEPT !.todo = @ \ {"subscription"},
                                 !.package = IF usage[u].named THEN Current ELSE {}]
<1>1. usage[u] \in UsageStates /\ usage[u].pc = "reading" /\ UnderWay(u)
  BY DEF UsageInv, UsageTypeOK, ReadSubscription, UnderWay, Starting
<1>2. subscription \subseteq Packages
  BY OneOf DEF UsageInv, UsageTypeOK
<1>3. q \in UsageStates /\ q.pc = "reading"
  BY <1>1, <1>2 DEF UsageStates, Current
<1>4. Held(usage[u], Balance) /\ Local(usage[u])
  BY <1>1 DEF UsageInv, Steady
<1>5. Held(q, Balance)
  BY <1>1, <1>4 DEF Held, UsageStates
<1>6. "store" \in q.todo => q.min \in Minimums
  BY <1>1, <1>4 DEF Local, UsageStates
<1>7. usage' = [usage EXCEPT ![u] = Proceed(q)] /\ wallet' = wallet
  BY DEF ReadSubscription
<1> HIDE DEF q
<1>8. StepOK
  BY <1>1, <1>3, <1>5, <1>6, <1>7, ReadStep
<1> QED
  BY <1>8 DEF StepOK, UsageInv, UsageTypeOK, ReadSubscription

(* What a copy or a document holds is one of the minimums. *)
LEMMA MinimumIs ==
  ASSUME NEW copy \in AtMostOne(Minimums)
  PROVE  /\ The(copy, 0) \in Nat
         /\ copy # {} => The(copy, 0) \in Minimums
<1>1. CASE copy = {}
  BY <1>1, TheNone
<1>2. CASE copy # {}
  <2>1. The(copy, 0) \in Minimums
    BY <1>2, TheIn, OneOf
  <2> QED
    BY <2>1, UsageAssumption
<1> QED
  BY <1>1, <1>2

LEMMA ReadEndpointInv ==
  ASSUME UsageInv, NEW u \in Usages, ReadEndpoint(u)
  PROVE  UsageInv' /\ Covered
<1> DEFINE hit == [usage[u] EXCEPT !.todo = @ \ {"endpoint"}, !.min = The(endpointCopy, 0),
                                   !.misled = @ \/ endpoint # endpointCopy]
           miss == [usage[u] EXCEPT !.todo = (@ \ {"endpoint"}) \cup {"store"},
                                    !.min = The(endpoint, 0)]
           gone == [usage[u] EXCEPT !.pc = "denied"]
<1>1. usage[u] \in UsageStates /\ usage[u].pc = "reading" /\ UnderWay(u)
  BY DEF UsageInv, UsageTypeOK, ReadEndpoint, UnderWay, Starting
<1>2. Held(usage[u], Balance) /\ Local(usage[u])
  BY <1>1 DEF UsageInv, Steady
<1>3. endpoint \in AtMostOne(Minimums) /\ endpointCopy \in AtMostOne(Minimums)
  BY DEF UsageInv, UsageTypeOK
<1>4. /\ The(endpointCopy, 0) \in Nat
      /\ endpointCopy # {} => The(endpointCopy, 0) \in Minimums
  BY <1>3, MinimumIs
<1>5. /\ The(endpoint, 0) \in Nat
      /\ endpoint # {} => The(endpoint, 0) \in Minimums
  BY <1>3, MinimumIs
<1>6. wallet' = wallet
  BY DEF ReadEndpoint
<1>7. StepOK
  <2>1. CASE endpointCopy # {}
    <3>1. hit \in UsageStates /\ hit.pc = "reading"
      BY <1>1, <1>4 DEF UsageStates
    <3>2. Held(hit, Balance)
      BY <1>1, <1>2 DEF Held, UsageStates
    <3>3. "store" \in hit.todo => hit.min \in Minimums
      BY <1>1, <1>4, <2>1 DEF UsageStates
    <3>4. usage' = [usage EXCEPT ![u] = Proceed(hit)]
      BY <2>1 DEF ReadEndpoint
    <3> HIDE DEF hit
    <3> QED
      BY <1>1, <1>6, <3>1, <3>2, <3>3, <3>4, ReadStep
  <2>2. CASE endpointCopy = {} /\ endpoint = {}
    <3>1. gone \in UsageStates /\ gone.pc = "denied"
      BY <1>1 DEF UsageStates, Starting
    <3>2. ~Active(gone)
      BY <3>1 DEF Active, Starting
    <3>3. usage' = [usage EXCEPT ![u] = gone]
      BY <2>2 DEF ReadEndpoint
    <3> HIDE DEF gone
    <3> QED
      BY <1>1, <1>6, <3>1, <3>2, <3>3, OwnStep
  <2>3. CASE endpointCopy = {} /\ endpoint # {}
    <3>1. miss \in UsageStates /\ miss.pc = "reading"
      BY <1>1, <1>5 DEF UsageStates, Reads
    <3>2. Held(miss, Balance)
      BY <1>1, <1>2 DEF Held, UsageStates
    <3>3. Local(miss)
      BY <1>1, <1>5, <2>3 DEF Local, UsageStates
    <3>4. usage' = [usage EXCEPT ![u] = miss]
      BY <2>3 DEF ReadEndpoint
    <3> HIDE DEF miss
    <3> QED
      BY <1>1, <1>6, <3>1, <3>2, <3>3, <3>4, OwnStep
  <2> QED
    BY <2>1, <2>2, <2>3
<1> QED
  BY <1>7 DEF StepOK, UsageInv, UsageTypeOK, ReadEndpoint

LEMMA StoreEndpointInv ==
  ASSUME UsageInv, NEW u \in Usages, StoreEndpoint(u)
  PROVE  UsageInv' /\ Covered
<1> DEFINE q == [usage[u] EXCEPT !.todo = @ \ {"store"}]
<1>1. usage[u] \in UsageStates /\ usage[u].pc = "reading" /\ UnderWay(u)
  BY DEF UsageInv, UsageTypeOK, StoreEndpoint, UnderWay, Starting
<1>2. Held(usage[u], Balance) /\ Local(usage[u])
  BY <1>1 DEF UsageInv, Steady
<1>3. q \in UsageStates /\ q.pc = "reading"
  BY <1>1 DEF UsageStates
<1>4. Held(q, Balance) /\ "store" \notin q.todo
  BY <1>1, <1>2 DEF Held, UsageStates
<1>5. usage' = [usage EXCEPT ![u] = Proceed(q)] /\ wallet' = wallet
  BY DEF StoreEndpoint
<1> HIDE DEF q
<1>6. StepOK
  BY <1>1, <1>3, <1>4, <1>5, ReadStep
<1>7. endpointCopy' \in AtMostOne(Minimums)
  BY <1>2 DEF StoreEndpoint, Local, AtMostOne
<1> QED
  BY <1>6, <1>7 DEF StepOK, UsageInv, UsageTypeOK, StoreEndpoint

(* A minimum is found, the configuration is stored next; or it is not, and *)
(* the start decides with what it has.                                     *)
Store(q, found) == [q EXCEPT !.pc = "storing", !.min = The(found, @)]

LEMMA FoundStep ==
  ASSUME UsageInv, NEW u \in Usages, UnderWay(u), usage[u].pc \in {"config", "feature"},
         NEW found \in AtMostOne(Minimums), found # {}, wallet' = wallet,
         usage' = [usage EXCEPT ![u] = Store(usage[u], found)]
  PROVE  StepOK
<1> DEFINE q == Store(usage[u], found)
<1>1. usage[u] \in UsageStates /\ Held(usage[u], Balance) /\ Local(usage[u])
  BY DEF UsageInv, UsageTypeOK, Steady
<1>2. The(found, usage[u].min) \in Minimums
  BY TheIn, OneOf
<1>3. /\ q.pc = "storing" /\ q.min \in Minimums /\ q.todo = {} /\ q.wallet = usage[u].wallet
      /\ q.named = usage[u].named /\ q.package = usage[u].package
      /\ q.lowered = usage[u].lowered /\ q \in UsageStates
  BY <1>1, <1>2, UsageAssumption DEF Store, UsageStates, Starting, Local
<1>4. usage' = [usage EXCEPT ![u] = q]
  OBVIOUS
<1> HIDE DEF q
<1>5. Held(q, Balance) /\ Local(q)
  BY <1>1, <1>3 DEF Held, Local
<1> QED
  BY <1>3, <1>4, <1>5, OwnStep

LEMMA ReadConfigInv ==
  ASSUME UsageInv, NEW u \in Usages, ReadConfig(u)
  PROVE  UsageInv' /\ Covered
<1> DEFINE p == The(usage[u].package, "none")
           own == config[p].endpoint
           lied == usage[u].misled \/ configCopy[p] # Effective(p)
           hit(m) == [usage[u] EXCEPT !.min = The(configCopy[p], @), !.misled = m]
           next == [usage[u] EXCEPT !.pc = "feature"]
<1>1. usage[u] \in UsageStates /\ usage[u].pc = "config" /\ UnderWay(u)
  BY DEF UsageInv, UsageTypeOK, ReadConfig, UnderWay, Starting
<1>2. Held(usage[u], Balance) /\ Local(usage[u])
  BY <1>1 DEF UsageInv, Steady
<1>3. p \in Packages
  BY <1>1, <1>2, TheIn DEF Local, UsageStates
<1>4. own \in AtMostOne(Minimums) /\ configCopy[p] \in AtMostOne(Minimums)
  BY <1>3 DEF UsageInv, UsageTypeOK
<1>5. wallet' = wallet
  BY DEF ReadConfig
<1>6. StepOK
  <2>1. CASE configCopy[p] # {}
    <3>1. PICK m \in BOOLEAN : m <=> lied
      OBVIOUS
    <3>2. usage' = [usage EXCEPT ![u] = Decided(hit(m))]
      BY <2>1, <3>1 DEF ReadConfig
    <3>3. The(configCopy[p], usage[u].min) \in Nat
      BY <1>4, <2>1, TheIn, OneOf, UsageAssumption
    <3> HIDE DEF p, lied
    <3>4. hit(m) \in UsageStates /\ hit(m).todo = {}
      BY <1>1, <1>2, <3>3 DEF Local, UsageStates
    <3>5. Held(hit(m), Balance)
      BY <1>1, <1>2 DEF Held, UsageStates
    <3> HIDE DEF hit
    <3> QED
      BY <1>1, <1>5, <3>2, <3>4, <3>5, DecideStep
  <2>2. CASE configCopy[p] = {} /\ own = {}
    <3>1. usage' = [usage EXCEPT ![u] = next]
      BY <2>2 DEF ReadConfig
    <3>2. next \in UsageStates /\ next.pc = "feature"
      BY <1>1 DEF UsageStates, Starting
    <3>3. Held(next, Balance) /\ Local(next)
      BY <1>1, <1>2 DEF Held, Local, UsageStates
    <3> HIDE DEF next
    <3> QED
      BY <1>1, <1>5, <3>1, <3>2, <3>3, OwnStep
  <2>3. CASE configCopy[p] = {} /\ own # {}
    <3>1. usage' = [usage EXCEPT ![u] = Store(usage[u], own)]
      BY <2>3 DEF ReadConfig, Store
    <3> QED
      BY <1>1, <1>4, <1>5, <2>3, <3>1, FoundStep
  <2> QED
    BY <2>1, <2>2, <2>3
<1> QED
  BY <1>6 DEF StepOK, UsageInv, UsageTypeOK, ReadConfig

LEMMA ReadFeatureConfigInv ==
  ASSUME UsageInv, NEW u \in Usages, ReadFeatureConfig(u)
  PROVE  UsageInv' /\ Covered
<1> DEFINE p == The(usage[u].package, "none")
           general == config[p].feature
<1>1. usage[u] \in UsageStates /\ usage[u].pc = "feature" /\ UnderWay(u)
  BY DEF UsageInv, UsageTypeOK, ReadFeatureConfig, UnderWay, Starting
<1>2. Held(usage[u], Balance) /\ Local(usage[u])
  BY <1>1 DEF UsageInv, Steady
<1>3. p \in Packages
  BY <1>1, <1>2, TheIn DEF Local, UsageStates
<1>4. general \in AtMostOne(Minimums)
  BY <1>3 DEF UsageInv, UsageTypeOK
<1>5. wallet' = wallet
  BY DEF ReadFeatureConfig
<1>6. StepOK
  <2>1. CASE general = {}
    <3>1. usage' = [usage EXCEPT ![u] = Decided(usage[u])]
      BY <2>1 DEF ReadFeatureConfig
    <3>2. usage[u].todo = {}
      BY <1>1, <1>2 DEF Local
    <3> QED
      BY <1>1, <1>2, <1>5, <3>1, <3>2, DecideStep
  <2>2. CASE general # {}
    <3>1. usage' = [usage EXCEPT ![u] = Store(usage[u], general)]
      BY <2>2 DEF ReadFeatureConfig, Store
    <3> QED
      BY <1>1, <1>4, <1>5, <2>2, <3>1, FoundStep
  <2> QED
    BY <2>1, <2>2
<1> QED
  BY <1>6 DEF StepOK, UsageInv, UsageTypeOK, ReadFeatureConfig

LEMMA StoreConfigInv ==
  ASSUME UsageInv, NEW u \in Usages, StoreConfig(u)
  PROVE  UsageInv' /\ Covered
<1>1. usage[u] \in UsageStates /\ usage[u].pc = "storing" /\ UnderWay(u)
  BY DEF UsageInv, UsageTypeOK, StoreConfig, UnderWay, Starting
<1>2. Held(usage[u], Balance) /\ Local(usage[u])
  BY <1>1 DEF UsageInv, Steady
<1>3. usage[u].todo = {} /\ usage[u].min \in Minimums
  BY <1>1, <1>2 DEF Local
<1>4. usage' = [usage EXCEPT ![u] = Decided(usage[u])] /\ wallet' = wallet
  BY DEF StoreConfig
<1>5. StepOK
  BY <1>1, <1>2, <1>3, <1>4, DecideStep
<1>6. configCopy' \in [Packages -> AtMostOne(Minimums)]
  BY <1>3 DEF StoreConfig, UsageInv, UsageTypeOK, AtMostOne
<1> QED
  BY <1>5, <1>6 DEF StepOK, UsageInv, UsageTypeOK, StoreConfig

-----------------------------------------------------------------------------
(* A step that changes a balance, or is noted by the others. *)
Like(q, r) ==
  /\ r.pc = q.pc /\ r.named = q.named /\ r.todo = q.todo /\ r.wallet = q.wallet
  /\ r.package = q.package /\ r.min = q.min
Same(q, r) == Like(q, r) /\ r.cost = q.cost /\ r.lowered = q.lowered

LEMMA ChangedIs ==
  ASSUME NEW q \in UsageStates, NEW n \in {1, 2}
  PROVE  Changed(n, q) \in UsageStates /\ Same(q, Changed(n, q))
BY DEF Changed, UsageStates, Same, Like

LEMMA AnsweredIs ==
  ASSUME NEW f \in [Usages -> UsageStates]
  PROVE  /\ Answered(f) \in [Usages -> UsageStates]
         /\ \A u \in Usages : Same(f[u], Answered(f)[u])
<1>1. Answer(TRUE)' \in BOOLEAN /\ Answer(FALSE)' \in BOOLEAN
  BY DEF Answer
<1>2. ASSUME NEW u \in Usages
      PROVE  \E now \in BOOLEAN :
               Answered(f)[u] = IF f[u].pc \in Starting
                                THEN [f[u] EXCEPT !.answers = @ \cup {now}]
                                ELSE f[u]
  BY <1>1 DEF Answered
<1>3. ASSUME NEW u \in Usages
      PROVE  Answered(f)[u] \in UsageStates /\ Same(f[u], Answered(f)[u])
  <2>1. f[u] \in UsageStates
    OBVIOUS
  <2>2. PICK now \in BOOLEAN :
               Answered(f)[u] = IF f[u].pc \in Starting
                                THEN [f[u] EXCEPT !.answers = @ \cup {now}]
                                ELSE f[u]
    BY <1>2
  <2>3. f[u].answers \cup {now} \in SUBSET BOOLEAN
    BY <2>1 DEF UsageStates
  <2> QED
    BY <2>1, <2>2, <2>3 DEF UsageStates, Same, Like
<1>4. Answered(f) = [u \in Usages |-> Answered(f)[u]]
  BY DEF Answered
<1> QED
  BY <1>3, <1>4

LEMMA LoweredIs ==
  ASSUME UsageTypeOK, NEW n \in Nat
  PROVE  /\ Lowered(n) \in [Usages -> UsageStates]
         /\ \A u \in Usages :
              /\ Like(usage[u], Lowered(n)[u]) /\ Lowered(n)[u].cost = usage[u].cost
              /\ Lowered(n)[u].changes = usage[u].changes
              /\ Lowered(n)[u].answers = usage[u].answers
              /\ Lowered(n)[u].misled <=> usage[u].misled
              /\ Lowered(n)[u].lowered =
                   IF UnderWay(u) /\ "wallet" \notin usage[u].todo
                   THEN usage[u].lowered + n ELSE usage[u].lowered
<1>1. \A u \in Usages : usage[u] \in UsageStates
  BY DEF UsageTypeOK
<1>2. ASSUME NEW u \in Usages
      PROVE  LET q == IF UnderWay(u) /\ "wallet" \notin usage[u].todo
                      THEN [usage[u] EXCEPT !.lowered = @ + n] ELSE usage[u] IN
              /\ q \in UsageStates /\ Like(usage[u], q) /\ q.cost = usage[u].cost
              /\ q.changes = usage[u].changes
              /\ q.answers = usage[u].answers
              /\ q.misled <=> usage[u].misled
              /\ q.lowered =
                   IF UnderWay(u) /\ "wallet" \notin usage[u].todo
                   THEN usage[u].lowered + n ELSE usage[u].lowered
  BY <1>1 DEF UsageStates, Like
<1> QED
  BY <1>2 DEF Lowered

(* What holds of a start holds on when what the balance loses is noted.    *)
LEMMA HeldOn ==
  ASSUME NEW q \in UsageStates, NEW r \in UsageStates, Like(q, r),
         NEW b \in Int, NEW c \in Int,
         "wallet" \notin q.todo => b + q.lowered <= c + r.lowered,
         Local(q), Held(q, b)
  PROVE  Local(r) /\ Held(r, c)
<1>1. The(q.wallet, 0) \in Int
  <2>1. CASE q.wallet = {}
    BY <2>1, TheNone
  <2>2. CASE q.wallet # {}
    BY <2>2, TheIn DEF UsageStates
  <2> QED
    BY <2>1, <2>2
<1>2. Local(r)
  BY DEF Local, Like
<1>3. q.lowered \in Nat /\ r.lowered \in Nat
  BY DEF UsageStates
<1>4. Held(r, c)
  BY <1>1, <1>3 DEF Held, Like
<1> QED
  BY <1>2, <1>4

LEMMA ChangesSeenIs ==
  ASSUME NEW n \in {1, 2}, NEW f \in [Usages -> UsageStates], ChangesSeen(n, f)
  PROVE  /\ usage' \in [Usages -> UsageStates]
         /\ \A u \in Usages : Same(f[u], usage'[u])
<1> DEFINE g == [u \in Usages |-> Changed(n, f[u])]
<1>1. \A u \in Usages : g[u] \in UsageStates /\ Same(f[u], g[u])
  BY ChangedIs
<1>2. g \in [Usages -> UsageStates]
  BY <1>1
<1>3. usage' = Answered(g)
  BY DEF ChangesSeen
<1> HIDE DEF g
<1>4. \A u \in Usages : Same(g[u], usage'[u])
  BY <1>2, <1>3, AnsweredIs
<1> QED
  BY <1>1, <1>2, <1>3, <1>4, AnsweredIs DEF Same, Like

(* A step that the others see: f is what they are told, and of those that  *)
(* have read the balance, what it lost.                                    *)
LEMMA SeenStep ==
  ASSUME UsageInv, NEW n \in {1, 2}, NEW f \in [Usages -> UsageStates], ChangesSeen(n, f),
         Balance' \in Int,
         \A u \in Usages : Active(f[u]) =>
           /\ UnderWay(u) /\ Like(usage[u], f[u])
           /\ "wallet" \notin usage[u].todo =>
                Balance + usage[u].lowered <= Balance' + f[u].lowered
  PROVE  usage' \in [Usages -> UsageStates] /\ Steady'
<1>1. usage' \in [Usages -> UsageStates] /\ \A u \in Usages : Same(f[u], usage'[u])
  BY ChangesSeenIs
<1>2. Balance \in Int /\ \A u \in Usages : usage[u] \in UsageStates
  BY WalletIs DEF UsageInv, UsageTypeOK
<1>3. Steady'
  <2> SUFFICES ASSUME NEW u \in Usages, UnderWay(u)'
               PROVE  Local(usage'[u]) /\ Held(usage'[u], Balance')
    BY DEF Steady
  <2>1. Same(f[u], usage'[u]) /\ usage'[u] \in UsageStates
    BY <1>1
  <2>2. Active(f[u])
    BY <2>1 DEF Active, UnderWay, Same, Like
  <2>3. /\ Like(usage[u], usage'[u]) /\ Local(usage[u]) /\ Held(usage[u], Balance)
        /\ "wallet" \notin usage[u].todo =>
             Balance + usage[u].lowered <= Balance' + usage'[u].lowered
    BY <2>1, <2>2 DEF Same, Like, UsageInv, Steady
  <2> QED
    BY <1>2, <2>1, <2>3, HeldOn
<1> QED
  BY <1>1, <1>3

(* A step that takes n credits at most, or changes no balance, is no       *)
(* charge.                                                                 *)
LEMMA OtherStep ==
  ASSUME UsageInv, NEW n \in {1, 2}, NEW loss \in Nat,
         ChangesSeen(n, Lowered(loss)) \/ (ChangesSeen(n, usage) /\ loss = 0),
         Balance' \in Int, Balance <= Balance' + loss
  PROVE  StepOK
<1>1. PICK f \in [Usages -> UsageStates] :
        /\ ChangesSeen(n, f)
        /\ \A u \in Usages : Like(usage[u], f[u]) /\ f[u].lowered =
             IF UnderWay(u) /\ "wallet" \notin usage[u].todo
             THEN usage[u].lowered + loss ELSE usage[u].lowered
  <2>1. CASE ChangesSeen(n, Lowered(loss))
    BY <2>1, LoweredIs DEF UsageInv
  <2>2. CASE ChangesSeen(n, usage) /\ loss = 0
    <3>1. usage \in [Usages -> UsageStates] /\ \A u \in Usages : usage[u].lowered \in Nat
      BY DEF UsageInv, UsageTypeOK, UsageStates
    <3>2. \A u \in Usages : usage[u].lowered + loss = usage[u].lowered
      BY <2>2, <3>1
    <3> QED
      BY <2>2, <3>1, <3>2 DEF Like
  <2> QED
    BY <2>1, <2>2
<1>2. Balance \in Int /\ \A u \in Usages : usage[u].lowered \in Nat
  BY WalletIs DEF UsageInv, UsageTypeOK, UsageStates
<1>3. \A u \in Usages : Active(f[u]) =>
           /\ UnderWay(u) /\ Like(usage[u], f[u])
           /\ "wallet" \notin usage[u].todo =>
                Balance + usage[u].lowered <= Balance' + f[u].lowered
  <2> SUFFICES ASSUME NEW u \in Usages, Active(f[u])
               PROVE  /\ UnderWay(u) /\ Like(usage[u], f[u])
                      /\ "wallet" \notin usage[u].todo =>
                           Balance + usage[u].lowered <= Balance' + f[u].lowered
    OBVIOUS
  <2>1. UnderWay(u) /\ Like(usage[u], f[u])
    BY <1>1 DEF Active, UnderWay, Like
  <2>2. "wallet" \notin usage[u].todo => f[u].lowered = usage[u].lowered + loss
    BY <1>1, <2>1
  <2>3. Balance + usage[u].lowered <= Balance' + (usage[u].lowered + loss)
    <3>1. \A a, b \in Int, l, k \in Nat : a <= b + k => a + l <= b + (l + k)
      OBVIOUS
    <3>2. Balance \in Int /\ usage[u].lowered \in Nat
      BY <1>2
    <3> QED
      BY <3>1, <3>2
  <2> QED
    BY <2>1, <2>2, <2>3
<1>4. usage' \in [Usages -> UsageStates] /\ Steady'
  BY <1>1, <1>3, SeenStep
<1>5. \A u \in Usages : usage'[u].pc = usage[u].pc
  BY <1>1, ChangesSeenIs DEF Same, Like
<1>6. Covered
  BY <1>5 DEF Covered, ChargeWasCovered
<1> QED
  BY <1>4, <1>6 DEF StepOK

LEMMA BuyPackageInv ==
  ASSUME UsageInv, NEW p \in Packages, BuyPackage(p)
  PROVE  UsageInv' /\ Covered
<1>1. Balance \in Int /\ wallet' = {Balance + PackageCredits}
  BY WalletIs DEF UsageInv, BuyPackage, Balance
<1>2. Balance' = Balance + PackageCredits
  BY <1>1, TheOnly DEF Balance
<1>3. StepOK
  BY <1>1, <1>2, UsageAssumption, OtherStep DEF BuyPackage
<1>4. wallet' \subseteq Int /\ \A b, c \in wallet' : b = c
  BY <1>1, UsageAssumption
<1>5. subscription' \in AtMostOne(Packages) /\ over' \in BOOLEAN
  BY DEF BuyPackage, AtMostOne
<1>6. events' \in 0..MaxEvents
  BY UsageAssumption DEF UsageInv, UsageTypeOK, BuyPackage, Event
<1> QED
  BY <1>3, <1>4, <1>5, <1>6 DEF StepOK, UsageInv, UsageTypeOK, BuyPackage

(* Credits leave the wallet, and those under way are told how many. *)
LEMMA TakenStep ==
  ASSUME UsageInv, NEW loss \in Nat, wallet' = {c - loss : c \in wallet},
         ChangesSeen(1, Lowered(loss))
  PROVE  StepOK /\ wallet' \subseteq Int /\ \A b, c \in wallet' : b = c
<1>1. Balance \in Int /\ (wallet = {} \/ wallet = {Balance})
  BY WalletIs DEF UsageInv
<1>2. CASE wallet = {}
  <2>1. Balance' = Balance
    BY <1>2 DEF Balance
  <2> QED
    BY <1>1, <1>2, <2>1, OtherStep
<1>3. CASE wallet = {Balance}
  <2>1. wallet' = {Balance - loss}
    BY <1>3
  <2>2. Balance' = Balance - loss
    BY <2>1, TheOnly DEF Balance
  <2>3. StepOK
    BY <1>1, <2>2, OtherStep
  <2> QED
    BY <1>1, <2>1, <2>3
<1> QED
  BY <1>1, <1>2, <1>3

LEMMA RefundInv ==
  ASSUME UsageInv, Refund
  PROVE  UsageInv' /\ Covered
<1>1. StepOK /\ wallet' \subseteq Int /\ \A b, c \in wallet' : b = c
  BY UsageAssumption, TakenStep DEF Refund
<1>2. events' \in 0..MaxEvents
  BY UsageAssumption DEF UsageInv, UsageTypeOK, Refund, Event
<1> QED
  BY <1>1, <1>2 DEF StepOK, UsageInv, UsageTypeOK, Refund

LEMMA TakeCreditsInv ==
  ASSUME UsageInv, TakeCredits
  PROVE  UsageInv' /\ Covered
<1>1. PICK credits \in taking :
        wallet' = {c - credits : c \in wallet} /\ ChangesSeen(1, Lowered(credits))
  BY DEF TakeCredits
<1>2. credits \in Nat
  BY OneOf, UsageAssumption DEF UsageInv, UsageTypeOK
<1>3. StepOK /\ wallet' \subseteq Int /\ \A b, c \in wallet' : b = c
  BY <1>1, <1>2, TakenStep
<1>4. taking' \in AtMostOne(Costs)
  BY DEF TakeCredits, AtMostOne
<1> QED
  BY <1>3, <1>4 DEF StepOK, UsageInv, UsageTypeOK, TakeCredits

LEMMA CompareCreditsInv ==
  ASSUME UsageInv, NEW credits \in Costs, CompareCredits(credits)
  PROVE  UsageInv' /\ Covered
<1>1. usage' = usage /\ wallet' = wallet /\ Balance' = Balance
  BY DEF CompareCredits, Balance
<1>2. Steady' /\ Covered
  BY <1>1 DEF Steady, UnderWay, UsageInv, Covered, ChargeWasCovered
<1>3. taking' \in AtMostOne(Costs)
  BY DEF CompareCredits, AtMostOne
<1>4. events' \in 0..MaxEvents
  BY UsageAssumption DEF UsageInv, UsageTypeOK, CompareCredits, Event
<1> QED
  BY <1>2, <1>3, <1>4 DEF UsageInv, UsageTypeOK, CompareCredits

LEMMA SetWalletInv ==
  ASSUME UsageInv, NEW credits \in Nat, SetWallet(credits)
  PROVE  UsageInv' /\ Covered
<1>1. PICK c \in wallet :
        wallet' = {credits} /\ ChangesSeen(1, Lowered(IF credits < c THEN c - credits ELSE 0))
  BY DEF SetWallet
<1>2. Balance \in Int /\ c = Balance
  BY <1>1, WalletIs DEF UsageInv
<1>3. Balance' = credits
  BY <1>1, TheOnly DEF Balance
<1> DEFINE loss == IF credits < c THEN c - credits ELSE 0
<1>4. loss \in Nat /\ Balance <= Balance' + loss /\ ChangesSeen(1, Lowered(loss))
  BY <1>1, <1>2, <1>3
<1> HIDE DEF loss
<1>5. StepOK
  BY <1>3, <1>4, OtherStep
<1>6. wallet' \subseteq Int /\ \A a, b \in wallet' : a = b
  BY <1>1
<1>7. events' \in 0..MaxEvents
  BY UsageAssumption DEF UsageInv, UsageTypeOK, SetWallet, Event
<1> QED
  BY <1>5, <1>6, <1>7 DEF StepOK, UsageInv, UsageTypeOK, SetWallet

(* A document that is no balance changes. *)
LEMMA EditStep ==
  ASSUME UsageInv, ChangesSeen(1, usage), wallet' = wallet
  PROVE  StepOK
<1>1. Balance' = Balance /\ Balance \in Int
  BY WalletIs DEF Balance, UsageInv
<1> QED
  BY <1>1, OtherStep

LEMMA EditConfigInv ==
  ASSUME UsageInv, NEW p \in Packages, NEW level \in {"endpoint", "feature"},
         NEW new \in AtMostOne(Minimums), EditConfig(p, level, new)
  PROVE  UsageInv' /\ Covered
<1>1. StepOK
  BY EditStep DEF EditConfig
<1>2. config' \in [Packages -> [endpoint : AtMostOne(Minimums),
                               feature : AtMostOne(Minimums)]]
  BY DEF EditConfig, UsageInv, UsageTypeOK
<1>3. events' \in 0..MaxEvents
  BY UsageAssumption DEF UsageInv, UsageTypeOK, EditConfig, Event
<1> QED
  BY <1>1, <1>2, <1>3 DEF StepOK, EditConfig, UsageInv, UsageTypeOK

LEMMA MeanwhileInv ==
  ASSUME UsageInv, Meanwhile
  PROVE  UsageInv' /\ Covered
<1>1. CASE PeriodEnds
  <2>1. StepOK
    BY <1>1, EditStep DEF PeriodEnds
  <2> QED
    BY <1>1, <2>1, UsageAssumption DEF StepOK, PeriodEnds, Event, UsageInv, UsageTypeOK
<1>2. ASSUME NEW new \in AtMostOne(Minimums), EditEndpoint(new)
      PROVE  UsageInv' /\ Covered
  <2>1. StepOK
    BY <1>2, EditStep DEF EditEndpoint
  <2> QED
    BY <1>2, <2>1, UsageAssumption DEF StepOK, EditEndpoint, Event, UsageInv, UsageTypeOK
<1>3. ASSUME NEW credits \in {0, PackageCredits}, SetWallet(credits)
      PROVE  UsageInv' /\ Covered
  BY <1>3, SetWalletInv, UsageAssumption
<1>4. CASE ClearConfigs \/ EndpointCopyExpires
  <2>1. UsageTypeOK'
    BY <1>4 DEF ClearConfigs, EndpointCopyExpires, UsageInv, UsageTypeOK, AtMostOne
  <2>2. Steady' /\ Covered
    BY <1>4 DEF ClearConfigs, EndpointCopyExpires, UsageInv, Steady,
                UnderWay, Balance, Covered, ChargeWasCovered
  <2> QED
    BY <2>1, <2>2 DEF UsageInv
<1> QED
  BY <1>1, <1>2, <1>3, <1>4, RefundInv, TakeCreditsInv, CompareCreditsInv, BuyPackageInv,
     EditConfigInv DEF Meanwhile

-----------------------------------------------------------------------------
Begun(q, named, answers) ==
  [q EXCEPT !.pc = "reading", !.todo = {"wallet", "endpoint", "subscription"},
            !.named = named, !.answers = answers]

LEMMA StartUsageInv ==
  ASSUME UsageInv, NEW u \in Usages, NEW named \in BOOLEAN, StartUsage(u, named)
  PROVE  UsageInv' /\ Covered
<1> DEFINE q == Begun(usage[u], named, {Answer(named)})
<1>1. usage[u] \in UsageStates
  BY DEF UsageInv, UsageTypeOK
<1>2. {Answer(named)} \in SUBSET BOOLEAN
  BY DEF Answer
<1>3. /\ q \in UsageStates /\ q.pc = "reading"
      /\ q.todo = {"wallet", "endpoint", "subscription"}
  <2>1. ASSUME NEW a \in SUBSET BOOLEAN, NEW r, r = Begun(usage[u], named, a)
        PROVE  /\ r \in UsageStates /\ r.pc = "reading"
               /\ r.todo = {"wallet", "endpoint", "subscription"}
    BY <1>1, <2>1 DEF Begun, UsageStates, Starting, Reads
  <2> QED
    BY <1>2, <2>1
<1>4. usage' = [usage EXCEPT ![u] = q] /\ wallet' = wallet
  BY DEF StartUsage, Begun
<1> HIDE DEF q
<1>5. /\ usage' \in [Usages -> UsageStates] /\ usage'[u] = q
      /\ \A v \in Usages \ {u} : usage'[v] = usage[v]
  BY <1>3, <1>4 DEF UsageInv, UsageTypeOK
<1>6. Local(q) /\ Held(q, Balance)
  BY <1>3 DEF Local, Held
<1>7. Balance' = Balance
  BY <1>4 DEF Balance
<1>8. Steady'
  BY <1>5, <1>6, <1>7 DEF Steady, UsageInv, UnderWay
<1>9. Covered
  BY <1>3, <1>5 DEF Covered, ChargeWasCovered
<1> QED
  BY <1>5, <1>8, <1>9 DEF UsageInv, UsageTypeOK, StartUsage

(* The insert of a wallet with no credits, or of one for nobody, after     *)
(* which the start is decided.                                             *)
LEMMA InsertWalletInv ==
  ASSUME UsageInv, NEW u \in Usages, CreateWallet(u), usage[u].pc = "inserting",
         ~(usage[u].named /\ wallet # {})
  PROVE  UsageInv' /\ Covered
<1> DEFINE f == [v \in Usages |->
                  IF v = u \/ ~usage[u].named THEN usage[v] ELSE Changed(1, usage[v])]
           g == Answered(f)
<1>1. \A v \in Usages : usage[v] \in UsageStates
  BY DEF UsageInv, UsageTypeOK
<1>2. ASSUME NEW v \in Usages PROVE f[v] \in UsageStates /\ Same(usage[v], f[v])
  <2>1. f[v] = usage[v] \/ f[v] = Changed(1, usage[v])
    OBVIOUS
  <2>2. Same(usage[v], usage[v])
    BY DEF Same, Like
  <2> HIDE DEF f
  <2> QED
    BY <1>1, <2>1, <2>2, ChangedIs
<1>3. f \in [Usages -> UsageStates]
  BY <1>2
<1>4. usage' = [g EXCEPT ![u] = Decided(g[u])]
  BY DEF CreateWallet
<1> HIDE DEF f
<1>5. g \in [Usages -> UsageStates] /\ \A v \in Usages : Same(f[v], g[v])
  BY <1>3, AnsweredIs
<1> HIDE DEF g
<1>6. ASSUME NEW v \in Usages PROVE Same(usage[v], g[v])
  <2>1. Same(usage[v], f[v]) /\ Same(f[v], g[v])
    BY <1>2, <1>5
  <2> QED
    BY <2>1 DEF Same, Like
<1>7. PICK pc \in {"running", "denied"} : Decided(g[u]) = [g[u] EXCEPT !.pc = pc]
  BY <1>5, DecidedIs
<1>8. Decided(g[u]) \in UsageStates /\ Decided(g[u]).pc = pc
  BY <1>5, <1>7 DEF UsageStates
<1>9. usage' \in [Usages -> UsageStates]
  BY <1>4, <1>5, <1>8
<1>10. usage'[u] = Decided(g[u]) /\ \A v \in Usages \ {u} : usage'[v] = g[v]
  BY <1>4, <1>5
<1>11. Balance \in Int /\ (wallet = {} \/ wallet = {Balance}) /\ (wallet = {} => Balance = 0)
  BY WalletIs, TheNone DEF UsageInv, Balance
<1>12. wallet' = wallet \/ (wallet = {} /\ wallet' = {0})
  BY DEF CreateWallet
<1>13. Balance' = Balance
  BY <1>11, <1>12, TheOnly DEF Balance
<1>14. UnderWay(u) /\ Local(usage[u]) /\ Held(usage[u], Balance)
  BY DEF UnderWay, Starting, UsageInv, Steady
<1>15. ASSUME NEW v \in Usages, Local(usage[v]), Held(usage[v], Balance)
       PROVE  Local(g[v]) /\ Held(g[v], Balance)
  BY <1>1, <1>5, <1>6, <1>15 DEF Local, Held, Same, Like
<1>16. Steady'
  <2> SUFFICES ASSUME NEW v \in Usages, UnderWay(v)'
               PROVE  Local(usage'[v]) /\ Held(usage'[v], Balance)
    BY <1>13 DEF Steady
  <2>1. CASE v = u
    <3>1. Held(usage'[u], Balance)
      BY <1>5, <1>7, <1>10, <1>14, <1>15 DEF Held, UsageStates
    <3>2. g[u].todo = {}
      BY <1>6, <1>14 DEF Local, Same, Like
    <3>3. usage'[u].todo = {} /\ usage'[u].pc = pc
          /\ usage'[u].min = g[u].min /\ usage'[u].wallet = g[u].wallet
      BY <1>5, <1>7, <1>10, <3>2 DEF UsageStates
    <3>4. usage'[u].pc = "running" => g[u].min <= The(g[u].wallet, 0)
      BY <1>5, <1>10, DecidedIs
    <3>5. Local(usage'[u])
      BY <3>3, <3>4 DEF Local
    <3> QED
      BY <2>1, <3>1, <3>5
  <2>2. CASE v # u
    <3>1. UnderWay(v)
      BY <1>6, <1>10, <2>2 DEF UnderWay, Same, Like
    <3>2. Local(usage[v]) /\ Held(usage[v], Balance)
      BY <3>1 DEF UsageInv, Steady
    <3> QED
      BY <1>10, <1>15, <2>2, <3>2
  <2> QED
    BY <2>1, <2>2
<1>17. Covered
  BY <1>6, <1>8, <1>10 DEF Covered, ChargeWasCovered, Same, Like
<1>20. wallet' \subseteq Int /\ (\A b, c \in wallet' : b = c) /\ strays' \in Nat
  BY <1>12 DEF CreateWallet, UsageInv, UsageTypeOK
<1> QED
  BY <1>9, <1>16, <1>17, <1>20 DEF UsageInv, UsageTypeOK, CreateWallet

LEMMA CreateWalletInv ==
  ASSUME UsageInv, NEW u \in Usages, CreateWallet(u)
  PROVE  UsageInv' /\ Covered
<1> DEFINE lost == [usage[u] EXCEPT !.pc = "denied", !.misled = TRUE]
           next == [usage[u] EXCEPT !.pc = "inserting"]
<1>1. usage[u] \in UsageStates /\ usage[u].pc \in {"creating", "inserting"} /\ UnderWay(u)
  BY DEF UsageInv, UsageTypeOK, CreateWallet, UnderWay, Starting
<1>2. Held(usage[u], Balance) /\ Local(usage[u])
  BY <1>1 DEF UsageInv, Steady
<1>3. CASE usage[u].named /\ wallet # {}
  <2>1. lost \in UsageStates /\ lost.pc = "denied"
    BY <1>1 DEF UsageStates
  <2>2. usage' = [usage EXCEPT ![u] = lost] /\ wallet' = wallet /\ strays' = strays
    BY <1>3 DEF CreateWallet
  <2>3. ~Active(lost)
    BY <2>1 DEF Active, Starting
  <2> HIDE DEF lost
  <2>4. StepOK
    BY <1>1, <2>1, <2>2, <2>3, OwnStep
  <2> QED
    BY <2>2, <2>4 DEF StepOK, UsageInv, UsageTypeOK, CreateWallet
<1>4. CASE ~(usage[u].named /\ wallet # {}) /\ usage[u].pc = "creating"
  <2>1. next \in UsageStates /\ next.pc = "inserting"
    BY <1>1 DEF UsageStates, Starting
  <2>2. usage' = [usage EXCEPT ![u] = next] /\ wallet' = wallet /\ strays' = strays
    BY <1>4 DEF CreateWallet
  <2>3. Held(next, Balance)
    BY <1>1, <1>2 DEF Held, UsageStates
  <2>4. Local(next)
    BY <1>1, <1>2, <1>4 DEF Local, UsageStates
  <2> HIDE DEF next
  <2>5. StepOK
    BY <1>1, <2>1, <2>2, <2>3, <2>4, OwnStep
  <2> QED
    BY <2>2, <2>5 DEF StepOK, UsageInv, UsageTypeOK, CreateWallet
<1> QED
  BY <1>1, <1>3, <1>4, InsertWalletInv

-----------------------------------------------------------------------------
(* A charge: every other usage that has read the balance is told of it,    *)
(* and for this one the balance and what others took cover the minimum.    *)
Charge(u, cost) ==
  /\ wallet # {}
  /\ wallet' = {c - cost : c \in wallet}
  /\ ChangesSeen(1, [Lowered(cost) EXCEPT ![u] =
                       [usage[u] EXCEPT !.pc = "charged", !.cost = cost]])

LEMMA ChargeInv ==
  ASSUME UsageInv, NEW u \in Usages, NEW cost \in Costs, usage[u].pc = "running",
         Charge(u, cost)
  PROVE  StepOK /\ wallet' \subseteq Int /\ \A b, c \in wallet' : b = c
<1> DEFINE q == [usage[u] EXCEPT !.pc = "charged", !.cost = cost]
           f == [Lowered(cost) EXCEPT ![u] = q]
<1>1. usage[u] \in UsageStates /\ cost \in Nat
  BY UsageAssumption DEF UsageInv, UsageTypeOK
<1>2. /\ q \in UsageStates /\ q.pc = "charged" /\ q.cost = cost /\ q.min = usage[u].min
      /\ q.named = usage[u].named /\ q.lowered = usage[u].lowered
  BY <1>1 DEF UsageStates
<1> HIDE DEF q
<1>3. /\ f \in [Usages -> UsageStates] /\ f[u] = q
      /\ \A v \in Usages \ {u} :
           /\ Like(usage[v], f[v])
           /\ f[v].lowered = IF UnderWay(v) /\ "wallet" \notin usage[v].todo
                             THEN usage[v].lowered + cost ELSE usage[v].lowered
  BY <1>1, <1>2, LoweredIs DEF UsageInv
<1>4. ChangesSeen(1, f)
  BY DEF q, Charge
<1> HIDE DEF f
<1>5. Balance \in Int /\ wallet = {Balance}
  BY WalletIs DEF UsageInv, Charge
<1>6. wallet' = {Balance - cost}
  BY <1>5 DEF Charge
<1>7. Balance' = Balance - cost
  BY <1>6, TheOnly DEF Balance
<1>8. \A v \in Usages : usage[v].lowered \in Nat
  BY DEF UsageInv, UsageTypeOK, UsageStates
<1>9. \A v \in Usages : Active(f[v]) =>
           /\ UnderWay(v) /\ Like(usage[v], f[v])
           /\ "wallet" \notin usage[v].todo =>
                Balance + usage[v].lowered <= Balance' + f[v].lowered
  <2> SUFFICES ASSUME NEW v \in Usages, Active(f[v])
               PROVE  /\ UnderWay(v) /\ Like(usage[v], f[v])
                      /\ "wallet" \notin usage[v].todo =>
                           Balance + usage[v].lowered <= Balance' + f[v].lowered
    OBVIOUS
  <2>1. v # u
    BY <1>2, <1>3 DEF Active, Starting
  <2>2. UnderWay(v) /\ Like(usage[v], f[v])
    BY <1>3, <2>1 DEF Active, UnderWay, Like
  <2> QED
    BY <1>1, <1>3, <1>5, <1>7, <1>8, <2>1, <2>2
<1>10. usage' \in [Usages -> UsageStates] /\ Steady'
  BY <1>1, <1>3, <1>4, <1>5, <1>7, <1>9, SeenStep
<1>11. \A v \in Usages : Same(f[v], usage'[v])
  BY <1>3, <1>4, ChangesSeenIs
<1>12. usage[u].todo = {} /\ usage[u].min <= The(usage[u].wallet, 0) /\ Held(usage[u], Balance)
  BY DEF UsageInv, Steady, UnderWay, Local
<1>13. ChargeWasCovered(u)
  <2>1. /\ usage'[u].named = usage[u].named /\ usage'[u].min = usage[u].min
        /\ usage'[u].cost = cost /\ usage'[u].lowered = usage[u].lowered
    BY <1>2, <1>3, <1>11 DEF Same, Like
  <2>2. usage[u].min \in Nat /\ usage[u].lowered \in Nat /\ usage[u].named \in BOOLEAN
    BY <1>1 DEF UsageStates
  <2>3. CASE usage[u].named
    <3>1. The(usage[u].wallet, 0) <= Balance + usage[u].lowered
      BY <1>12, <2>3 DEF Held
    <3>2. The(usage[u].wallet, 0) \in Int
      <4>1. CASE usage[u].wallet = {}
        BY <4>1, TheNone
      <4>2. CASE usage[u].wallet # {}
        <5>1. The(usage[u].wallet, 0) \in usage[u].wallet
          BY <4>2, TheIn
        <5> QED
          BY <1>1, <5>1 DEF UsageStates
      <4> QED
        BY <4>1, <4>2
    <3>3. Balance - cost >= usage[u].min - cost - usage[u].lowered
      BY <1>1, <1>5, <1>12, <2>2, <3>1, <3>2
    <3> QED
      BY <1>6, <2>1, <2>3, <3>3 DEF ChargeWasCovered
  <2>4. CASE ~usage[u].named
    <3>1. The(usage[u].wallet, 0) = 0
      BY <1>12, <2>4, TheNone DEF Held
    <3>2. usage[u].min = 0
      BY <1>12, <2>2, <3>1
    <3> QED
      BY <2>1, <2>4, <3>2 DEF ChargeWasCovered
  <2> QED
    BY <2>3, <2>4
<1>14. Covered
  <2> SUFFICES ASSUME NEW v \in Usages \ {u} PROVE ChargeWasCovered(v)
    BY <1>13 DEF Covered
  <2>1. usage'[v].pc = usage[v].pc
    BY <1>3, <1>11 DEF Same, Like
  <2> QED
    BY <2>1 DEF ChargeWasCovered
<1>15. wallet' \subseteq Int /\ \A b, c \in wallet' : b = c
  BY <1>1, <1>5, <1>6
<1> QED
  BY <1>10, <1>14, <1>15 DEF StepOK

LEMMA EndUsageInv ==
  ASSUME UsageInv, NEW u \in Usages, NEW cost \in Costs, EndUsage(u, cost)
  PROVE  UsageInv' /\ Covered
<1> DEFINE free == [usage[u] EXCEPT !.pc = "free"]
<1>1. usage[u] \in UsageStates /\ usage[u].pc = "running" /\ UnderWay(u)
  BY DEF UsageInv, UsageTypeOK, EndUsage, UnderWay
<1>2. CASE usage' = [usage EXCEPT ![u] = free] /\ wallet' = wallet
  <2>1. free \in UsageStates /\ free.pc = "free"
    BY <1>1 DEF UsageStates
  <2>2. ~Active(free)
    BY <2>1 DEF Active, Starting
  <2> HIDE DEF free
  <2>3. StepOK
    BY <1>1, <1>2, <2>1, <2>2, OwnStep
  <2> QED
    BY <1>2, <2>3 DEF StepOK, UsageInv, UsageTypeOK, EndUsage
<1>3. CASE Charge(u, cost)
  <2>1. StepOK /\ wallet' \subseteq Int /\ \A b, c \in wallet' : b = c
    BY <1>1, <1>3, ChargeInv
  <2> QED
    BY <2>1 DEF StepOK, UsageInv, UsageTypeOK, EndUsage
<1> QED
  BY <1>2, <1>3 DEF EndUsage, Charge

LEMMA NextUsage ==
  ASSUME UsageInv, [UsageNext]_usageVars
  PROVE  UsageInv' /\ Covered
<1>1. CASE Meanwhile
  BY <1>1, MeanwhileInv
<1>2. ASSUME NEW u \in Usages, UsageStep(u)
      PROVE  UsageInv' /\ Covered
  BY <1>2, StartUsageInv, ReadWalletInv, ReadSubscriptionInv, ReadEndpointInv,
     StoreEndpointInv, CreateWalletInv, ReadConfigInv, ReadFeatureConfigInv, StoreConfigInv,
     EndUsageInv
  DEF UsageStep
<1>3. CASE UNCHANGED usageVars
  BY <1>3 DEF usageVars, UsageInv, UsageTypeOK, Steady, UnderWay, Balance, Covered,
              ChargeWasCovered
<1> QED
  BY <1>1, <1>2, <1>3 DEF UsageNext

-----------------------------------------------------------------------------
(* Every variable of a usage keeps its type, whatever the number of usages,*)
(* packages and events: creditsProcessStart and creditsProcessEnd.         *)
THEOREM UsageTypeCorrect == UsageSpec => []UsageTypeOK
<1>1. UsageInv => UsageTypeOK
  BY DEF UsageInv
<1> QED
  BY <1>1, InitUsage, NextUsage, PTL DEF UsageSpec

(* A start reserves nothing, and yet a charge leaves in the wallet what    *)
(* was compared, less its cost and what others took meanwhile: purchases,  *)
(* edits and stale copies take nothing from it (creditsProcessStart,       *)
(* decrementWalletCredits).                                                *)
THEOREM ChargesAreCovered == UsageSpec => ChargesCovered
<1>1. UsageInv /\ [UsageNext]_usageVars =>
        UsageInv' /\ [\A u \in Usages : ChargeWasCovered(u)]_usageVars
  BY NextUsage DEF Covered
<1> QED
  BY <1>1, InitUsage, PTL DEF UsageSpec, ChargesCovered

-----------------------------------------------------------------------------
(* Answers.  What a start reads of the four documents, how it answers for  *)
(* them, and for the two kinds of usages what they are now.                *)
Views ==
  {d \in [w : SUBSET Int, c : SUBSET Packages, e : SUBSET Nat,
          k : [Packages -> [endpoint : SUBSET Nat, feature : SUBSET Nat]]] :
     d.w = {} => d.c = {}}
EffectiveIn(k, p) == IF k[p].endpoint # {} THEN k[p].endpoint ELSE k[p].feature
Verdict(d) ==
  /\ d.e # {}
  /\ IF Restricted(d.c)
     THEN Included(d.c) /\ The(d.w, 0) >= The(EffectiveIn(d.k, The(d.c, "none")), The(d.e, 0))
     ELSE The(d.w, 0) >= The(d.e, 0)
Named == [w |-> wallet, c |-> Current, e |-> endpoint, k |-> config]
Nameless == [w |-> {}, c |-> {}, e |-> endpoint, k |-> config]

(* Two views that differ in one document; of the configurations of a       *)
(* package, in the one of the endpoint or in the one of the feature.       *)
OneLevel(k, l) ==
  \A p \in Packages : k[p].endpoint = l[p].endpoint \/ k[p].feature = l[p].feature
OneApart(d, n) ==
  \/ d.c = n.c /\ d.e = n.e /\ d.k = n.k
  \/ d.w = n.w /\ d.e = n.e /\ d.k = n.k
  \/ d.w = n.w /\ d.c = n.c /\ d.k = n.k
  \/ d.w = n.w /\ d.c = n.c /\ d.e = n.e /\ OneLevel(d.k, n.k)

(* What a start has read is of the documents as they were, d, or are, n.   *)
FromOne(q, d, n) ==
  /\ "wallet" \notin q.todo => q.wallet \in {d.w, n.w}
  /\ "subscription" \notin q.todo => q.package \in {d.c, n.c}
  /\ "endpoint" \notin q.todo /\ q.pc # "storing" => {q.min} \in {d.e, n.e}
  /\ q.pc = "storing" =>
       /\ \E e \in {d.e, n.e} : e # {}
       /\ \E k \in {d.k, n.k} : EffectiveIn(k, The(q.package, "none")) = {q.min}
  /\ q.pc = "feature" => \E k \in {d.k, n.k} : k[The(q.package, "none")].endpoint = {}
  /\ q.pc # "reading" => q.todo = {}
  /\ q.pc \in {"config", "feature", "storing"} => Included(q.package)
  /\ q.pc \in {"creating", "inserting"} => q.wallet = {}

Told(q, d) == IF Verdict(d) THEN TRUE \in q.answers ELSE FALSE \in q.answers
Explained(q, d, n) ==
  /\ Told(q, d) /\ Told(q, n)
  /\ OneApart(d, n) /\ (q.changes = 0 => d = n)
  /\ FromOne(q, d, n)
Settled(q, named, nameless) ==
  q.changes < 2 /\ ~q.misled =>
    /\ q.pc \in Starting =>
         \E d \in Views : Explained(q, d, IF q.named THEN named ELSE nameless)
    /\ q.pc \in {"running", "charged", "free"} => TRUE \in q.answers
    /\ q.pc = "denied" => FALSE \in q.answers

(* A subscription is of a user with a wallet. *)
Housed == wallet = {} => subscription = {}
AnswerInv == Housed /\ \A u \in Usages : Settled(usage[u], Named, Nameless)

LEMMA ViewsType == UsageTypeOK /\ Housed => Named \in Views /\ Nameless \in Views
<1> SUFFICES ASSUME UsageTypeOK, Housed PROVE Named \in Views /\ Nameless \in Views
  OBVIOUS
<1>1. subscription \subseteq Packages /\ endpoint \subseteq Nat
  BY OneOf, UsageAssumption DEF UsageTypeOK
<1>2. config \in [Packages -> [endpoint : SUBSET Nat, feature : SUBSET Nat]]
  <2>1. ASSUME NEW p \in Packages
        PROVE  config[p] \in [endpoint : SUBSET Nat, feature : SUBSET Nat]
    <3>1. config[p] \in [endpoint : AtMostOne(Minimums), feature : AtMostOne(Minimums)]
      BY DEF UsageTypeOK
    <3>2. AtMostOne(Minimums) \subseteq SUBSET Nat
      BY OneOf, UsageAssumption
    <3> QED
      BY <3>1, <3>2
  <2>2. config = [p \in Packages |-> config[p]]
    BY DEF UsageTypeOK
  <2> QED
    BY <2>1, <2>2
<1>3. Current \subseteq Packages /\ (wallet = {} => Current = {})
  BY <1>1 DEF Current, Housed
<1> QED
  BY <1>1, <1>2, <1>3 DEF Views, Named, Nameless, UsageTypeOK

LEMMA AnswerNamed == Housed => (Answer(TRUE) <=> Verdict(Named))
BY DEF Housed, Current, Answer, Verdict, Named, Effective, EffectiveIn

LEMMA AnswerNameless == Housed => (Answer(FALSE) <=> Verdict(Nameless))
BY DEF Answer, Verdict, Nameless, Effective, EffectiveIn

(* Reads of views that differ in one document are all of one of the two.   *)
LEMMA OfOneView ==
  ASSUME NEW d \in Views, NEW n \in Views, OneApart(d, n),
         NEW w \in {d.w, n.w}, NEW c \in {d.c, n.c}, NEW e \in {d.e, n.e}, NEW k \in {d.k, n.k}
  PROVE  \E r \in {d, n} : r.w = w /\ r.c = c /\ r.e = e /\ r.k = k
BY DEF OneApart

(* The comparison, for a view whose verdict it is. *)
LEMMA DecidedHeld ==
  ASSUME NEW q \in UsageStates, NEW r, Told(q, r),
         Verdict(r) <=> Covers(The(q.wallet, 0), q.min), NEW a, NEW b
  PROVE  Settled(Decided(q), a, b)
<1>1. PICK pc \in {"running", "denied"} : /\ Decided(q) = [q EXCEPT !.pc = pc]
                                          /\ pc = "running" <=> Verdict(r)
  BY DEF Decided
<1>2. Decided(q).pc = pc /\ Decided(q).answers = q.answers
  BY <1>1 DEF UsageStates
<1> QED
  BY <1>1, <1>2 DEF Settled, Told, Starting

LEMMA ProceedHeld ==
  ASSUME NEW q \in UsageStates, q.pc = "reading", NEW a \in Views, NEW b \in Views,
         NEW d \in Views, Explained(q, d, IF q.named THEN a ELSE b)
  PROVE  Settled(Proceed(q), a, b)
<1> DEFINE n == IF q.named THEN a ELSE b
<1>0. n \in Views /\ Explained(q, d, n)
  OBVIOUS
<1>1. CASE q.todo # {}
  <2>1. Proceed(q) = q
    BY <1>1 DEF Proceed
  <2> QED
    BY <2>1 DEF Settled
<1>2. CASE q.todo = {} /\ q.wallet = {}
  <2>1. Proceed(q) = [q EXCEPT !.pc = "creating"]
    BY <1>2 DEF Proceed
  <2> DEFINE p == [q EXCEPT !.pc = "creating"]
  <2>2. /\ p.pc = "creating" /\ p.answers = q.answers /\ p.changes = q.changes
        /\ p.todo = q.todo /\ p.wallet = q.wallet /\ p.package = q.package /\ p.min = q.min
        /\ p.named = q.named
    BY DEF UsageStates
  <2> HIDE DEF p
  <2>3. Explained(p, d, n)
    BY <1>0, <1>2, <2>2 DEF Explained, Told, FromOne
  <2>4. Settled(p, a, b)
    BY <2>2, <2>3 DEF Settled
  <2> QED
    BY <2>1, <2>4 DEF p
<1>3. ASSUME q.todo = {}, q.wallet # {}
      PROVE  Settled(Proceed(q), a, b)
  <2>1. PICK r \in {d, n} : r.w = q.wallet /\ r.c = q.package /\ r.e = {q.min}
    <3>1. q.wallet \in {d.w, n.w} /\ q.package \in {d.c, n.c} /\ {q.min} \in {d.e, n.e}
      BY <1>0, <1>3 DEF Explained, FromOne
    <3>2. OneApart(d, n)
      BY <1>0 DEF Explained
    <3> HIDE DEF n
    <3> QED
      BY <1>0, <3>1, <3>2, OfOneView
  <2>2. Told(q, r)
    BY <1>0, <2>1 DEF Explained
  <2>3. The(r.e, 0) = q.min /\ r.e # {}
    BY <2>1, TheOnly
  <2>4. CASE ~Restricted(q.package)
    <3>1. Proceed(q) = Decided(q)
      BY <1>3, <2>4 DEF Proceed
    <3>2. Verdict(r) <=> Covers(The(q.wallet, 0), q.min)
      BY <2>1, <2>3, <2>4 DEF Verdict, Covers
    <3> QED
      BY <2>2, <3>1, <3>2, DecidedHeld
  <2>5. CASE Restricted(q.package) /\ ~Included(q.package)
    <3>1. Proceed(q) = [q EXCEPT !.pc = "denied"]
      BY <1>3, <2>5 DEF Proceed
    <3>2. ~Verdict(r)
      BY <2>1, <2>5 DEF Verdict
    <3>3. Proceed(q).pc = "denied" /\ Proceed(q).answers = q.answers
      BY <3>1 DEF UsageStates
    <3> QED
      BY <2>2, <3>2, <3>3 DEF Settled, Told, Starting
  <2>6. CASE Restricted(q.package) /\ Included(q.package)
    <3>1. Proceed(q) = [q EXCEPT !.pc = "config"]
      BY <1>3, <2>6 DEF Proceed
    <3> DEFINE p == [q EXCEPT !.pc = "config"]
    <3>2. /\ p.pc = "config" /\ p.answers = q.answers /\ p.changes = q.changes
          /\ p.todo = q.todo /\ p.wallet = q.wallet /\ p.package = q.package /\ p.min = q.min
          /\ p.named = q.named
      BY DEF UsageStates
    <3> HIDE DEF p
    <3>3. Explained(p, d, n)
      BY <1>0, <1>3, <2>6, <3>2 DEF Explained, Told, FromOne
    <3>4. Settled(p, a, b)
      BY <3>2, <3>3 DEF Settled
    <3> QED
      BY <3>1, <3>4 DEF p
  <2> QED
    BY <2>4, <2>5, <2>6
<1> QED
  BY <1>1, <1>2, <1>3

(* A step of one start that changes no document. *)
LEMMA OwnAnswer ==
  ASSUME UsageTypeOK, AnswerInv, NEW u \in Usages, NEW p,
         usage' = [usage EXCEPT ![u] = p],
         UNCHANGED <<wallet, subscription, over, endpoint, config>>,
         Settled(p, Named, Nameless)
  PROVE  AnswerInv'
<1>1. usage'[u] = p /\ \A v \in Usages \ {u} : usage'[v] = usage[v]
  BY DEF UsageTypeOK
<1>2. Named' = Named /\ Nameless' = Nameless
  BY DEF Named, Nameless, Current
<1>3. Housed'
  BY DEF AnswerInv, Housed
<1> QED
  BY <1>1, <1>2, <1>3 DEF AnswerInv

LEMMA Explains ==
  ASSUME UsageTypeOK, AnswerInv, NEW u \in Usages, usage[u].pc \in Starting,
         usage[u].changes < 2, ~usage[u].misled
  PROVE  /\ Named \in Views /\ Nameless \in Views
         /\ \E d \in Views : Explained(usage[u], d, IF usage[u].named THEN Named ELSE Nameless)
BY ViewsType DEF AnswerInv, Settled

(* One of the reads: it shows what is now. *)
LEMMA ReadsNow ==
  ASSUME NEW q \in UsageStates, NEW p \in UsageStates, q.pc = "reading", p.pc = "reading",
         p.answers = q.answers, p.changes = q.changes, p.named = q.named,
         NEW d \in Views, NEW n \in Views, Explained(q, d, n),
         "wallet" \notin p.todo =>
            p.wallet = n.w \/ ("wallet" \notin q.todo /\ p.wallet = q.wallet),
         "subscription" \notin p.todo =>
            p.package = n.c \/ ("subscription" \notin q.todo /\ p.package = q.package),
         "endpoint" \notin p.todo =>
            {p.min} = n.e \/ ("endpoint" \notin q.todo /\ p.min = q.min)
  PROVE  Explained(p, d, n)
BY DEF Explained, Told, FromOne

LEMMA ReadAnswer ==
  ASSUME UsageTypeOK, AnswerInv, NEW u \in Usages, NEW q \in UsageStates,
         usage[u].pc = "reading", q.pc = "reading",
         q.answers = usage[u].answers, q.changes = usage[u].changes,
         q.named = usage[u].named,
         usage' = [usage EXCEPT ![u] = Proceed(q)] \/
           (usage' = [usage EXCEPT ![u] = q] /\ q.todo # {}),
         UNCHANGED <<wallet, subscription, over, endpoint, config>>,
         ~q.misled => ~usage[u].misled,
         "wallet" \notin q.todo =>
            \/ q.wallet = IF q.named THEN wallet ELSE {}
            \/ "wallet" \notin usage[u].todo /\ q.wallet = usage[u].wallet,
         "subscription" \notin q.todo =>
            \/ q.package = IF q.named THEN Current ELSE {}
            \/ "subscription" \notin usage[u].todo /\ q.package = usage[u].package,
         ~q.misled /\ "endpoint" \notin q.todo =>
            {q.min} = endpoint \/ ("endpoint" \notin usage[u].todo /\ q.min = usage[u].min)
  PROVE  AnswerInv'
<1> DEFINE n == IF q.named THEN Named ELSE Nameless
<1>1. usage[u] \in UsageStates
  BY DEF UsageTypeOK
<1>2. usage' = [usage EXCEPT ![u] = Proceed(q)]
  BY DEF Proceed
<1>3. ASSUME q.changes < 2, ~q.misled
      PROVE  Settled(Proceed(q), Named, Nameless)
  <2>1. PICK d \in Views : Explained(usage[u], d, n)
    BY <1>3, Explains DEF Starting
  <2>2. /\ n \in Views /\ Named \in Views /\ Nameless \in Views
        /\ n.w = IF q.named THEN wallet ELSE {}
        /\ n.c = IF q.named THEN Current ELSE {}
        /\ n.e = endpoint
    BY ViewsType DEF AnswerInv, Named, Nameless
  <2> HIDE DEF n
  <2>3. Explained(q, d, n)
    BY <1>1, <1>3, <2>1, <2>2, ReadsNow
  <2> QED
    BY <2>2, <2>3, ProceedHeld DEF n
<1>4. Proceed(q).changes = q.changes /\ (Proceed(q).misled <=> q.misled)
  BY ProceedIs DEF UsageStates
<1>5. Settled(Proceed(q), Named, Nameless)
  BY <1>3, <1>4 DEF Settled
<1> QED
  BY <1>2, <1>5, OwnAnswer

LEMMA ReadWalletAnswer ==
  ASSUME UsageTypeOK, AnswerInv, NEW u \in Usages, ReadWallet(u)
  PROVE  AnswerInv'
<1> DEFINE q == [usage[u] EXCEPT !.todo = @ \ {"wallet"},
                                 !.wallet = IF usage[u].named THEN wallet ELSE {}]
<1>1. usage[u] \in UsageStates /\ usage[u].pc = "reading"
  BY DEF UsageTypeOK, ReadWallet
<1>2. /\ q \in UsageStates /\ q.pc = "reading" /\ q.answers = usage[u].answers
      /\ q.changes = usage[u].changes /\ q.named = usage[u].named
      /\ (q.misled <=> usage[u].misled) /\ q.todo = usage[u].todo \ {"wallet"}
      /\ q.wallet = (IF usage[u].named THEN wallet ELSE {})
      /\ q.package = usage[u].package /\ q.min = usage[u].min
  BY <1>1 DEF UsageStates, UsageTypeOK
<1>3. usage' = [usage EXCEPT ![u] = Proceed(q)]
      /\ UNCHANGED <<wallet, subscription, over, endpoint, config>>
  BY DEF ReadWallet
<1> HIDE DEF q
<1> QED
  BY <1>1, <1>2, <1>3, ReadAnswer

LEMMA ReadSubscriptionAnswer ==
  ASSUME UsageTypeOK, AnswerInv, NEW u \in Usages, ReadSubscription(u)
  PROVE  AnswerInv'
<1> DEFINE q == [usage[u] EXCEPT !.todo = @ \ {"subscription"},
                                 !.package = IF usage[u].named THEN Current ELSE {}]
<1>1. usage[u] \in UsageStates /\ usage[u].pc = "reading" /\ Current \subseteq Packages
  BY OneOf DEF UsageTypeOK, ReadSubscription, Current
<1>2. /\ q \in UsageStates /\ q.pc = "reading" /\ q.answers = usage[u].answers
      /\ q.changes = usage[u].changes /\ q.named = usage[u].named
      /\ (q.misled <=> usage[u].misled) /\ q.todo = usage[u].todo \ {"subscription"}
      /\ q.package = (IF usage[u].named THEN Current ELSE {})
      /\ q.wallet = usage[u].wallet /\ q.min = usage[u].min
  BY <1>1 DEF UsageStates
<1>3. usage' = [usage EXCEPT ![u] = Proceed(q)]
      /\ UNCHANGED <<wallet, subscription, over, endpoint, config>>
  BY DEF ReadSubscription
<1> HIDE DEF q
<1> QED
  BY <1>1, <1>2, <1>3, ReadAnswer

LEMMA StoreEndpointAnswer ==
  ASSUME UsageTypeOK, AnswerInv, NEW u \in Usages, StoreEndpoint(u)
  PROVE  AnswerInv'
<1> DEFINE q == [usage[u] EXCEPT !.todo = @ \ {"store"}]
<1>1. usage[u] \in UsageStates /\ usage[u].pc = "reading"
  BY DEF UsageTypeOK, StoreEndpoint
<1>2. /\ q \in UsageStates /\ q.pc = "reading" /\ q.answers = usage[u].answers
      /\ q.changes = usage[u].changes /\ q.named = usage[u].named
      /\ (q.misled <=> usage[u].misled) /\ q.todo = usage[u].todo \ {"store"}
      /\ q.wallet = usage[u].wallet
      /\ q.package = usage[u].package /\ q.min = usage[u].min
  BY <1>1 DEF UsageStates
<1>3. usage' = [usage EXCEPT ![u] = Proceed(q)]
      /\ UNCHANGED <<wallet, subscription, over, endpoint, config>>
  BY DEF StoreEndpoint
<1> HIDE DEF q
<1> QED
  BY <1>1, <1>2, <1>3, ReadAnswer

LEMMA OnlyOne ==
  ASSUME NEW S \in AtMostOne(Minimums), S # {}, NEW default
  PROVE  S = {The(S, default)}
<1>1. PICK x : S = {x}
  BY DEF AtMostOne
<1> QED
  BY <1>1, TheOnly

LEMMA ReadEndpointAnswer ==
  ASSUME UsageTypeOK, AnswerInv, NEW u \in Usages, ReadEndpoint(u)
  PROVE  AnswerInv'
<1> DEFINE lied == usage[u].misled \/ endpoint # endpointCopy
           hit(m) == [usage[u] EXCEPT !.todo = @ \ {"endpoint"}, !.min = The(endpointCopy, 0),
                                      !.misled = m]
           miss == [usage[u] EXCEPT !.todo = (@ \ {"endpoint"}) \cup {"store"},
                                    !.min = The(endpoint, 0)]
           gone == [usage[u] EXCEPT !.pc = "denied"]
<1>1. usage[u] \in UsageStates /\ usage[u].pc = "reading"
      /\ UNCHANGED <<wallet, subscription, over, endpoint, config>>
  BY DEF UsageTypeOK, ReadEndpoint
<1>2. endpoint \in AtMostOne(Minimums) /\ endpointCopy \in AtMostOne(Minimums)
  BY DEF UsageTypeOK
<1>3. The(endpoint, 0) \in Nat /\ The(endpointCopy, 0) \in Nat
  BY <1>2, MinimumIs
<1>4. CASE endpointCopy # {}
  <2>1. PICK m \in BOOLEAN : m <=> lied
    OBVIOUS
  <2>2. usage' = [usage EXCEPT ![u] = Proceed(hit(m))]
    BY <1>4, <2>1 DEF ReadEndpoint
  <2>3. /\ hit(m) \in UsageStates /\ hit(m).pc = "reading" /\ hit(m).answers = usage[u].answers
        /\ hit(m).changes = usage[u].changes /\ hit(m).named = usage[u].named
        /\ (hit(m).misled <=> lied) /\ hit(m).todo = usage[u].todo \ {"endpoint"}
        /\ hit(m).wallet = usage[u].wallet
        /\ hit(m).package = usage[u].package /\ hit(m).min = The(endpointCopy, 0)
    BY <1>1, <1>3, <2>1 DEF UsageStates
  <2>4. ~lied => {The(endpointCopy, 0)} = endpoint /\ ~usage[u].misled
    BY <1>2, <1>4, OnlyOne
  <2> HIDE DEF hit, lied
  <2> QED
    BY <1>1, <2>2, <2>3, <2>4, ReadAnswer
<1>5. CASE endpointCopy = {} /\ endpoint = {}
  <2>1. usage' = [usage EXCEPT ![u] = gone]
    BY <1>5 DEF ReadEndpoint
  <2>2. /\ gone.pc = "denied" /\ gone.answers = usage[u].answers
        /\ gone.changes = usage[u].changes /\ (gone.misled <=> usage[u].misled)
    BY <1>1 DEF UsageStates
  <2>3. usage[u].changes < 2 /\ ~usage[u].misled => FALSE \in usage[u].answers
    <3>1. ~Verdict(Named) /\ ~Verdict(Nameless)
      BY <1>5 DEF Verdict, Named, Nameless
    <3> QED
      BY <1>1, <3>1, Explains DEF Explained, Told, Starting
  <2> HIDE DEF gone
  <2>4. Settled(gone, Named, Nameless)
    BY <2>2, <2>3 DEF Settled, Starting
  <2> QED
    BY <1>1, <2>1, <2>4, OwnAnswer
<1>6. CASE endpointCopy = {} /\ endpoint # {}
  <2>1. usage' = [usage EXCEPT ![u] = miss]
    BY <1>6 DEF ReadEndpoint
  <2>2. /\ miss \in UsageStates /\ miss.pc = "reading" /\ miss.answers = usage[u].answers
        /\ miss.changes = usage[u].changes /\ miss.named = usage[u].named
        /\ (miss.misled <=> usage[u].misled)
        /\ miss.todo = (usage[u].todo \ {"endpoint"}) \cup {"store"}
        /\ miss.wallet = usage[u].wallet
        /\ miss.package = usage[u].package /\ miss.min = The(endpoint, 0)
    BY <1>1, <1>3 DEF UsageStates, Reads
  <2>3. {The(endpoint, 0)} = endpoint
    BY <1>2, <1>6, OnlyOne
  <2> HIDE DEF miss
  <2> QED
    BY <1>1, <2>1, <2>2, <2>3, ReadAnswer
<1> QED
  BY <1>4, <1>5, <1>6

(* The comparison with what the configurations of a view say.              *)
LEMMA ConfigHeld ==
  ASSUME NEW s \in UsageStates, NEW q \in UsageStates, NEW r, Told(s, r),
         Included(s.package), r.w = s.wallet, r.c = s.package, r.e # {},
         q.answers = s.answers, q.wallet = s.wallet,
         q.min = The(EffectiveIn(r.k, The(s.package, "none")), The(r.e, 0)),
         NEW a, NEW b
  PROVE  Settled(Decided(q), a, b)
<1>1. Restricted(s.package)
  BY DEF Restricted, Included
<1>2. Verdict(r) <=> Covers(The(q.wallet, 0), q.min)
  BY <1>1 DEF Verdict, Covers
<1>3. Told(q, r)
  BY DEF Told
<1> QED
  BY <1>2, <1>3, DecidedHeld

(* What a start at its configuration has read is of one view, and so are   *)
(* the configurations as they are now.                                     *)
LEMMA ConfigView ==
  ASSUME UsageTypeOK, AnswerInv, NEW u \in Usages, usage[u].pc \in {"config", "feature"},
         usage[u].changes < 2, ~usage[u].misled,
         NEW n, n = (IF usage[u].named THEN Named ELSE Nameless)
  PROVE  \E d \in Views :
           /\ n \in Views /\ n.k = config
           /\ Explained(usage[u], d, n) /\ Included(usage[u].package)
           /\ The(usage[u].package, "none") \in Packages
           /\ \A k \in {d.k, n.k} : \E r \in {d, n} :
                /\ r.w = usage[u].wallet /\ r.c = usage[u].package
                /\ r.e = {usage[u].min} /\ r.k = k /\ Told(usage[u], r)
<1> DEFINE s == usage[u]
<1>1. s \in UsageStates /\ s.pc \in Starting
  BY DEF UsageTypeOK, Starting
<1>2. PICK d \in Views : Explained(s, d, n)
  BY <1>1, Explains
<1>3. n \in Views /\ n.k = config
  BY ViewsType DEF AnswerInv, Named, Nameless
<1>4. s.todo = {} /\ Included(s.package) /\ FromOne(s, d, n) /\ OneApart(d, n)
      /\ Told(s, d) /\ Told(s, n)
  BY <1>1, <1>2 DEF Explained, FromOne
<1>5. s.wallet \in {d.w, n.w} /\ s.package \in {d.c, n.c} /\ {s.min} \in {d.e, n.e}
  BY <1>1, <1>4 DEF FromOne
<1>6. The(s.package, "none") \in Packages
  <2>1. s.package # {} /\ s.package \subseteq Packages
    BY <1>1, <1>4 DEF Included, UsageStates
  <2> QED
    BY <2>1, TheIn
<1> HIDE DEF s
<1>7. ASSUME NEW k \in {d.k, n.k}
      PROVE  \E r \in {d, n} : /\ r.w = s.wallet /\ r.c = s.package
                               /\ r.e = {s.min} /\ r.k = k /\ Told(s, r)
  <2>1. PICK r \in {d, n} : r.w = s.wallet /\ r.c = s.package /\ r.e = {s.min} /\ r.k = k
    BY <1>3, <1>4, <1>5, OfOneView
  <2>2. Told(s, r)
    BY <1>4
  <2> QED
    BY <2>1, <2>2
<1> QED
  BY <1>2, <1>3, <1>4, <1>6, <1>7 DEF s

LEMMA StoreConfigAnswer ==
  ASSUME UsageTypeOK, AnswerInv, NEW u \in Usages, StoreConfig(u)
  PROVE  AnswerInv'
<1> DEFINE q == usage[u]
           n == IF q.named THEN Named ELSE Nameless
<1>1. q \in UsageStates /\ q.pc = "storing"
      /\ usage' = [usage EXCEPT ![u] = Decided(q)]
      /\ UNCHANGED <<wallet, subscription, over, endpoint, config>>
  BY DEF UsageTypeOK, StoreConfig
<1>2. ASSUME q.changes < 2, ~q.misled
      PROVE  Settled(Decided(q), Named, Nameless)
  <2>1. PICK d \in Views : Explained(q, d, n)
    BY <1>1, <1>2, Explains DEF Starting
  <2>2. n \in Views
    BY ViewsType DEF AnswerInv
  <2>3. /\ q.wallet \in {d.w, n.w} /\ q.package \in {d.c, n.c}
        /\ Included(q.package) /\ OneApart(d, n)
    BY <1>1, <2>1 DEF Explained, FromOne
  <2>4. PICK e \in {d.e, n.e}, k \in {d.k, n.k} :
          e # {} /\ EffectiveIn(k, The(q.package, "none")) = {q.min}
    BY <1>1, <2>1 DEF Explained, FromOne
  <2> HIDE DEF n
  <2>5. PICK r \in {d, n} : r.w = q.wallet /\ r.c = q.package /\ r.e = e /\ r.k = k
    BY <2>2, <2>3, <2>4, OfOneView
  <2>6. Told(q, r)
    BY <2>1, <2>5 DEF Explained
  <2>7. The(EffectiveIn(r.k, The(q.package, "none")), The(r.e, 0)) = q.min
    BY <2>4, <2>5, TheOnly
  <2> HIDE DEF q
  <2> QED
    BY <1>1, <2>3, <2>4, <2>5, <2>6, <2>7, ConfigHeld
<1>3. Decided(q).changes = q.changes /\ (Decided(q).misled <=> q.misled)
  BY <1>1, DecidedIs DEF UsageStates
<1>4. Settled(Decided(q), Named, Nameless)
  BY <1>2, <1>3 DEF Settled
<1> QED
  BY <1>1, <1>4, OwnAnswer

(* The minimum found is that of one view, and is stored next.              *)
FoundIn(q, found) ==
  \A d, m \in Views :
    m.k = config /\ Explained(q, d, m) /\ The(q.package, "none") \in Packages =>
    (\E k \in {d.k, m.k} : EffectiveIn(k, The(q.package, "none")) = {The(found, q.min)})

LEMMA FoundAnswer ==
  ASSUME UsageTypeOK, AnswerInv, NEW u \in Usages, usage[u].pc \in {"config", "feature"},
         NEW found, FoundIn(usage[u], found)
  PROVE  Settled(Store(usage[u], found), Named, Nameless)
<1> DEFINE s == usage[u]
           q == Store(s, found)
           n == IF s.named THEN Named ELSE Nameless
<1>1. s \in UsageStates
  BY DEF UsageTypeOK
<1>2. /\ q.pc = "storing" /\ q.answers = s.answers /\ q.changes = s.changes
      /\ q.named = s.named /\ (q.misled <=> s.misled) /\ q.todo = s.todo
      /\ q.wallet = s.wallet /\ q.package = s.package /\ q.min = The(found, s.min)
  BY <1>1 DEF UsageStates, Store
<1> HIDE DEF q
<1>3. ASSUME s.changes < 2, ~s.misled
      PROVE  \E d \in Views : Explained(q, d, n)
  <2>1. PICK d \in Views :
           /\ n \in Views /\ n.k = config
           /\ Explained(s, d, n) /\ Included(s.package)
           /\ The(s.package, "none") \in Packages
           /\ \A k \in {d.k, n.k} : \E r \in {d, n} :
                /\ r.w = s.wallet /\ r.c = s.package
                /\ r.e = {s.min} /\ r.k = k /\ Told(s, r)
    BY <1>3, ConfigView
  <2>2. \E k \in {d.k, n.k} : EffectiveIn(k, The(s.package, "none")) = {The(found, s.min)}
    BY <2>1 DEF FoundIn
  <2>3. \E e \in {d.e, n.e} : e # {}
    BY <2>1
  <2> HIDE DEF s, n
  <2>4. FromOne(s, d, n) /\ Told(s, d) /\ Told(s, n) /\ OneApart(d, n)
        /\ (s.changes = 0 => d = n)
    BY <2>1 DEF Explained
  <2>5. s.todo = {}
    <3>1. s.pc # "reading"
      BY DEF s
    <3> QED
      BY <2>4, <3>1 DEF FromOne
  <2>6. FromOne(q, d, n)
    <3>1. s.pc # "storing"
      BY DEF s
    <3> QED
      BY <1>2, <2>1, <2>2, <2>3, <2>4, <2>5, <3>1 DEF FromOne
  <2>7. Told(q, d) /\ Told(q, n)
    BY <1>2, <2>4 DEF Told
  <2> QED
    BY <1>2, <2>4, <2>6, <2>7 DEF Explained
<1>4. Settled(q, Named, Nameless)
  BY <1>2, <1>3 DEF Settled
<1> QED
  BY <1>4 DEF q

Hit(q, x, m) == [q EXCEPT !.min = x, !.misled = m]
LEMMA HitIs ==
  ASSUME NEW s \in UsageStates, NEW x, NEW m \in BOOLEAN
  PROVE  LET q == Hit(s, x, m) IN
         /\ q.pc = s.pc /\ q.answers = s.answers /\ q.wallet = s.wallet
         /\ q.min = x /\ (x \in Nat => q \in UsageStates)
         /\ Decided(q).changes = s.changes /\ (Decided(q).misled <=> m)
BY DEF UsageStates, Hit, Decided

LEMMA ReadConfigAnswer ==
  ASSUME UsageTypeOK, AnswerInv, NEW u \in Usages, ReadConfig(u)
  PROVE  AnswerInv'
<1> DEFINE s == usage[u]
           n == IF s.named THEN Named ELSE Nameless
           p == The(s.package, "none")
           own == config[p].endpoint
           lied == s.misled \/ configCopy[p] # Effective(p)
           next == [usage[u] EXCEPT !.pc = "feature"]
<1>1. s \in UsageStates /\ s.pc = "config"
      /\ UNCHANGED <<wallet, subscription, over, endpoint, config>>
  BY DEF UsageTypeOK, ReadConfig
<1>2. CASE configCopy[p] # {}
  <2>1. PICK m \in BOOLEAN : m <=> lied
    OBVIOUS
  <2> DEFINE new == The(configCopy[p], s.min)
             q == Hit(s, new, m)
  <2>2. usage' = [usage EXCEPT ![u] = Decided(q)]
    BY <1>2, <2>1 DEF ReadConfig, Hit
  <2>4. /\ q.answers = s.answers /\ q.wallet = s.wallet /\ q.min = new
        /\ (new \in Nat => q \in UsageStates)
        /\ Decided(q).changes = s.changes /\ (Decided(q).misled <=> lied)
    BY <1>1, <2>1, HitIs
  <2>5. ASSUME s.changes < 2, ~lied
        PROVE  Settled(Decided(q), Named, Nameless)
    <3>1. PICK d \in Views :
           /\ n \in Views /\ n.k = config
           /\ Explained(s, d, n) /\ Included(s.package)
           /\ p \in Packages
           /\ \A k \in {d.k, n.k} : \E r \in {d, n} :
                /\ r.w = s.wallet /\ r.c = s.package
                /\ r.e = {s.min} /\ r.k = k /\ Told(s, r)
      BY <1>1, <2>5, ConfigView
    <3>2. PICK r \in {d, n} : /\ r.w = s.wallet /\ r.c = s.package
                              /\ r.e = {s.min} /\ r.k = config /\ Told(s, r)
      BY <3>1
    <3>3. configCopy[p] = EffectiveIn(config, p)
      BY <2>5 DEF Effective, EffectiveIn
    <3>4. configCopy[p] \in AtMostOne(Minimums)
      BY <3>1 DEF UsageTypeOK
    <3>5. configCopy[p] = {new} /\ new \in Nat
      <4>1. configCopy[p] = {new}
        BY <1>2, <3>4, OnlyOne
      <4>2. configCopy[p] \subseteq Nat
        BY <3>4, OneOf, UsageAssumption
      <4> HIDE DEF new
      <4> QED
        BY <4>1, <4>2
    <3>6. The(EffectiveIn(r.k, p), The(r.e, 0)) = new
      BY <3>2, <3>3, <3>5, TheOnly
    <3> HIDE DEF q, new, n
    <3> QED
      BY <1>1, <2>4, <3>1, <3>2, <3>5, <3>6, ConfigHeld
  <2> HIDE DEF q, lied
  <2>6. Settled(Decided(q), Named, Nameless)
    BY <2>4, <2>5 DEF Settled
  <2> QED
    BY <1>1, <2>2, <2>6, OwnAnswer DEF q
<1>3. CASE configCopy[p] = {} /\ own = {}
  <2>1. usage' = [usage EXCEPT ![u] = next]
    BY <1>3 DEF ReadConfig
  <2>2. /\ next.pc = "feature" /\ next.answers = s.answers /\ next.changes = s.changes
        /\ next.todo = s.todo /\ next.wallet = s.wallet /\ next.package = s.package
        /\ next.min = s.min /\ next.named = s.named /\ (next.misled <=> s.misled)
    BY <1>1 DEF UsageStates
  <2> HIDE DEF next
  <2>3. ASSUME s.changes < 2, ~s.misled
        PROVE  \E d \in Views : Explained(next, d, n)
    <3>1. PICK d \in Views : n.k = config /\ Explained(s, d, n) /\ Included(s.package)
      BY <1>1, <2>3, ConfigView
    <3>2. n.k[The(s.package, "none")].endpoint = {}
      BY <1>3, <3>1
    <3> HIDE DEF n, s
    <3>3. FromOne(next, d, n)
      <4>1. s.pc = "config"
        BY <1>1 DEF s
      <4> QED
        BY <2>2, <3>1, <3>2, <4>1 DEF Explained, FromOne
    <3> QED
      BY <2>2, <3>1, <3>3 DEF Explained, Told
  <2>4. Settled(next, Named, Nameless)
    BY <2>2, <2>3 DEF Settled
  <2> QED
    BY <1>1, <2>1, <2>4, OwnAnswer
<1>4. CASE configCopy[p] = {} /\ own # {}
  <2>1. usage' = [usage EXCEPT ![u] = Store(usage[u], own)]
    BY <1>4 DEF ReadConfig, Store
  <2>2. ASSUME NEW d \in Views, NEW m \in Views, m.k = config, p \in Packages
        PROVE  \E k \in {d.k, m.k} : EffectiveIn(k, p) = {The(own, usage[u].min)}
    <3>1. own \in AtMostOne(Minimums)
      BY <2>2 DEF UsageTypeOK
    <3> QED
      BY <1>4, <2>2, <3>1, OnlyOne DEF EffectiveIn
  <2>3. Settled(Store(usage[u], own), Named, Nameless)
    BY <1>1, <2>2, FoundAnswer DEF FoundIn
  <2> QED
    BY <1>1, <2>1, <2>3, OwnAnswer
<1> QED
  BY <1>2, <1>3, <1>4

(* Both configurations were read, that of the endpoint before that of the  *)
(* feature: of one of the two views, both or none changed between them.    *)
LEMMA ReadFeatureConfigAnswer ==
  ASSUME UsageTypeOK, AnswerInv, NEW u \in Usages, ReadFeatureConfig(u)
  PROVE  AnswerInv'
<1> DEFINE s == usage[u]
           n == IF s.named THEN Named ELSE Nameless
           p == The(s.package, "none")
           general == config[p].feature
<1>1. s \in UsageStates /\ s.pc = "feature"
      /\ UNCHANGED <<wallet, subscription, over, endpoint, config>>
  BY DEF UsageTypeOK, ReadFeatureConfig
<1>2. ASSUME NEW d \in Views, NEW m \in Views, m.k = config, Explained(s, d, m),
             p \in Packages
      PROVE  \E k \in {d.k, m.k} : EffectiveIn(k, p) = general
  <2>1. OneApart(d, m) /\ \E k \in {d.k, m.k} : k[p].endpoint = {}
    BY <1>1, <1>2 DEF Explained, FromOne
  <2>2. CASE m.k[p].endpoint = {}
    BY <1>2, <2>2 DEF EffectiveIn
  <2>3. CASE m.k[p].endpoint # {}
    <3>1. d.k[p].endpoint = {} /\ d.k # m.k
      BY <2>1, <2>3
    <3>2. d.k[p].feature = m.k[p].feature
      BY <1>2, <2>1, <2>3, <3>1 DEF OneApart, OneLevel
    <3> QED
      BY <1>2, <3>1, <3>2 DEF EffectiveIn
  <2> QED
    BY <2>2, <2>3
<1>3. CASE general = {}
  <2>1. usage' = [usage EXCEPT ![u] = Decided(s)]
    BY <1>3 DEF ReadFeatureConfig
  <2>2. ASSUME s.changes < 2, ~s.misled
        PROVE  Settled(Decided(s), Named, Nameless)
    <3>1. PICK d \in Views :
           /\ n \in Views /\ n.k = config
           /\ Explained(s, d, n) /\ Included(s.package)
           /\ p \in Packages
           /\ \A k \in {d.k, n.k} : \E r \in {d, n} :
                /\ r.w = s.wallet /\ r.c = s.package
                /\ r.e = {s.min} /\ r.k = k /\ Told(s, r)
      BY <1>1, <2>2, ConfigView
    <3>2. PICK k \in {d.k, n.k} : EffectiveIn(k, p) = {}
      BY <1>2, <1>3, <3>1
    <3>3. PICK r \in {d, n} : /\ r.w = s.wallet /\ r.c = s.package
                              /\ r.e = {s.min} /\ r.k = k /\ Told(s, r)
      BY <3>1
    <3>4. The(EffectiveIn(r.k, p), The(r.e, 0)) = s.min
      BY <3>2, <3>3, TheNone, TheOnly
    <3> HIDE DEF n
    <3> QED
      BY <1>1, <3>1, <3>3, <3>4, ConfigHeld
  <2>3. Decided(s).changes = s.changes /\ (Decided(s).misled <=> s.misled)
    BY <1>1, DecidedIs DEF UsageStates
  <2>4. Settled(Decided(s), Named, Nameless)
    BY <2>2, <2>3 DEF Settled
  <2> QED
    BY <1>1, <2>1, <2>4, OwnAnswer
<1>4. CASE general # {}
  <2>1. usage' = [usage EXCEPT ![u] = Store(usage[u], general)]
    BY <1>4 DEF ReadFeatureConfig, Store
  <2>2. ASSUME NEW d \in Views, NEW m \in Views, m.k = config, Explained(s, d, m),
               p \in Packages
        PROVE  \E k \in {d.k, m.k} : EffectiveIn(k, p) = {The(general, usage[u].min)}
    <3>1. general \in AtMostOne(Minimums)
      BY <2>2 DEF UsageTypeOK
    <3>2. general = {The(general, usage[u].min)}
      BY <1>4, <3>1, OnlyOne
    <3> QED
      BY <1>2, <2>2, <3>2
  <2>3. Settled(Store(usage[u], general), Named, Nameless)
    BY <1>1, <2>2, FoundAnswer DEF FoundIn
  <2> QED
    BY <1>1, <2>1, <2>3, OwnAnswer
<1> QED
  BY <1>3, <1>4

(* What another's step tells a start: the change, and the answer from now. *)
LEMMA ToldNow ==
  ASSUME UsageTypeOK', Housed', NEW f \in [Usages -> UsageStates], NEW v \in Usages
  PROVE  LET g == Answered(f)[v] IN
         /\ Named' \in Views /\ Nameless' \in Views
         /\ g \in UsageStates /\ Same(f[v], g)
         /\ g.changes = f[v].changes /\ (g.misled <=> f[v].misled)
         /\ f[v].answers \subseteq g.answers
         /\ f[v].pc \in Starting =>
              Told(g, IF f[v].named THEN Named' ELSE Nameless')
         /\ f[v].pc \notin Starting => g = f[v]
<1> DEFINE g == Answered(f)[v]
           a == IF f[v].named THEN Answer(TRUE)' ELSE Answer(FALSE)'
<1>1. Named' \in Views /\ Nameless' \in Views
  <2>1. (UsageTypeOK /\ Housed => Named \in Views /\ Nameless \in Views)'
    BY ViewsType, PTL
  <2> QED
    BY <2>1 DEF Views
<1>2. /\ Answer(TRUE)' <=> Verdict(Named')
      /\ Answer(FALSE)' <=> Verdict(Nameless')
  <2>1. (Answer(TRUE) <=> Verdict(Named))'
    BY AnswerNamed, PTL
  <2>2. (Answer(FALSE) <=> Verdict(Nameless))'
    BY AnswerNameless, PTL
  <2> QED
    BY <2>1, <2>2 DEF Verdict, Restricted, Included, The
<1>3. g \in UsageStates /\ Same(f[v], g)
  BY AnsweredIs
<1>4. f[v] \in UsageStates
  OBVIOUS
<1>5. CASE f[v].pc \notin Starting
  BY <1>1, <1>3, <1>5 DEF Answered
<1>6. CASE f[v].pc \in Starting
  <2>1. PICK b \in BOOLEAN : b <=> a
    OBVIOUS
  <2>2. g = [f[v] EXCEPT !.answers = @ \cup {a}]
    BY <1>6 DEF Answered
  <2>3. a \in BOOLEAN
    BY DEF Answer
  <2>4. /\ g.changes = f[v].changes /\ (g.misled <=> f[v].misled)
        /\ g.answers = f[v].answers \cup {a}
    BY <1>4, <2>2 DEF UsageStates
  <2>5. a = TRUE \/ a = FALSE
    BY <2>3
  <2>6. a <=> Verdict(IF f[v].named THEN Named' ELSE Nameless')
    BY <1>2
  <2> HIDE DEF a, g
  <2>7. Told(g, IF f[v].named THEN Named' ELSE Nameless')
    BY <2>4, <2>5, <2>6 DEF Told
  <2> QED
    BY <1>1, <1>3, <1>6, <2>4, <2>7 DEF g
<1> QED
  BY <1>5, <1>6

LEMMA ChangeNoticed ==
  ASSUME UsageTypeOK, UsageTypeOK', AnswerInv, Housed',
         NEW f \in [Usages -> UsageStates], NEW v \in Usages,
         NEW q \in UsageStates, Settled(q, Named, Nameless),
         \/ f[v] = q /\ Named' = Named /\ Nameless' = Nameless
         \/ /\ f[v] = Changed(1, q)
            /\ OneApart(Named, Named') /\ OneApart(Nameless, Nameless')
         \/ f[v] = Changed(2, q)
  PROVE  Settled(Answered(f)[v], Named', Nameless')
<1> DEFINE g == Answered(f)[v]
           n == IF q.named THEN Named ELSE Nameless
           m == IF q.named THEN Named' ELSE Nameless'
<1>1. /\ Named' \in Views /\ Nameless' \in Views
      /\ g \in UsageStates /\ Same(f[v], g)
      /\ g.changes = f[v].changes /\ (g.misled <=> f[v].misled)
      /\ f[v].answers \subseteq g.answers
      /\ f[v].pc \in Starting =>
           Told(g, IF f[v].named THEN Named' ELSE Nameless')
      /\ f[v].pc \notin Starting => g = f[v]
  BY ToldNow
<1>2. /\ Same(q, f[v]) /\ f[v].answers = q.answers /\ (f[v].misled <=> q.misled)
      /\ f[v].changes < 2 => \/ f[v].changes = q.changes /\ f[v] = q
                             \/ q.changes = 0 /\ f[v] = Changed(1, q)
                             \/ q.pc \notin Starting
      /\ q.pc \notin Starting => f[v] = q
  BY DEF Changed, UsageStates, Same, Like
<1> HIDE DEF g
<1>3. CASE q.pc \notin Starting
  BY <1>1, <1>2, <1>3 DEF Settled, Same, Like, g
<1>4. ASSUME q.pc \in Starting, g.changes < 2, ~g.misled
      PROVE  \E d \in Views : Explained(g, d, m)
  <2>1. q.changes < 2 /\ ~q.misled /\ Named \in Views /\ Nameless \in Views
    BY <1>1, <1>2, <1>4, ViewsType DEF UsageStates, AnswerInv
  <2>2. PICK d \in Views : Explained(q, d, n)
    BY <1>4, <2>1 DEF Settled
  <2>3. /\ g.pc = q.pc /\ g.todo = q.todo /\ g.wallet = q.wallet /\ g.package = q.package
        /\ g.min = q.min /\ g.named = q.named /\ q.answers \subseteq g.answers
        /\ Told(g, m)
    BY <1>1, <1>2, <1>4 DEF Same, Like
  <2>4. CASE f[v] = q /\ Named' = Named /\ Nameless' = Nameless
    <3>1. g.changes = q.changes /\ m = n
      BY <1>1, <2>4
    <3> HIDE DEF n, m
    <3>2. Explained(g, d, m)
      BY <2>2, <2>3, <3>1 DEF Explained, Told, FromOne
    <3> QED
      BY <3>2
  <2>5. CASE f[v] = Changed(1, q) /\ OneApart(Named, Named') /\ OneApart(Nameless, Nameless')
    <3>1. q.changes = 0 /\ g.changes = 1 /\ OneApart(n, m) /\ n \in Views
      BY <1>1, <1>2, <1>4, <2>1, <2>5 DEF Changed, UsageStates
    <3> HIDE DEF n, m
    <3>2. d = n
      BY <2>2, <3>1 DEF Explained
    <3>3. Explained(g, n, m)
      <4>1. Told(q, n) /\ FromOne(q, n, n)
        BY <2>2, <3>2 DEF Explained
      <4>2. Told(g, n)
        BY <2>3, <4>1 DEF Told
      <4>3. FromOne(g, n, m)
        BY <2>3, <4>1 DEF FromOne
      <4> QED
        BY <2>3, <3>1, <4>2, <4>3 DEF Explained
    <3> QED
      BY <3>1, <3>3
  <2>6. f[v] # Changed(2, q)
    BY <1>1, <1>4 DEF Changed, UsageStates
  <2> QED
    BY <2>4, <2>5, <2>6
<1>5. CASE q.pc \in Starting
  <2>1. g.pc = q.pc /\ g.named = q.named
    BY <1>1, <1>2 DEF Same, Like
  <2> QED
    BY <1>4, <1>5, <2>1 DEF Settled, Starting, g
<1> QED
  BY <1>3, <1>5

LEMMA SettledAs ==
  ASSUME NEW q, NEW p, NEW a, NEW b, Settled(q, a, b),
         p.pc = q.pc, p.named = q.named, p.todo = q.todo, p.wallet = q.wallet,
         p.package = q.package, p.min = q.min, p.answers = q.answers,
         p.changes = q.changes, p.misled <=> q.misled
  PROVE  Settled(p, a, b)
<1>1. ASSUME NEW d, NEW n, Explained(q, d, n)
      PROVE  Explained(p, d, n)
  <2>1. Told(p, d) /\ Told(p, n)
    BY <1>1 DEF Explained, Told
  <2>2. FromOne(p, d, n)
    BY <1>1 DEF Explained, FromOne
  <2> QED
    BY <1>1, <2>1, <2>2 DEF Explained
<1> QED
  BY <1>1 DEF Settled

LEMMA StartUsageAnswer ==
  ASSUME UsageTypeOK, AnswerInv, NEW u \in Usages, NEW named \in BOOLEAN, StartUsage(u, named)
  PROVE  AnswerInv'
<1> DEFINE q == Begun(usage[u], named, {Answer(named)})
           n == IF named THEN Named ELSE Nameless
<1>1. /\ usage[u] \in UsageStates /\ usage[u].pc = "idle"
      /\ UNCHANGED <<wallet, subscription, over, endpoint, config>>
  BY DEF UsageTypeOK, StartUsage
<1>2. usage' = [usage EXCEPT ![u] = q]
  BY DEF StartUsage, Begun
<1>3. n \in Views
  BY ViewsType DEF AnswerInv
<1>4. /\ q.pc = "reading" /\ q.todo = {"wallet", "endpoint", "subscription"}
      /\ (q.named <=> named) /\ q.answers = {Answer(named)}
  BY <1>1 DEF UsageStates, Begun
<1>5. Told(q, n)
  <2>1. Answer(named) \in BOOLEAN
    BY DEF Answer
  <2>2. Answer(named) = TRUE \/ Answer(named) = FALSE
    BY <2>1
  <2>3. Answer(named) <=> Verdict(n)
    <3>1. CASE named
      BY <3>1, AnswerNamed DEF AnswerInv
    <3>2. CASE ~named
      BY <3>2, AnswerNameless DEF AnswerInv
    <3> QED
      BY <3>1, <3>2
  <2> HIDE DEF n, q
  <2> QED
    BY <1>4, <2>2, <2>3 DEF Told
<1>6. Settled(q, Named, Nameless)
  <2> HIDE DEF q, n
  <2>1. Explained(q, n, n)
    BY <1>4, <1>5 DEF Explained, OneApart, FromOne
  <2>2. (IF q.named THEN Named ELSE Nameless) = n
    BY <1>4 DEF n
  <2> QED
    BY <1>3, <1>4, <2>1, <2>2 DEF Settled
<1> HIDE DEF q
<1> QED
  BY <1>1, <1>2, <1>6, OwnAnswer

LEMMA InsertWalletAnswer ==
  ASSUME UsageTypeOK, UsageTypeOK', AnswerInv, NEW u \in Usages, CreateWallet(u),
         usage[u].pc = "inserting", ~(usage[u].named /\ wallet # {})
  PROVE  AnswerInv'
<1> DEFINE q == usage[u]
           f == [v \in Usages |-> IF v = u \/ ~q.named THEN usage[v] ELSE Changed(1, usage[v])]
           g == Answered(f)
           n == IF q.named THEN Named ELSE Nameless
<1>0. \A v \in Usages : usage[v] \in UsageStates
  BY DEF UsageTypeOK
<1>1. f \in [Usages -> UsageStates] /\ f[u] = q
  BY <1>0, ChangedIs
<1>2. /\ usage' = [g EXCEPT ![u] = Decided(g[u])]
      /\ UNCHANGED <<subscription, over, endpoint, config>>
      /\ wallet' = IF q.named THEN {0} ELSE wallet
  BY DEF CreateWallet
<1>3. Housed' /\ Nameless' = Nameless /\ OneApart(Named, Named')
  BY <1>2 DEF AnswerInv, Housed, Nameless, Named, Current, OneApart
<1>4. ~q.named => Named' = Named
  BY <1>2 DEF Named, Current
<1>5. ASSUME NEW v \in Usages \ {u}
      PROVE  Settled(g[v], Named', Nameless')
  <2>0. usage[v] \in UsageStates /\ Settled(usage[v], Named, Nameless)
    BY <1>0 DEF AnswerInv
  <2>1. f[v] = IF q.named THEN Changed(1, usage[v]) ELSE usage[v]
    OBVIOUS
  <2>2. OneApart(Nameless, Nameless')
    BY <1>3 DEF OneApart
  <2> HIDE DEF f
  <2> QED
    BY <1>1, <1>3, <1>4, <2>0, <2>1, <2>2, ChangeNoticed
<1> HIDE DEF f
<1>6. /\ g[u] \in UsageStates /\ Same(q, g[u]) /\ q.answers \subseteq g[u].answers
      /\ g[u].changes = q.changes /\ (g[u].misled <=> q.misled)
  BY <1>1, <1>3, ToldNow
<1> HIDE DEF g
<1>7. ASSUME q.changes < 2, ~q.misled
      PROVE  Settled(Decided(g[u]), Named', Nameless')
  <2>1. PICK d \in Views : Explained(q, d, n)
    BY <1>7, Explains DEF Starting
  <2>2. n \in Views
    BY ViewsType DEF AnswerInv
  <2>3. /\ q.wallet = {} /\ q.wallet \in {d.w, n.w} /\ q.package \in {d.c, n.c}
        /\ {q.min} \in {d.e, n.e} /\ OneApart(d, n)
    BY <2>1 DEF Explained, FromOne
  <2> HIDE DEF n
  <2>4. PICK r \in {d, n} : r.w = {} /\ r.e = {q.min}
    BY <2>2, <2>3, OfOneView
  <2>5. r.c = {}
    BY <2>2, <2>4 DEF Views
  <2>6. ~Restricted(r.c) /\ The(r.e, 0) = q.min /\ r.e # {}
    BY <2>4, <2>5, TheOnly DEF Restricted
  <2>7. Verdict(r) <=> Covers(The(q.wallet, 0), q.min)
    BY <2>3, <2>4, <2>6 DEF Verdict, Covers
  <2>8. Told(g[u], r)
    BY <1>6, <2>1, <2>4 DEF Explained, Told
  <2>9. Verdict(r) <=> Covers(The(g[u].wallet, 0), g[u].min)
    BY <1>6, <2>7 DEF Same, Like
  <2> QED
    BY <1>6, <2>8, <2>9, DecidedHeld
<1>8. Decided(g[u]).changes = q.changes /\ (Decided(g[u]).misled <=> q.misled)
  BY <1>6, DecidedIs DEF UsageStates
<1>9. Settled(Decided(g[u]), Named', Nameless')
  BY <1>7, <1>8 DEF Settled
<1>10. g \in [Usages -> UsageStates]
  BY <1>1, AnsweredIs DEF g
<1>11. usage'[u] = Decided(g[u]) /\ \A v \in Usages \ {u} : usage'[v] = g[v]
  BY <1>2, <1>10
<1> QED
  BY <1>3, <1>5, <1>9, <1>11 DEF AnswerInv

LEMMA CreateWalletAnswer ==
  ASSUME UsageTypeOK, UsageTypeOK', AnswerInv, NEW u \in Usages, CreateWallet(u)
  PROVE  AnswerInv'
<1> DEFINE q == usage[u]
           lost == [q EXCEPT !.pc = "denied", !.misled = TRUE]
           next == [q EXCEPT !.pc = "inserting"]
<1>1. q \in UsageStates /\ q.pc \in {"creating", "inserting"}
  BY DEF UsageTypeOK, CreateWallet
<1>2. UNCHANGED <<subscription, over, endpoint, config>>
  BY DEF CreateWallet
<1>3. CASE q.named /\ wallet # {}
  <2>1. usage' = [usage EXCEPT ![u] = lost] /\ wallet' = wallet
    BY <1>3 DEF CreateWallet
  <2>2. lost.misled
    BY <1>1 DEF UsageStates
  <2> HIDE DEF lost
  <2> QED
    BY <1>2, <2>1, <2>2, OwnAnswer DEF Settled
<1>4. CASE ~(q.named /\ wallet # {}) /\ q.pc = "creating"
  <2>1. usage' = [usage EXCEPT ![u] = next] /\ wallet' = wallet
    BY <1>4 DEF CreateWallet
  <2>2. /\ next.pc = "inserting" /\ next.answers = q.answers /\ next.changes = q.changes
        /\ next.todo = q.todo /\ next.wallet = q.wallet /\ next.package = q.package
        /\ next.min = q.min /\ next.named = q.named /\ (next.misled <=> q.misled)
    BY <1>1 DEF UsageStates
  <2>3. Settled(q, Named, Nameless)
    BY DEF AnswerInv
  <2> HIDE DEF next
  <2>4. ASSUME NEW d, NEW n, Explained(q, d, n)
        PROVE  Explained(next, d, n)
    <3>1. Told(next, d) /\ Told(next, n)
      BY <2>2, <2>4 DEF Explained, Told
    <3>2. q.wallet = {} /\ q.todo = {}
      BY <1>4, <2>4 DEF Explained, FromOne
    <3>3. FromOne(next, d, n)
      BY <1>4, <2>2, <2>4, <3>2 DEF Explained, FromOne
    <3> QED
      BY <2>2, <2>4, <3>1, <3>3 DEF Explained
  <2>5. Settled(next, Named, Nameless)
    BY <1>4, <2>2, <2>3, <2>4 DEF Settled, Starting
  <2> QED
    BY <1>2, <2>1, <2>5, OwnAnswer
<1> QED
  BY <1>1, <1>3, <1>4, InsertWalletAnswer

(* What the others are told of a step that takes credits. *)
LEMMA LoweredAnswer ==
  ASSUME UsageTypeOK, AnswerInv, NEW n \in Nat, NEW v \in Usages
  PROVE  /\ Lowered(n)[v] \in UsageStates
         /\ Settled(Lowered(n)[v], Named, Nameless)
<1> DEFINE p == Lowered(n)[v]
<1>1. /\ p \in UsageStates /\ Like(usage[v], p) /\ p.changes = usage[v].changes
      /\ p.answers = usage[v].answers /\ (p.misled <=> usage[v].misled)
  BY LoweredIs
<1>2. Settled(usage[v], Named, Nameless)
  BY DEF AnswerInv
<1> HIDE DEF p
<1>3. Settled(p, Named, Nameless)
  BY <1>1, <1>2, SettledAs DEF Like
<1> QED
  BY <1>1, <1>3 DEF p

(* A step of another or of nobody: f is what the starts are told.          *)
LEMMA SeenAnswer ==
  ASSUME UsageTypeOK, UsageTypeOK', AnswerInv, NEW n \in {1, 2}, NEW f, ChangesSeen(n, f),
         Housed', n = 1 => OneApart(Named, Named') /\ OneApart(Nameless, Nameless'),
         \A v \in Usages : f[v] \in UsageStates
  PROVE  \A v \in Usages :
           /\ Settled(f[v], Named, Nameless) => Settled(usage'[v], Named', Nameless')
           /\ f[v].pc \notin Starting => usage'[v] = f[v]
<1> DEFINE g == [v \in Usages |-> Changed(n, f[v])]
<1>1. g \in [Usages -> UsageStates] /\ \A v \in Usages : g[v] = Changed(n, f[v])
  BY ChangedIs
<1>2. usage' = Answered(g)
  BY DEF ChangesSeen
<1> HIDE DEF g
<1>3. ASSUME NEW v \in Usages, Settled(f[v], Named, Nameless)
      PROVE  Settled(usage'[v], Named', Nameless')
  BY <1>1, <1>2, <1>3, ChangeNoticed
<1>4. ASSUME NEW v \in Usages, f[v].pc \notin Starting
      PROVE  usage'[v] = f[v]
  <2>1. g[v] = f[v]
    BY <1>1, <1>4 DEF Changed
  <2> QED
    BY <1>1, <1>2, <1>4, <2>1, ToldNow
<1> QED
  BY <1>3, <1>4

LEMMA EndUsageAnswer ==
  ASSUME UsageTypeOK, UsageTypeOK', AnswerInv, NEW u \in Usages, NEW cost \in Costs,
         EndUsage(u, cost)
  PROVE  AnswerInv'
<1> DEFINE q == usage[u]
           free == [q EXCEPT !.pc = "free"]
           paid == [q EXCEPT !.pc = "charged", !.cost = cost]
           f == [Lowered(cost) EXCEPT ![u] = paid]
<1>0. q \in UsageStates /\ Settled(q, Named, Nameless)
      /\ q.pc = "running" /\ UNCHANGED <<subscription, over, endpoint, config>>
  BY DEF UsageTypeOK, AnswerInv, EndUsage
<1>1. CASE usage' = [usage EXCEPT ![u] = free] /\ wallet' = wallet
  <2>1. /\ free.pc = "free" /\ free.answers = q.answers /\ free.changes = q.changes
        /\ (free.misled <=> q.misled)
    BY <1>0 DEF UsageStates
  <2> HIDE DEF free
  <2>2. Settled(free, Named, Nameless)
    BY <1>0, <2>1 DEF Settled, Starting
  <2> QED
    BY <1>0, <1>1, <2>2, OwnAnswer
<1>2. CASE Charge(u, cost)
  <2>0. cost \in Nat
    BY UsageAssumption
  <2>1. /\ paid \in UsageStates /\ paid.pc = "charged" /\ paid.answers = q.answers
        /\ paid.changes = q.changes /\ (paid.misled <=> q.misled)
    BY <1>0, <2>0 DEF UsageStates
  <2>2. ChangesSeen(1, f) /\ wallet # {} /\ wallet' # {}
    BY <1>2 DEF Charge
  <2> HIDE DEF paid
  <2>3. f[u] = paid /\ \A v \in Usages \ {u} : f[v] = Lowered(cost)[v]
    BY <2>0, LoweredIs
  <2>4. Housed' /\ OneApart(Named, Named') /\ OneApart(Nameless, Nameless')
    BY <1>0, <2>2 DEF Housed, Named, Nameless, Current, OneApart, OneLevel
  <2> HIDE DEF f
  <2>5. \A v \in Usages : f[v] \in UsageStates
    BY <2>0, <2>1, <2>3, LoweredAnswer
  <2>6. \A v \in Usages \ {u} : Settled(usage'[v], Named', Nameless')
    BY <2>0, <2>2, <2>3, <2>4, <2>5, LoweredAnswer, SeenAnswer
  <2>7. usage'[u] = paid
    BY <2>1, <2>2, <2>3, <2>4, <2>5, SeenAnswer DEF Starting
  <2>8. Settled(paid, Named', Nameless')
    BY <1>0, <2>1 DEF Settled, Starting
  <2> QED
    BY <2>4, <2>6, <2>7, <2>8 DEF AnswerInv
<1> QED
  BY <1>1, <1>2 DEF EndUsage, Charge

LEMMA MeanwhileAnswer ==
  ASSUME UsageTypeOK, UsageTypeOK', AnswerInv, Meanwhile
  PROVE  AnswerInv'
<1>1. ASSUME NEW n \in {1, 2}, NEW loss \in Nat,
             ChangesSeen(n, usage) \/ ChangesSeen(n, Lowered(loss)), Housed',
             n = 1 => OneApart(Named, Named') /\ OneApart(Nameless, Nameless')
      PROVE  AnswerInv'
  <2>1. PICK f : ChangesSeen(n, f) /\ \A v \in Usages :
                   f[v] \in UsageStates /\ Settled(f[v], Named, Nameless)
    <3>1. \A v \in Usages : usage[v] \in UsageStates /\ Settled(usage[v], Named, Nameless)
      BY DEF UsageTypeOK, AnswerInv
    <3> QED
      BY <1>1, <3>1, LoweredAnswer
  <2>2. \A v \in Usages : Settled(usage'[v], Named', Nameless')
    BY <1>1, <2>1, SeenAnswer
  <2> QED
    BY <1>1, <2>2 DEF AnswerInv
<1>2. CASE PeriodEnds
  BY <1>1, <1>2 DEF PeriodEnds, AnswerInv, Housed, Named, Nameless, Current, OneApart, OneLevel
<1>3. ASSUME NEW new \in AtMostOne(Minimums), EditEndpoint(new)
      PROVE  AnswerInv'
  BY <1>1, <1>3 DEF EditEndpoint, AnswerInv, Housed, Named, Nameless, Current, OneApart, OneLevel
<1>4. ASSUME NEW p \in Packages, NEW level \in {"endpoint", "feature"},
             NEW new \in AtMostOne(Minimums), EditConfig(p, level, new)
      PROVE  AnswerInv'
  <2>1. /\ UNCHANGED <<wallet, subscription, over, endpoint>> /\ ChangesSeen(1, usage)
        /\ config' = [config EXCEPT ![p][level] = new]
    BY <1>4 DEF EditConfig
  <2>2. OneLevel(config, config')
    BY <2>1 DEF UsageTypeOK, OneLevel
  <2>3. Housed' /\ OneApart(Named, Named') /\ OneApart(Nameless, Nameless')
    BY <2>1, <2>2 DEF AnswerInv, Housed, Named, Nameless, Current, OneApart
  <2> QED
    BY <1>1, <2>1, <2>3
<1>5. ASSUME NEW p \in Packages, BuyPackage(p)
      PROVE  AnswerInv'
  BY <1>1, <1>5 DEF BuyPackage, Housed
<1>6. ASSUME NEW loss \in Nat, ChangesSeen(1, Lowered(loss)),
             UNCHANGED <<subscription, over, endpoint, config>>,
             wallet' = {} => wallet = {}
      PROVE  AnswerInv'
  <2>1. wallet = {} => subscription = {}
    BY DEF AnswerInv, Housed
  <2>2. Housed' /\ OneApart(Named, Named') /\ OneApart(Nameless, Nameless')
    BY <1>6, <2>1 DEF Housed, Named, Nameless, Current, OneApart, OneLevel
  <2> QED
    BY <1>1, <1>6, <2>2
<1>7. CASE Refund
  BY <1>6, <1>7, UsageAssumption DEF Refund
<1>8. CASE TakeCredits
  <2>1. PICK credits \in taking :
          wallet' = {c - credits : c \in wallet} /\ ChangesSeen(1, Lowered(credits))
    BY <1>8 DEF TakeCredits
  <2>2. credits \in Nat
    BY OneOf, UsageAssumption DEF UsageTypeOK
  <2> QED
    BY <1>6, <1>8, <2>1, <2>2 DEF TakeCredits
<1>9. ASSUME NEW credits \in {0, PackageCredits}, SetWallet(credits)
      PROVE  AnswerInv'
  <2>1. PICK c \in wallet : /\ wallet' = {credits}
                            /\ ChangesSeen(1, Lowered(IF credits < c THEN c - credits ELSE 0))
    BY <1>9 DEF SetWallet
  <2>2. (IF credits < c THEN c - credits ELSE 0) \in Nat
    BY UsageAssumption DEF UsageTypeOK
  <2> QED
    BY <1>6, <1>9, <2>1, <2>2 DEF SetWallet
<1>10. CASE ClearConfigs \/ EndpointCopyExpires \/ \E credits \in Costs : CompareCredits(credits)
  <2>1. UNCHANGED <<wallet, subscription, over, endpoint, config, usage>>
    BY <1>10 DEF ClearConfigs, EndpointCopyExpires, CompareCredits
  <2> QED
    BY <2>1 DEF AnswerInv, Housed, Named, Nameless, Current
<1> QED
  BY <1>2, <1>3, <1>4, <1>5, <1>7, <1>8, <1>9, <1>10 DEF Meanwhile

LEMMA NextAnswer ==
  ASSUME UsageTypeOK, UsageTypeOK', AnswerInv, [UsageNext]_usageVars
  PROVE  AnswerInv'
<1>1. CASE Meanwhile
  BY <1>1, MeanwhileAnswer
<1>2. ASSUME NEW u \in Usages, UsageStep(u)
      PROVE  AnswerInv'
  BY <1>2, StartUsageAnswer, ReadWalletAnswer, ReadSubscriptionAnswer, ReadEndpointAnswer,
     StoreEndpointAnswer, CreateWalletAnswer, ReadConfigAnswer, ReadFeatureConfigAnswer,
     StoreConfigAnswer, EndUsageAnswer DEF UsageStep
<1>3. CASE UNCHANGED usageVars
  BY <1>3 DEF usageVars, AnswerInv, Housed, Named, Nameless, Current
<1> QED
  BY <1>1, <1>2, <1>3 DEF UsageNext

(* A start answers as it would have in one step at some moment since it    *)
(* began (creditsProcessStart reads its documents side by side), but for   *)
(* two documents that change meanwhile, a copy that is not its document,   *)
(* and the loss of the race for the wallet.                                *)
THEOREM StartsAnswerAsOfOneMoment == UsageSpec => []AnswersHeld
<1> DEFINE Inv == UsageInv /\ AnswerInv
<1>1. UsageInit => Inv
  <2> SUFFICES ASSUME UsageInit PROVE AnswerInv
    BY InitUsage
  <2>1. Housed /\ \A u \in Usages : usage[u].pc = "idle"
    BY DEF UsageInit, Housed
  <2> QED
    BY <2>1 DEF AnswerInv, Settled, Starting
<1>2. Inv /\ [UsageNext]_usageVars => Inv'
  <2> SUFFICES ASSUME Inv, [UsageNext]_usageVars PROVE Inv'
    OBVIOUS
  <2>1. UsageInv'
    BY NextUsage
  <2> QED
    BY <2>1, NextAnswer DEF UsageInv
<1>3. Inv => AnswersHeld
  BY DEF AnswerInv, Settled, AnswersHeld
<1> QED
  BY <1>1, <1>2, <1>3, PTL DEF UsageSpec

-----------------------------------------------------------------------------
(* The inductive invariant. *)

(* r has written the object it uploaded, or never will. *)
Written(r) == call[r].name \in Uploads /\ call[r].pc \in {"old", "done", "cut"}

(* The object x can only be, or have been, the one of document d. *)
Belongs(x, d) ==
  \/ x = d
  \/ x \in Uploaders /\ Written(x) /\ d \in call[x].docs

(* Where a call is tells its name; a call names documents that are there,  *)
(* an upload one of them.                                                  *)
Shape(r) ==
  LET c == call[r] IN
  /\ c.pc = "idle" => c.name = "delete" /\ c.docs = {}
  /\ c.pc = "handle" => c.name \in Uploads
  /\ c.pc = "old" => c.name = "updateFeaturePopup"
  /\ c.pc = "write" => c.name \in {"updateFeaturePopup", "delete"}
  /\ c.pc = "find" => c.name \notin Uploads
  /\ c.pc = "bytes" => c.name \in {"deletePermanent", "deletesPermanent"}
  /\ c.pc \in {"handle", "idle"} => c.old = {}
  /\ c.old # {} => c.name = "updateFeaturePopup"
  /\ c.name \in Uploads => \A d, e \in c.docs : d = e
  /\ c.name \in Creates /\ c.pc = "handle" => c.docs = {}
  /\ c.name = "updateFeaturePopup" => \A d \in c.docs : doc[d].place = "popup"
  /\ \A d \in c.docs : doc[d].state # "none"
  /\ c.left \subseteq c.docs
  /\ c.name \in Uploads /\ c.pc \in {"handle", "write"} => r \in stored

Owned ==
  /\ \A d \in Docs : \A x \in doc[d].object : Belongs(x, d)
  /\ \A r \in Uploaders : \A x \in call[r].old :
       \E d \in call[r].docs : Belongs(x, d)

(* A document that is not where a call found it was written meanwhile.     *)
Noticed(r, d) ==
  /\ call[r].pc = "write" /\ call[r].name = "updateFeaturePopup" =>
       /\ doc[d].state # "live" => doc[d].raced
       /\ \A x \in doc[d].object : x \in call[r].old \/ doc[d].raced
  /\ call[r].pc = "old" =>
       \A x \in doc[d].object \cap call[r].old :
         /\ doc[d].raced
         /\ doc[d].state = "live" => doc[d].restored
  /\ call[r].pc = "bytes" /\ call[r].name = "deletesPermanent"
     /\ doc[d].state = "live" => doc[d].restored /\ doc[d].raced

(* A document without its object, be it deleted. *)
Excused(d) ==
  \/ doc[d].cut
  \/ \E r \in Uploaders : call[r].pc = "bytes" /\ d \in call[r].docs
  \/ doc[d].raced /\ (doc[d].state = "live" => doc[d].restored)

Missing ==
  \A d \in Docs :
    doc[d].state \in Exists /\ ~(doc[d].object \subseteq stored) => Excused(d)

(* Bytes of which nothing is left to do. *)
Cleared(d) == doc[d].object \cap stored \subseteq spared

Replaced(r, d) ==
  \/ r \in doc[d].object
  \/ r \in spared \/ doc[d].raced
  \/ \E q \in Uploaders : r \in call[q].old /\ call[q].pc \in {"old", "cut"}

Leftover ==
  /\ \A r \in Uploaders : \A d \in call[r].docs \ call[r].left :
       call[r].pc = "bytes" /\ doc[d].place = "gcs" => Cleared(d)
  /\ \A d \in Docs : doc[d].state = "gone" /\ doc[d].place = "gcs" => Cleared(d)
  /\ \A r \in Uploaders : \A d \in call[r].docs :
       call[r].pc \in {"old", "done"} /\ call[r].name \in Uploads /\ r \in stored
       => Replaced(r, d)

FilesInv ==
  /\ \A r \in Uploaders : Shape(r) /\ \A d \in call[r].docs : Noticed(r, d)
  /\ Owned
  /\ Missing
  /\ Leftover

-----------------------------------------------------------------------------
(* What every step has in common: r is the request that takes it. *)

(* The step as document d sees it. *)
Kept(r, d) ==
  /\ doc[d].raced => doc'[d].raced
  /\ doc[d].restored => doc'[d].restored
  /\ doc[d].cut => doc'[d].cut
  /\ doc[d].state = "none" =>
       \/ doc'[d] = doc[d]
       \/ doc'[d].state = "live" /\ doc'[d].object = {r}
  /\ doc[d].state # "none" => doc'[d].state # "none" /\ doc'[d].place = doc[d].place
  /\ doc[d].state = "gone" => doc'[d].state = "gone"
  /\ doc[d].state \in {"deleted", "gone"} /\ doc'[d].state = "live" =>
       doc'[d].restored
  /\ doc[d].state # "none" /\ doc'[d] # doc[d] /\ Raced(r, d) =>
       \/ doc'[d].raced
       \/ doc'[d].state = doc[d].state /\ doc'[d].object = doc[d].object
  /\ doc'[d].object # doc[d].object =>
       /\ doc'[d].object = {r} /\ r \in stored' /\ d \in call'[r].docs
       /\ ~Written(r) /\ Written(r)'
       /\ doc[d].state # "none" =>
            /\ doc[d].place = "popup"
            /\ \A x \in doc[d].object :
                 doc'[d].raced \/ (x \in call'[r].old /\ call'[r].pc = "old")

Moves(r) ==
  /\ \A q \in Uploaders \ {r} : call'[q] = call[q]
  /\ call[r].pc \notin Ended /\ call'[r].pc # "idle"
  /\ call[r].pc # "idle" => call'[r].name = call[r].name
  /\ call[r].pc = "old" =>
       /\ call'[r].docs = call[r].docs /\ call'[r].old = call[r].old
       /\ \/ call'[r].pc = "cut"
          \/ /\ call'[r].pc = "done"
             /\ \A x \in call[r].old : x \notin stored' \/ x \in spared'
  /\ spared \subseteq spared'
  /\ stored' \subseteq stored \cup {r}
  /\ r \in stored' \ stored => call[r].pc = "idle"
  /\ \A x \in stored \ stored' : \E d \in call[r].docs : Belongs(x, d)
  /\ \A d \in Docs : Kept(r, d)

SteadyStep(r) == FilesTypeOK' /\ Moves(r) /\ Shape(r)'

-----------------------------------------------------------------------------
(* What the operators of Files do, field by field. *)

LEMMA IdsApart == Docs \cap Uploaders = {} /\ MaxFaults \in Nat
BY FilesAssumption

LEMMA CallFields ==
  ASSUME FilesTypeOK, NEW r \in Uploaders
  PROVE  /\ call[r] \in CallStates
         /\ call[r].name \in CallNames /\ call[r].docs \subseteq Docs
         /\ call[r].left \subseteq Docs /\ call[r].old \subseteq Objects
BY DEF FilesTypeOK, CallStates

LEMMA DocFields ==
  ASSUME FilesTypeOK, NEW d \in Docs
  PROVE  /\ doc[d] \in DocStates
         /\ doc[d].state \in {"none", "live", "deleted", "gone"}
         /\ doc[d].place \in Places /\ doc[d].object \subseteq Objects
         /\ doc[d].restored \in BOOLEAN /\ doc[d].raced \in BOOLEAN
         /\ doc[d].cut \in BOOLEAN
BY DEF FilesTypeOK, DocStates

LEMMA GoesStep ==
  ASSUME FilesTypeOK, NEW r \in Uploaders,
         NEW pc \in {"handle", "find", "write", "old", "bytes"} \cup Ended,
         Goes(r, pc)
  PROVE  /\ \A q \in Uploaders \ {r} : call'[q] = call[q]
         /\ call'[r].pc = pc /\ call'[r].name = call[r].name
         /\ call'[r].docs = call[r].docs /\ call'[r].left = call[r].left
         /\ call'[r].old = call[r].old
         /\ call' \in [Uploaders -> CallStates]
<1>1. call[r] \in CallStates
  BY CallFields
<1>2. [call[r] EXCEPT !.pc = pc] \in CallStates
  BY <1>1 DEF CallStates
<1> QED
  BY <1>1, <1>2 DEF Goes, FilesTypeOK, CallStates

LEMMA WriteStep ==
  ASSUME FilesTypeOK, NEW r \in Uploaders, NEW S \in SUBSET Docs,
         NEW new \in [S -> DocStates], Write(r, new)
  PROVE  /\ doc' \in [Docs -> DocStates]
         /\ \A d \in S :
              /\ doc'[d].state = new[d].state /\ doc'[d].place = new[d].place
              /\ doc'[d].object = new[d].object
              /\ doc'[d].restored = new[d].restored /\ doc'[d].cut = new[d].cut
              /\ doc'[d].raced <=> new[d].raced \/ Raced(r, d)
         /\ \A d \in Docs \ S : doc'[d] = doc[d]
<1>1. ASSUME NEW d \in S
      PROVE  /\ doc'[d].state = new[d].state /\ doc'[d].place = new[d].place
             /\ doc'[d].object = new[d].object
             /\ doc'[d].restored = new[d].restored /\ doc'[d].cut = new[d].cut
             /\ doc'[d].raced <=> new[d].raced \/ Raced(r, d)
             /\ doc'[d] \in DocStates
  <2>1. new[d] \in DocStates
    OBVIOUS
  <2>2. PICK b \in BOOLEAN : b <=> new[d].raced \/ Raced(r, d)
    OBVIOUS
  <2>3. doc'[d] = [new[d] EXCEPT !.raced = new[d].raced \/ Raced(r, d)]
    BY <2>1 DEF Write, DocStates
  <2>4. (new[d].raced \/ Raced(r, d)) = b
    <3>1. new[d].raced \in BOOLEAN /\ Raced(r, d) \in BOOLEAN
      BY <2>1 DEF DocStates, Raced
    <3> QED
      BY <2>2, <3>1
  <2>5. doc'[d] = [new[d] EXCEPT !.raced = b]
    BY <2>3, <2>4
  <2> QED
    BY <2>1, <2>2, <2>5 DEF DocStates
<1>2. \A d \in Docs \ S : doc'[d] = doc[d] /\ doc'[d] \in DocStates
  BY DocFields DEF Write
<1>3. doc' = [d \in Docs |-> doc'[d]]
  BY DEF Write
<1> QED
  BY <1>1, <1>2, <1>3

(* A document seen by another call while it is under way.                  *)
LEMMA RacedBy ==
  ASSUME NEW r \in Uploaders, NEW q \in Uploaders \ {r}, NEW d \in call[q].docs,
         Busy(q)
  PROVE  Raced(r, d)
BY DEF Raced

(* What a step may change of the documents S that it rewrites.             *)
LEMMA PopupWritten ==
  ASSUME FilesTypeOK, NEW r \in Uploaders, WritePopup(r)
  PROVE  /\ doc' \in [Docs -> DocStates]
         /\ \A d \in Docs :
              IF d \in call[r].docs /\ doc[d].state = "live"
              THEN /\ doc'[d].state = "live" /\ doc'[d].place = doc[d].place
                   /\ doc'[d].object = {r}
                   /\ doc'[d].restored = doc[d].restored
                   /\ doc'[d].cut = doc[d].cut
                   /\ doc'[d].raced <=> doc[d].raced \/ Raced(r, d)
              ELSE doc'[d] = doc[d]
<1> DEFINE S == {e \in call[r].docs : doc[e].state = "live"}
           new == [d \in S |-> [doc[d] EXCEPT !.object = {r}]]
<1>1. S \in SUBSET Docs
  BY CallFields
<1>2. ASSUME NEW d \in S
      PROVE  /\ new[d] \in DocStates
             /\ new[d].state = doc[d].state /\ new[d].place = doc[d].place
             /\ new[d].object = {r} /\ new[d].restored = doc[d].restored
             /\ new[d].cut = doc[d].cut /\ new[d].raced = doc[d].raced
  <2>1. doc[d] \in DocStates /\ {r} \in SUBSET Objects
    BY <1>1, DocFields DEF Objects
  <2> QED
    BY <2>1 DEF DocStates
<1>3. new \in [S -> DocStates]
  BY <1>2
<1>4. Write(r, new)
  BY DEF WritePopup
<1> HIDE DEF new
<1>5. /\ doc' \in [Docs -> DocStates]
      /\ \A d \in S :
           /\ doc'[d].state = new[d].state /\ doc'[d].place = new[d].place
           /\ doc'[d].object = new[d].object
           /\ doc'[d].restored = new[d].restored /\ doc'[d].cut = new[d].cut
           /\ doc'[d].raced <=> new[d].raced \/ Raced(r, d)
      /\ \A d \in Docs \ S : doc'[d] = doc[d]
  BY <1>1, <1>3, <1>4, WriteStep
<1> QED
  BY <1>2, <1>5

LEMMA SoftDeleted ==
  ASSUME FilesTypeOK, NEW r \in Uploaders, SoftDelete(r)
  PROVE  /\ doc' \in [Docs -> DocStates]
         /\ \A d \in Docs :
              IF d \in call[r].docs /\ doc[d].state \in Exists
              THEN /\ doc'[d].state = "deleted" /\ doc'[d].place = doc[d].place
                   /\ doc'[d].object = doc[d].object
                   /\ doc'[d].restored = doc[d].restored
                   /\ doc'[d].cut = doc[d].cut
                   /\ doc'[d].raced <=> doc[d].raced \/ Raced(r, d)
              ELSE doc'[d] = doc[d]
<1> DEFINE S == {e \in call[r].docs : doc[e].state \in Exists}
           new == [d \in S |-> [doc[d] EXCEPT !.state = "deleted"]]
<1>1. S \in SUBSET Docs
  BY CallFields
<1>2. ASSUME NEW d \in S
      PROVE  /\ new[d] \in DocStates
             /\ new[d].state = "deleted" /\ new[d].place = doc[d].place
             /\ new[d].object = doc[d].object /\ new[d].restored = doc[d].restored
             /\ new[d].cut = doc[d].cut /\ new[d].raced = doc[d].raced
  BY <1>1, DocFields DEF DocStates
<1>3. new \in [S -> DocStates]
  BY <1>2
<1>4. Write(r, new)
  BY DEF SoftDelete
<1> HIDE DEF new
<1>5. /\ doc' \in [Docs -> DocStates]
      /\ \A d \in S :
           /\ doc'[d].state = new[d].state /\ doc'[d].place = new[d].place
           /\ doc'[d].object = new[d].object
           /\ doc'[d].restored = new[d].restored /\ doc'[d].cut = new[d].cut
           /\ doc'[d].raced <=> new[d].raced \/ Raced(r, d)
      /\ \A d \in Docs \ S : doc'[d] = doc[d]
  BY <1>1, <1>3, <1>4, WriteStep
<1> QED
  BY <1>2, <1>5

LEMMA Restored ==
  ASSUME FilesTypeOK, NEW r \in Uploaders, Restore(r)
  PROVE  /\ doc' \in [Docs -> DocStates]
         /\ \A d \in Docs :
              IF d \in call[r].docs /\ doc[d].state = "deleted"
              THEN /\ doc'[d].state = "live" /\ doc'[d].place = doc[d].place
                   /\ doc'[d].object = doc[d].object
                   /\ doc'[d].restored = TRUE
                   /\ doc'[d].cut = doc[d].cut
                   /\ doc'[d].raced <=> doc[d].raced \/ Raced(r, d)
              ELSE doc'[d] = doc[d]
<1> DEFINE S == {e \in call[r].docs : doc[e].state = "deleted"}
           new == [d \in S |-> [doc[d] EXCEPT !.state = "live", !.restored = TRUE]]
<1>1. S \in SUBSET Docs
  BY CallFields
<1>2. ASSUME NEW d \in S
      PROVE  /\ new[d] \in DocStates
             /\ new[d].state = "live" /\ new[d].place = doc[d].place
             /\ new[d].object = doc[d].object /\ new[d].restored = TRUE
             /\ new[d].cut = doc[d].cut /\ new[d].raced = doc[d].raced
  BY <1>1, DocFields DEF DocStates
<1>3. new \in [S -> DocStates]
  BY <1>2
<1>4. Write(r, new)
  BY DEF Restore
<1> HIDE DEF new
<1>5. /\ doc' \in [Docs -> DocStates]
      /\ \A d \in S :
           /\ doc'[d].state = new[d].state /\ doc'[d].place = new[d].place
           /\ doc'[d].object = new[d].object
           /\ doc'[d].restored = new[d].restored /\ doc'[d].cut = new[d].cut
           /\ doc'[d].raced <=> new[d].raced \/ Raced(r, d)
      /\ \A d \in Docs \ S : doc'[d] = doc[d]
  BY <1>1, <1>3, <1>4, WriteStep
<1> QED
  BY <1>2, <1>5

LEMMA DocsDeleted ==
  ASSUME FilesTypeOK, NEW r \in Uploaders, DeleteDocs(r)
  PROVE  /\ doc' \in [Docs -> DocStates]
         /\ \A d \in Docs :
              IF d \in call[r].docs /\ doc[d].state \in Found(call[r].name)
              THEN /\ doc'[d].state = "gone" /\ doc'[d].place = doc[d].place
                   /\ doc'[d].object = doc[d].object
                   /\ doc'[d].restored = doc[d].restored
                   /\ doc'[d].cut = doc[d].cut
                   /\ doc'[d].raced <=> doc[d].raced \/ Raced(r, d)
              ELSE doc'[d] = doc[d]
<1> DEFINE S == {e \in call[r].docs : doc[e].state \in Found(call[r].name)}
           new == [d \in S |-> [doc[d] EXCEPT !.state = "gone"]]
<1>1. S \in SUBSET Docs
  BY CallFields
<1>2. ASSUME NEW d \in S
      PROVE  /\ new[d] \in DocStates
             /\ new[d].state = "gone" /\ new[d].place = doc[d].place
             /\ new[d].object = doc[d].object /\ new[d].restored = doc[d].restored
             /\ new[d].cut = doc[d].cut /\ new[d].raced = doc[d].raced
  BY <1>1, DocFields DEF DocStates
<1>3. new \in [S -> DocStates]
  BY <1>2
<1>4. Write(r, new)
  BY DEF DeleteDocs
<1> HIDE DEF new
<1>5. /\ doc' \in [Docs -> DocStates]
      /\ \A d \in S :
           /\ doc'[d].state = new[d].state /\ doc'[d].place = new[d].place
           /\ doc'[d].object = new[d].object
           /\ doc'[d].restored = new[d].restored /\ doc'[d].cut = new[d].cut
           /\ doc'[d].raced <=> new[d].raced \/ Raced(r, d)
      /\ \A d \in Docs \ S : doc'[d] = doc[d]
  BY <1>1, <1>3, <1>4, WriteStep
<1> QED
  BY <1>2, <1>5

LEMMA KeptSame ==
  ASSUME NEW r \in Uploaders, NEW d \in Docs, doc'[d] = doc[d]
  PROVE  Kept(r, d)
BY DEF Kept

(* A step that leaves documents and bytes alone. *)
LEMMA QuietMoves ==
  ASSUME FilesTypeOK, NEW r \in Uploaders,
         \A q \in Uploaders \ {r} : call'[q] = call[q],
         call[r].pc \notin Ended \cup {"old"}, call'[r].pc # "idle",
         call[r].pc # "idle" => call'[r].name = call[r].name,
         UNCHANGED <<doc, stored, spared>>
  PROVE  Moves(r)
<1>1. \A d \in Docs : Kept(r, d)
  BY KeptSame
<1> QED
  BY <1>1 DEF Moves

(* The next state of one call, written out. *)
LEMMA CallChanged ==
  ASSUME FilesTypeOK, NEW r \in Uploaders, NEW c \in CallStates,
         call' = [call EXCEPT ![r] = c]
  PROVE  /\ \A q \in Uploaders \ {r} : call'[q] = call[q]
         /\ call'[r] = c
         /\ call' \in [Uploaders -> CallStates]
BY DEF FilesTypeOK

LEMMA UploadSteady ==
  ASSUME FilesTypeOK, FilesInv, NEW r \in Uploaders, NEW name \in CallNames,
         Upload(r, name)
  PROVE  /\ SteadyStep(r) /\ call[r].pc = "idle" /\ call'[r].old = {}
         /\ call'[r].pc \in {"handle", "rejected"}
         /\ UNCHANGED doc /\ stored \subseteq stored'
<1>0. call[r] \in CallStates /\ call[r].docs = {} /\ call[r].pc = "idle"
      /\ call[r].old = {} /\ call[r].left \subseteq call[r].docs
  BY CallFields DEF Upload, FilesInv, Shape
<1>1. PICK pc \in {"handle", "rejected"}, S \in SUBSET Docs :
        /\ call' = [call EXCEPT ![r] =
             [call[r] EXCEPT !.pc = pc, !.name = name, !.docs = S]]
        /\ \A d, e \in S : d = e
        /\ \A d \in S : doc[d].place = "popup" /\ doc[d].state # "none"
        /\ name # "updateFeaturePopup" => S = {}
  <2>1. PICK pc \in {"handle", "rejected"} :
          IF name = "updateFeaturePopup"
          THEN \E d \in Docs : /\ doc[d].place = "popup" /\ doc[d].state # "none"
                               /\ call' = [call EXCEPT ![r].pc = pc, ![r].name = name,
                                                       ![r].docs = {d}]
          ELSE call' = [call EXCEPT ![r].pc = pc, ![r].name = name]
    BY DEF Upload
  <2>2. CASE name = "updateFeaturePopup"
    <3>1. PICK d \in Docs : /\ doc[d].place = "popup" /\ doc[d].state # "none"
                            /\ call' = [call EXCEPT ![r].pc = pc, ![r].name = name,
                                                    ![r].docs = {d}]
      BY <2>1, <2>2
    <3>2. call' = [call EXCEPT ![r] =
             [call[r] EXCEPT !.pc = pc, !.name = name, !.docs = {d}]]
      BY <1>0, <3>1 DEF FilesTypeOK, CallStates
    <3> DEFINE S == {d}
    <3>3. /\ S \in SUBSET Docs
          /\ \A e, f \in S : e = f
          /\ \A e \in S : doc[e].place = "popup" /\ doc[e].state # "none"
      BY <3>1
    <3>4. call' = [call EXCEPT ![r] =
             [call[r] EXCEPT !.pc = pc, !.name = name, !.docs = S]]
      BY <3>2
    <3> HIDE DEF S
    <3> QED
      BY <2>2, <3>3, <3>4
  <2>3. CASE name # "updateFeaturePopup"
    <3>1. call' = [call EXCEPT ![r].pc = pc, ![r].name = name]
      BY <2>1, <2>3
    <3>2. call' = [call EXCEPT ![r] =
             [call[r] EXCEPT !.pc = pc, !.name = name, !.docs = {}]]
      BY <1>0, <3>1 DEF FilesTypeOK, CallStates
    <3> QED
      BY <2>3, <3>2
  <2> QED
    BY <2>2, <2>3
<1>2. [call[r] EXCEPT !.pc = pc, !.name = name, !.docs = S] \in CallStates
  BY <1>0 DEF CallStates, Ended
<1>3. /\ \A q \in Uploaders \ {r} : call'[q] = call[q]
      /\ call' \in [Uploaders -> CallStates]
      /\ call'[r].pc = pc /\ call'[r].name = name /\ call'[r].docs = S
      /\ call'[r].left = call[r].left /\ call'[r].old = call[r].old
  <2> DEFINE c == [call[r] EXCEPT !.pc = pc, !.name = name, !.docs = S]
  <2>1. call' = [call EXCEPT ![r] = c] /\ c \in CallStates
    BY <1>1, <1>2
  <2>2. c.pc = pc /\ c.name = name /\ c.docs = S /\ c.left = call[r].left
        /\ c.old = call[r].old
    BY <1>0 DEF CallStates
  <2> HIDE DEF c
  <2> QED
    BY <2>1, <2>2, CallChanged
<1>4. /\ stored' = stored \cup {r} /\ name \in Uploads
      /\ UNCHANGED <<doc, spared, faults>>
  BY DEF Upload
<1>5. FilesTypeOK'
  BY <1>3, <1>4 DEF FilesTypeOK, Objects
<1>6. Moves(r)
  <2>1. \A d \in Docs : Kept(r, d)
    BY <1>4, KeptSame
  <2> QED
    BY <1>0, <1>3, <1>4, <2>1 DEF Moves, Ended
<1>7. Shape(r)'
  BY <1>0, <1>1, <1>3, <1>4 DEF Shape, Uploads, Creates
<1> QED
  BY <1>0, <1>3, <1>4, <1>5, <1>6, <1>7 DEF SteadyStep

LEMMA AskSteady ==
  ASSUME FilesTypeOK, FilesInv, NEW r \in Uploaders, NEW name \in CallNames,
         NEW S \in SUBSET Docs, Ask(r, name, S)
  PROVE  /\ SteadyStep(r) /\ call[r].pc = "idle" /\ call'[r].old = {}
         /\ call'[r].pc = "find" /\ UNCHANGED <<doc, stored>>
<1>0. call[r] \in CallStates /\ call[r].pc = "idle"
      /\ call[r].old = {} /\ call[r].left = {}
  BY CallFields DEF Ask, FilesInv, Shape
<1> DEFINE c == [call[r] EXCEPT !.pc = "find", !.name = name, !.docs = S]
<1>1. c \in CallStates
  BY <1>0 DEF CallStates
<1>2. c.pc = "find" /\ c.name = name /\ c.docs = S /\ c.left = {} /\ c.old = {}
  BY <1>0 DEF CallStates
<1>3. call' = [call EXCEPT ![r] = c]
  BY <1>0 DEF Ask, FilesTypeOK, CallStates
<1> HIDE DEF c
<1>4. /\ \A q \in Uploaders \ {r} : call'[q] = call[q]
      /\ call'[r] = c /\ call' \in [Uploaders -> CallStates]
  BY <1>1, <1>3, CallChanged
<1>5. /\ UNCHANGED <<doc, stored, spared, faults>> /\ name \notin Uploads
      /\ \A d \in S : doc[d].state # "none"
  BY DEF Ask
<1>6. FilesTypeOK'
  BY <1>4, <1>5 DEF FilesTypeOK
<1>7. Moves(r)
  BY <1>0, <1>2, <1>4, <1>5, QuietMoves DEF Ended
<1>8. Shape(r)'
  BY <1>2, <1>4, <1>5 DEF Shape, Uploads, Creates
<1> QED
  BY <1>0, <1>2, <1>4, <1>5, <1>6, <1>7, <1>8 DEF SteadyStep

LEMMA RefuseSteady ==
  ASSUME FilesTypeOK, FilesInv, NEW r \in Uploaders, Refuse(r)
  PROVE  /\ SteadyStep(r) /\ call[r].pc # "bytes" /\ call'[r].pc = "rejected"
         /\ call'[r].old = call[r].old /\ call'[r].docs = call[r].docs
         /\ UNCHANGED <<doc, stored>>
<1>1. /\ Goes(r, "rejected") /\ UNCHANGED <<doc, stored, spared, faults>>
      /\ call[r].pc \in {"handle", "write"}
  BY DEF Refuse
<1>2. /\ \A q \in Uploaders \ {r} : call'[q] = call[q]
      /\ call'[r].pc = "rejected" /\ call'[r].name = call[r].name
      /\ call'[r].docs = call[r].docs /\ call'[r].left = call[r].left
      /\ call'[r].old = call[r].old
      /\ call' \in [Uploaders -> CallStates]
  BY <1>1, GoesStep DEF Ended
<1>3. FilesTypeOK'
  BY <1>1, <1>2 DEF FilesTypeOK
<1>4. Moves(r)
  BY <1>1, <1>2, QuietMoves DEF Ended
<1>5. Shape(r)'
  BY <1>1, <1>2 DEF FilesInv, Shape
<1> QED
  BY <1>1, <1>2, <1>3, <1>4, <1>5 DEF SteadyStep

LEMMA CreateSteady ==
  ASSUME FilesTypeOK, FilesInv, NEW r \in Uploaders, Create(r)
  PROVE  /\ SteadyStep(r) /\ call[r].pc = "handle" /\ call'[r].pc = "done"
         /\ call'[r].old = {} /\ UNCHANGED stored
         /\ \A d \in call'[r].docs : doc'[d].object = {r}
         /\ \A d \in Docs : doc'[d] = doc[d] \/ doc'[d].state = "live"
<1>0. /\ call[r] \in CallStates /\ call[r].pc = "handle"
      /\ call[r].name \in Creates /\ call[r].name \in Uploads
      /\ call[r].old = {} /\ call[r].left = {} /\ r \in stored
      /\ UNCHANGED <<stored, spared, faults>>
  BY CallFields DEF Create, FilesInv, Shape, Uploads
<1>1. PICK d \in Docs :
        /\ doc[d].state = "none"
        /\ doc' = [doc EXCEPT ![d].state = "live", ![d].object = {r},
                              ![d].place = PlaceOf(call[r].name)]
        /\ call' = [call EXCEPT ![r].pc = "done", ![r].docs = {d}]
  BY DEF Create
<1> DEFINE c == [call[r] EXCEPT !.pc = "done", !.docs = {d}]
           place == PlaceOf(call[r].name)
<1>2. /\ c \in CallStates /\ c.pc = "done" /\ c.docs = {d} /\ c.left = {}
      /\ c.old = {} /\ c.name = call[r].name
      /\ call' = [call EXCEPT ![r] = c]
  BY <1>0, <1>1 DEF CallStates, FilesTypeOK, Ended
<1>3. place \in Places
  BY <1>0 DEF PlaceOf, Places, Creates
<1> HIDE DEF c
<1>4. /\ \A q \in Uploaders \ {r} : call'[q] = call[q]
      /\ call'[r] = c /\ call' \in [Uploaders -> CallStates]
  BY <1>2, CallChanged
<1>5. /\ doc'[d].state = "live" /\ doc'[d].object = {r} /\ doc'[d].place = place
      /\ doc'[d].raced = doc[d].raced /\ doc'[d].restored = doc[d].restored
      /\ doc'[d].cut = doc[d].cut /\ doc'[d] \in DocStates
      /\ \A e \in Docs \ {d} : doc'[e] = doc[e]
      /\ doc' \in [Docs -> DocStates]
  <2>1. doc[d] \in DocStates
    BY DocFields
  <2>2. doc' = [doc EXCEPT ![d] = [doc[d] EXCEPT !.state = "live", !.object = {r},
                                                 !.place = place]]
    BY <1>1, <2>1 DEF FilesTypeOK, DocStates
  <2>3. {r} \in SUBSET Objects
    BY DEF Objects
  <2> HIDE DEF place
  <2>4. [doc[d] EXCEPT !.state = "live", !.object = {r}, !.place = place] \in DocStates
    BY <1>3, <2>1, <2>3 DEF DocStates
  <2>5. doc'[d] = [doc[d] EXCEPT !.state = "live", !.object = {r}, !.place = place]
    BY <2>2 DEF FilesTypeOK
  <2> QED
    BY <2>1, <2>2, <2>4, <2>5 DEF FilesTypeOK, DocStates
<1>6. FilesTypeOK'
  BY <1>0, <1>4, <1>5 DEF FilesTypeOK
<1>7. ~Written(r) /\ Written(r)' /\ d \in call'[r].docs
  BY <1>0, <1>2, <1>4 DEF Written
<1>8. Moves(r)
  <2>1. Kept(r, d)
    BY <1>0, <1>1, <1>5, <1>7 DEF Kept
  <2>2. \A e \in Docs : Kept(r, e)
    BY <1>5, <2>1, KeptSame
  <2> QED
    BY <1>0, <1>2, <1>4, <2>2 DEF Moves, Ended
<1>9. Shape(r)'
  BY <1>0, <1>2, <1>4, <1>5 DEF Shape, Uploads, Creates
<1> QED
  BY <1>0, <1>2, <1>4, <1>5, <1>6, <1>8, <1>9 DEF SteadyStep

LEMMA FindPopupSteady ==
  ASSUME FilesTypeOK, FilesInv, NEW r \in Uploaders, FindPopup(r)
  PROVE  /\ SteadyStep(r)
         /\ call'[r].pc \in {"rejected", "write"}
         /\ call'[r].docs = call[r].docs
         /\ call'[r].old = UNION {doc[d].object :
              d \in {e \in call[r].docs : doc[e].state = "live"}}
         /\ call'[r].pc = "write" => \A d \in call[r].docs : doc[d].state = "live"
         /\ UNCHANGED doc
<1> DEFINE shown == {d \in call[r].docs : doc[d].state = "live"}
           pc == IF shown = {} THEN "rejected" ELSE "write"
           old == UNION {doc[d].object : d \in shown}
           c == [call[r] EXCEPT !.pc = pc, !.old = old]
<1>0. /\ call[r] \in CallStates /\ call[r].pc = "handle"
      /\ call[r].name = "updateFeaturePopup" /\ Shape(r)
      /\ UNCHANGED <<doc, stored, spared, faults>>
      /\ call' = [call EXCEPT ![r].pc = pc, ![r].old = old]
  BY CallFields DEF FindPopup, FilesInv
<1>1. pc \in {"rejected", "write"} /\ old \in SUBSET Objects
  BY <1>0, DocFields, CallFields
<1>2. pc = "write" => \A d \in call[r].docs : doc[d].state = "live"
  BY <1>0 DEF Shape, Uploads
<1> HIDE DEF pc, old
<1>3. /\ c \in CallStates /\ c.pc = pc /\ c.docs = call[r].docs
      /\ c.left = call[r].left /\ c.old = old /\ c.name = call[r].name
      /\ call' = [call EXCEPT ![r] = c]
  BY <1>0, <1>1 DEF CallStates, FilesTypeOK, Ended
<1> HIDE DEF c
<1>4. /\ \A q \in Uploaders \ {r} : call'[q] = call[q]
      /\ call'[r] = c /\ call' \in [Uploaders -> CallStates]
  BY <1>3, CallChanged
<1>5. FilesTypeOK'
  BY <1>0, <1>4 DEF FilesTypeOK
<1>6. Moves(r)
  BY <1>0, <1>1, <1>3, <1>4, QuietMoves DEF Ended
<1>7. Shape(r)'
  BY <1>0, <1>1, <1>3, <1>4 DEF Shape, Uploads, Creates
<1> QED
  BY <1>0, <1>1, <1>2, <1>3, <1>4, <1>5, <1>6, <1>7 DEF SteadyStep, old

LEMMA FindDocsSteady ==
  ASSUME FilesTypeOK, FilesInv, NEW r \in Uploaders, FindDocs(r)
  PROVE  /\ SteadyStep(r)
         /\ call'[r].pc \in {"rejected", "write", "bytes"}
         /\ call'[r].name \notin Uploads
         /\ call'[r].docs \subseteq {d \in call[r].docs :
              doc[d].state \in Found(call[r].name)}
         /\ call'[r].left = {d \in call'[r].docs : doc[d].place # "popup"}
         /\ call'[r].old = {}
         /\ UNCHANGED doc
<1> DEFINE S == {d \in call[r].docs :
                   /\ doc[d].state \in Found(call[r].name)
                   /\ call[r].name = "deletesPermanent" => doc[d].place # "popup"}
           pc == IF S = {} THEN "rejected"
                 ELSE IF call[r].name = "delete" THEN "write" ELSE "bytes"
           left == {d \in S : doc[d].place # "popup"}
           c == [call[r] EXCEPT !.pc = pc, !.docs = S, !.left = left]
<1>0. /\ call[r] \in CallStates /\ call[r].pc = "find"
      /\ call[r].name # "restore" /\ Shape(r)
      /\ UNCHANGED <<doc, stored, spared, faults>>
      /\ call' = [call EXCEPT ![r].pc = pc, ![r].docs = S, ![r].left = left]
  BY CallFields DEF FindDocs, FilesInv
<1>1. /\ pc \in {"rejected", "write", "bytes"}
      /\ pc = "write" => call[r].name = "delete"
      /\ pc = "bytes" => call[r].name # "delete"
      /\ S \subseteq call[r].docs /\ S \in SUBSET Docs
      /\ left \subseteq S /\ left \in SUBSET Docs
  BY CallFields
<1>2. /\ call[r].name \in {"delete", "deletePermanent", "deletesPermanent"}
      /\ call[r].old = {}
  BY <1>0, CallFields DEF Shape, CallNames, Uploads
<1>3. \A d \in S : doc[d].state # "none"
  BY <1>0 DEF Shape
<1> HIDE DEF pc, left, S
<1>4. /\ c \in CallStates /\ c.pc = pc /\ c.docs = S
      /\ c.left = left /\ c.old = call[r].old /\ c.name = call[r].name
      /\ call' = [call EXCEPT ![r] = c]
  BY <1>0, <1>1 DEF CallStates, FilesTypeOK, Ended
<1> HIDE DEF c
<1>5. /\ \A q \in Uploaders \ {r} : call'[q] = call[q]
      /\ call'[r] = c /\ call' \in [Uploaders -> CallStates]
  BY <1>4, CallChanged
<1>6. FilesTypeOK'
  BY <1>0, <1>5 DEF FilesTypeOK
<1>7. Moves(r)
  BY <1>0, <1>1, <1>4, <1>5, QuietMoves DEF Ended
<1>8. Shape(r)'
  BY <1>0, <1>1, <1>2, <1>3, <1>4, <1>5 DEF Shape, Uploads, Creates
<1>9. call[r].name \notin Uploads
  BY <1>2 DEF Uploads, Creates
<1> QED
  BY <1>0, <1>1, <1>2, <1>4, <1>5, <1>6, <1>7, <1>8, <1>9 DEF SteadyStep, S, left

LEMMA PopupSteady ==
  ASSUME FilesTypeOK, FilesInv, NEW r \in Uploaders, WritePopup(r)
  PROVE  SteadyStep(r)
<1>0. /\ call[r].pc = "write" /\ call[r].name = "updateFeaturePopup"
      /\ call[r].name \in Uploads
      /\ Shape(r) /\ UNCHANGED <<stored, spared, faults>> /\ r \in stored
      /\ \A d \in call[r].docs : Noticed(r, d)
  BY DEF WritePopup, FilesInv, Shape, Uploads
<1>1. PICK pc \in {"done", "old"} :
        Goes(r, pc) /\ (pc = "done" => call[r].old = {})
  BY DEF WritePopup
<1>2. /\ \A q \in Uploaders \ {r} : call'[q] = call[q]
      /\ call'[r].pc = pc /\ call'[r].name = call[r].name
      /\ call'[r].docs = call[r].docs /\ call'[r].left = call[r].left
      /\ call'[r].old = call[r].old
      /\ call' \in [Uploaders -> CallStates]
  BY <1>1, GoesStep DEF Ended
<1>3. doc' \in [Docs -> DocStates]
  BY PopupWritten
<1>4. FilesTypeOK'
  BY <1>0, <1>2, <1>3 DEF FilesTypeOK
<1>5. ~Written(r) /\ Written(r)'
  BY <1>0, <1>2 DEF Written
<1>6. ASSUME NEW d \in Docs PROVE Kept(r, d)
  <2>1. CASE d \in call[r].docs /\ doc[d].state = "live"
    <3>1. /\ doc'[d].state = "live" /\ doc'[d].place = doc[d].place
          /\ doc'[d].object = {r} /\ doc'[d].restored = doc[d].restored
          /\ doc'[d].cut = doc[d].cut
          /\ doc'[d].raced <=> doc[d].raced \/ Raced(r, d)
      BY <2>1, PopupWritten
    <3>2. doc[d].place = "popup"
      BY <1>0, <2>1 DEF Shape
    <3>3. \A x \in doc[d].object :
            doc'[d].raced \/ (x \in call'[r].old /\ call'[r].pc = "old")
      BY <1>0, <1>1, <1>2, <2>1, <3>1 DEF Noticed
    <3> QED
      BY <1>0, <1>2, <1>5, <2>1, <3>1, <3>2, <3>3 DEF Kept
  <2>2. CASE ~(d \in call[r].docs /\ doc[d].state = "live")
    BY <2>2, PopupWritten, KeptSame
  <2> QED
    BY <2>1, <2>2
<1>7. Moves(r)
  BY <1>0, <1>1, <1>2, <1>6 DEF Moves, Ended
<1>8. \A d \in call[r].docs : doc'[d].place = doc[d].place /\ doc'[d].state # "none"
  BY <1>0, CallFields, PopupWritten DEF Shape
<1>9. Shape(r)'
  BY <1>0, <1>1, <1>2, <1>8 DEF Shape, Uploads, Creates
<1> QED
  BY <1>4, <1>7, <1>9 DEF SteadyStep

(* An object of a bucket that a call deletes is one of a document it names. *)
LEMMA ObjectDeleted ==
  ASSUME FilesTypeOK, NEW S \in SUBSET Objects, DeleteObject(S)
  PROVE  /\ stored' \subseteq stored /\ stored \ stored' \subseteq S
         /\ spared \subseteq spared' /\ spared' \subseteq Objects
         /\ \A x \in S : x \notin stored' \/ x \in spared'
         /\ faults' \in 0..MaxFaults
<1>1. /\ stored \subseteq Objects /\ spared \subseteq Objects
      /\ faults \in 0..MaxFaults /\ MaxFaults \in Nat
  BY FilesAssumption DEF FilesTypeOK
<1>2. CASE stored' = stored \ S /\ UNCHANGED <<spared, faults>>
  BY <1>1, <1>2
<1>3. CASE Fault /\ spared' = spared \cup S /\ UNCHANGED stored
  <2>1. faults' \in 0..MaxFaults
    BY <1>1, <1>3 DEF Fault
  <2> QED
    BY <1>1, <1>3, <2>1
<1> QED
  BY <1>2, <1>3 DEF DeleteObject

LEMMA DeleteOldSteady ==
  ASSUME FilesTypeOK, FilesInv, NEW r \in Uploaders, DeleteOld(r)
  PROVE  /\ SteadyStep(r) /\ call[r].pc = "old" /\ call'[r].pc = "done"
         /\ UNCHANGED doc /\ stored' \subseteq stored
         /\ stored \ stored' \subseteq call[r].old
<1>0. /\ call[r].pc = "old" /\ call[r].name = "updateFeaturePopup"
      /\ Shape(r) /\ UNCHANGED doc /\ Goes(r, "done")
      /\ DeleteObject(call[r].old) /\ call[r].old \in SUBSET Objects
      /\ \A x \in call[r].old : \E d \in call[r].docs : Belongs(x, d)
  BY CallFields DEF DeleteOld, FilesInv, Shape, Owned
<1>1. /\ stored' \subseteq stored /\ stored \ stored' \subseteq call[r].old
      /\ spared \subseteq spared' /\ spared' \subseteq Objects
      /\ \A x \in call[r].old : x \notin stored' \/ x \in spared'
      /\ faults' \in 0..MaxFaults
  BY <1>0, ObjectDeleted
<1>2. /\ \A q \in Uploaders \ {r} : call'[q] = call[q]
      /\ call'[r].pc = "done" /\ call'[r].name = call[r].name
      /\ call'[r].docs = call[r].docs /\ call'[r].left = call[r].left
      /\ call'[r].old = call[r].old
      /\ call' \in [Uploaders -> CallStates]
  BY <1>0, GoesStep DEF Ended
<1>3. FilesTypeOK'
  BY <1>0, <1>1, <1>2 DEF FilesTypeOK
<1>4. \A d \in Docs : Kept(r, d)
  BY <1>0, KeptSame
<1>5. Moves(r)
  BY <1>0, <1>1, <1>2, <1>4 DEF Moves, Ended
<1>6. Shape(r)'
  BY <1>0, <1>2 DEF Shape, Uploads, Creates
<1> QED
  BY <1>0, <1>1, <1>2, <1>3, <1>5, <1>6 DEF SteadyStep

LEMMA DeleteBytesSteady ==
  ASSUME FilesTypeOK, FilesInv, NEW r \in Uploaders, DeleteBytes(r)
  PROVE  /\ SteadyStep(r) /\ call[r].pc = "bytes" /\ call'[r].pc = "bytes"
         /\ call'[r].docs = call[r].docs
         /\ UNCHANGED doc /\ stored' \subseteq stored
         /\ \E d \in call[r].left :
              /\ call'[r].left = call[r].left \ {d}
              /\ stored \ stored' \subseteq doc[d].object
              /\ doc[d].place = "gcs" => doc[d].object \cap stored' \subseteq spared'
<1>0. /\ call[r].pc = "bytes" /\ Shape(r) /\ UNCHANGED doc
      /\ call[r] \in CallStates /\ call[r].left \subseteq call[r].docs
      /\ call[r].left \subseteq Docs
  BY CallFields DEF DeleteBytes, FilesInv, Shape
<1>1. PICK d \in call[r].left :
        /\ call' = [call EXCEPT ![r].left = @ \ {d}]
        /\ IF doc[d].place = "local"
           THEN UNCHANGED <<stored, spared, faults>>
           ELSE DeleteObject(doc[d].object)
  BY DEF DeleteBytes
<1> DEFINE c == [call[r] EXCEPT !.left = call[r].left \ {d}]
<1>2. /\ c \in CallStates /\ c.pc = "bytes" /\ c.docs = call[r].docs
      /\ c.left = call[r].left \ {d} /\ c.old = call[r].old /\ c.name = call[r].name
      /\ call' = [call EXCEPT ![r] = c]
  BY <1>0, <1>1 DEF CallStates, FilesTypeOK
<1> HIDE DEF c
<1>3. /\ \A q \in Uploaders \ {r} : call'[q] = call[q]
      /\ call'[r] = c /\ call' \in [Uploaders -> CallStates]
  BY <1>2, CallChanged
<1>4. /\ stored' \subseteq stored /\ stored \ stored' \subseteq doc[d].object
      /\ spared \subseteq spared' /\ spared' \subseteq Objects
      /\ doc[d].place = "gcs" => doc[d].object \cap stored' \subseteq spared'
      /\ faults' \in 0..MaxFaults
  <2>1. CASE doc[d].place = "local"
    BY <1>1, <2>1 DEF FilesTypeOK
  <2>2. CASE doc[d].place # "local"
    <3>1. doc[d].object \in SUBSET Objects /\ DeleteObject(doc[d].object)
      BY <1>0, <1>1, <2>2, DocFields
    <3> QED
      BY <3>1, ObjectDeleted
  <2> QED
    BY <2>1, <2>2
<1>5. FilesTypeOK'
  BY <1>0, <1>3, <1>4 DEF FilesTypeOK
<1>6. \A e \in Docs : Kept(r, e)
  BY <1>0, KeptSame
<1>7. \A x \in stored \ stored' : \E e \in call[r].docs : Belongs(x, e)
  BY <1>0, <1>4 DEF FilesInv, Owned
<1>8. Moves(r)
  BY <1>0, <1>2, <1>3, <1>4, <1>6, <1>7 DEF Moves, Ended
<1>9. Shape(r)'
  BY <1>0, <1>2, <1>3 DEF Shape, Uploads, Creates
<1> QED
  BY <1>0, <1>1, <1>2, <1>3, <1>4, <1>5, <1>8, <1>9 DEF SteadyStep

(* The writes of a deletion or a restore. *)
LEMMA StateWritten ==
  ASSUME FilesTypeOK, FilesInv, NEW r \in Uploaders,
         call[r].pc \notin Ended \cup {"old", "idle"}, call[r].name \notin Uploads,
         Goes(r, "done"),
         UNCHANGED <<stored, spared, faults>>, doc' \in [Docs -> DocStates],
         \A d \in Docs :
           \/ doc'[d] = doc[d]
           \/ /\ doc[d].state \in Exists
              /\ doc'[d].state # "none" /\ doc'[d].place = doc[d].place
              /\ doc'[d].object = doc[d].object
              /\ doc[d].restored => doc'[d].restored
              /\ doc'[d].cut = doc[d].cut
              /\ doc'[d].raced <=> doc[d].raced \/ Raced(r, d)
              /\ doc[d].state = "deleted" /\ doc'[d].state = "live" =>
                   doc'[d].restored
  PROVE  SteadyStep(r)
<1>1. /\ \A q \in Uploaders \ {r} : call'[q] = call[q]
      /\ call'[r].pc = "done" /\ call'[r].name = call[r].name
      /\ call'[r].docs = call[r].docs /\ call'[r].left = call[r].left
      /\ call'[r].old = call[r].old
      /\ call' \in [Uploaders -> CallStates]
  BY GoesStep DEF Ended
<1>2. FilesTypeOK'
  BY <1>1 DEF FilesTypeOK
<1>3. ASSUME NEW d \in Docs PROVE Kept(r, d)
  <2>1. CASE doc'[d] = doc[d]
    BY <2>1, KeptSame
  <2>2. CASE doc'[d] # doc[d]
    BY <2>2 DEF Kept, Exists
  <2> QED
    BY <2>1, <2>2
<1>4. Moves(r)
  BY <1>1, <1>3 DEF Moves, Ended
<1>5. Shape(r)'
  <2>1. Shape(r) /\ \A d \in call[r].docs : doc'[d].state # "none"
    BY <1>3, CallFields DEF FilesInv, Kept, Shape
  <2> QED
    BY <1>1, <2>1 DEF Shape, Uploads, Creates
<1> QED
  BY <1>2, <1>4, <1>5 DEF SteadyStep

LEMMA SoftDeleteSteady ==
  ASSUME FilesTypeOK, FilesInv, NEW r \in Uploaders, SoftDelete(r)
  PROVE  SteadyStep(r)
<1>1. /\ call[r].pc = "write" /\ call[r].name \notin Uploads /\ Goes(r, "done")
      /\ UNCHANGED <<stored, spared, faults>>
  BY DEF SoftDelete, Uploads, Creates
<1> QED
  BY <1>1, SoftDeleted, StateWritten DEF Ended, Exists

LEMMA RestoreSteady ==
  ASSUME FilesTypeOK, FilesInv, NEW r \in Uploaders, Restore(r)
  PROVE  SteadyStep(r)
<1>1. /\ call[r].pc = "find" /\ call[r].name \notin Uploads /\ Goes(r, "done")
      /\ UNCHANGED <<stored, spared, faults>>
  BY DEF Restore, Uploads, Creates
<1> QED
  BY <1>1, Restored, StateWritten DEF Ended, Exists

LEMMA DeleteDocsSteady ==
  ASSUME FilesTypeOK, FilesInv, NEW r \in Uploaders, DeleteDocs(r)
  PROVE  SteadyStep(r)
<1>1. /\ call[r].pc = "bytes" /\ call[r].name \notin Uploads /\ Goes(r, "done")
      /\ UNCHANGED <<stored, spared, faults>>
      /\ Found(call[r].name) \subseteq Exists
  BY DEF DeleteDocs, FilesInv, Shape, Uploads, Creates, Found, Exists
<1> QED
  BY <1>1, DocsDeleted, StateWritten DEF Ended, Exists

LEMMA CutShortSteady ==
  ASSUME FilesTypeOK, FilesInv, NEW r \in Uploaders, CutShort(r)
  PROVE  /\ SteadyStep(r) /\ call'[r].pc = "cut" /\ UNCHANGED <<stored, spared>>
         /\ \A d \in Docs :
              /\ doc'[d].state = doc[d].state /\ doc'[d].object = doc[d].object
              /\ call[r].pc = "bytes" /\ d \in call[r].docs => doc'[d].cut
<1>0. /\ Busy(r) /\ Goes(r, "cut") /\ UNCHANGED <<stored, spared>> /\ Shape(r)
      /\ call[r].pc \notin Ended \cup {"idle"}
  BY DEF CutShort, FilesInv, Busy
<1>1. faults' \in 0..MaxFaults
  BY FilesAssumption DEF CutShort, Fault, FilesTypeOK
<1>2. /\ \A q \in Uploaders \ {r} : call'[q] = call[q]
      /\ call'[r].pc = "cut" /\ call'[r].name = call[r].name
      /\ call'[r].docs = call[r].docs /\ call'[r].left = call[r].left
      /\ call'[r].old = call[r].old
      /\ call' \in [Uploaders -> CallStates]
  BY <1>0, GoesStep DEF Ended
<1>3. ASSUME NEW d \in Docs
      PROVE  /\ doc'[d] \in DocStates
             /\ doc'[d].state = doc[d].state /\ doc'[d].object = doc[d].object
             /\ doc'[d].place = doc[d].place
             /\ doc'[d].raced = doc[d].raced /\ doc'[d].restored = doc[d].restored
             /\ doc[d].cut => doc'[d].cut
             /\ call[r].pc = "bytes" /\ d \in call[r].docs => doc'[d].cut
  <2>1. doc'[d] = IF call[r].pc = "bytes" /\ d \in call[r].docs
                  THEN [doc[d] EXCEPT !.cut = TRUE] ELSE doc[d]
    BY DEF CutShort
  <2>2. doc[d] \in DocStates
    BY DocFields
  <2> QED
    BY <2>1, <2>2 DEF DocStates
<1>4. doc' \in [Docs -> DocStates]
  <2>1. doc' = [d \in Docs |-> doc'[d]]
    BY DEF CutShort
  <2> QED
    BY <1>3, <2>1
<1>5. FilesTypeOK'
  BY <1>0, <1>1, <1>2, <1>4 DEF FilesTypeOK
<1>6. ASSUME NEW d \in Docs PROVE Kept(r, d)
  <2>1. doc[d].state = "none" => doc'[d] = doc[d]
    BY <1>0 DEF CutShort, Shape
  <2> QED
    BY <1>3, <2>1 DEF Kept
<1>7. Moves(r)
  BY <1>0, <1>2, <1>6 DEF Moves, Ended
<1>8. Shape(r)'
  <2>1. \A d \in call[r].docs :
          doc'[d].state = doc[d].state /\ doc'[d].place = doc[d].place
    BY <1>3, CallFields
  <2> QED
    BY <1>0, <1>2, <2>1 DEF Shape, Uploads, Creates
<1> QED
  BY <1>0, <1>2, <1>3, <1>5, <1>7, <1>8 DEF SteadyStep

-----------------------------------------------------------------------------
(* A step keeps what it is not about. *)

LEMMA StepSteady ==
  ASSUME FilesTypeOK, FilesInv, NEW r \in Uploaders, FilesStep(r)
  PROVE  SteadyStep(r)
BY UploadSteady, AskSteady, RefuseSteady, CreateSteady, FindPopupSteady,
   FindDocsSteady, PopupSteady, DeleteOldSteady, DeleteBytesSteady,
   SoftDeleteSteady, RestoreSteady, DeleteDocsSteady, CutShortSteady
   DEF FilesStep

LEMMA BelongsKept ==
  ASSUME NEW r \in Uploaders, Moves(r), NEW x, NEW d, Belongs(x, d)
  PROVE  Belongs(x, d)'
<1>1. CASE x = d
  BY <1>1 DEF Belongs
<1>2. CASE x \in Uploaders \ {r} /\ Written(x) /\ d \in call[x].docs
  BY <1>2 DEF Belongs, Moves, Written
<1>3. CASE x = r /\ Written(r) /\ d \in call[r].docs
  BY <1>3 DEF Belongs, Moves, Written, Ended, Uploads
<1> QED
  BY <1>1, <1>2, <1>3 DEF Belongs

LEMMA BelongsOnce ==
  ASSUME FilesInv, NEW x, NEW c \in Docs, NEW d \in Docs,
         Belongs(x, c), Belongs(x, d)
  PROVE  c = d
<1>1. x \in Uploaders => x \notin Docs
  BY FilesAssumption
<1>2. x \in Uploaders /\ Written(x) => \A a, b \in call[x].docs : a = b
  BY DEF FilesInv, Shape, Written
<1> QED
  BY <1>1, <1>2 DEF Belongs

(* What a request has not written belongs to no document. *)
LEMMA NotWritten ==
  ASSUME NEW r \in Uploaders, NEW d \in Docs, Belongs(r, d)
  PROVE  Written(r) /\ d \in call[r].docs
BY FilesAssumption DEF Belongs

LEMMA ShapeKept ==
  ASSUME FilesTypeOK, FilesInv, NEW r \in Uploaders, Moves(r),
         NEW q \in Uploaders \ {r}
  PROVE  Shape(q)'
<1>1. Shape(q) /\ call'[q] = call[q] /\ call[q].docs \subseteq Docs
  BY CallFields DEF FilesInv, Moves
<1>2. \A d \in call[q].docs :
        doc'[d].state # "none" /\ doc'[d].place = doc[d].place
  BY <1>1 DEF Shape, Moves, Kept
<1>3. q \in stored /\ q \notin stored' => Written(q)
  <2> SUFFICES ASSUME q \in stored \ stored' PROVE Written(q)
    OBVIOUS
  <2>1. PICK d \in call[r].docs : Belongs(q, d)
    BY DEF Moves
  <2>2. d \in Docs
    BY CallFields
  <2> QED
    BY <2>1, <2>2, NotWritten
<1>4. Written(q) => call[q].pc \notin {"handle", "write"}
  BY DEF Written
<1> QED
  BY <1>1, <1>2, <1>3, <1>4 DEF Shape

LEMMA ObjectsKept ==
  ASSUME FilesTypeOK, FilesInv, NEW r \in Uploaders, Moves(r), NEW d \in Docs,
         NEW x \in doc'[d].object
  PROVE  Belongs(x, d)'
<1>1. CASE doc'[d].object = doc[d].object
  BY <1>1, BelongsKept DEF FilesInv, Owned
<1>2. CASE doc'[d].object # doc[d].object
  BY <1>2 DEF Moves, Kept, Belongs
<1> QED
  BY <1>1, <1>2

LEMMA NoticedKept ==
  ASSUME FilesTypeOK, FilesInv, NEW r \in Uploaders, Moves(r),
         NEW q \in Uploaders \ {r}, NEW d \in call[q].docs
  PROVE  Noticed(q, d)'
<1>1. /\ Noticed(q, d) /\ call'[q] = call[q] /\ d \in Docs /\ Kept(r, d)
      /\ doc[d].state # "none"
  BY CallFields DEF FilesInv, Moves, Shape
<1>2. Busy(q) => Raced(r, d)
  BY RacedBy
<1>3. ASSUME call[q].pc = "write", call[q].name = "updateFeaturePopup"
      PROVE  /\ doc'[d].state # "live" => doc'[d].raced
             /\ \A x \in doc'[d].object : x \in call[q].old \/ doc'[d].raced
  BY <1>1, <1>2, <1>3 DEF Noticed, Kept, Busy, Ended
<1>4. ASSUME call[q].pc = "old", NEW x \in doc'[d].object \cap call[q].old
      PROVE  doc'[d].raced /\ (doc'[d].state = "live" => doc'[d].restored)
  <2>1. x \in doc[d].object
    <3> SUFFICES ASSUME x \notin doc[d].object PROVE FALSE
      OBVIOUS
    <3>1. x = r /\ ~Written(r)
      BY <1>1, <1>4 DEF Kept
    <3>2. PICK e \in call[q].docs : Belongs(x, e)
      BY <1>4 DEF FilesInv, Owned
    <3>3. e \in Docs
      BY CallFields
    <3> QED
      BY <3>1, <3>2, <3>3, NotWritten
  <2>2. doc[d].raced /\ (doc[d].state = "live" => doc[d].restored)
    BY <1>1, <1>4, <2>1 DEF Noticed
  <2>3. doc[d].state \in {"live", "deleted", "gone"}
    BY <1>1, DocFields
  <2> QED
    BY <1>1, <2>2, <2>3 DEF Kept
<1>5. ASSUME call[q].pc = "bytes", call[q].name = "deletesPermanent",
             doc'[d].state = "live"
      PROVE  doc'[d].restored /\ doc'[d].raced
  <2>1. doc[d].state \in {"live", "deleted", "gone"}
    BY <1>1, DocFields
  <2> QED
    BY <1>1, <1>2, <1>5, <2>1 DEF Noticed, Kept, Busy, Ended
<1> QED
  BY <1>1, <1>3, <1>4, <1>5 DEF Noticed

LEMMA ClearedKept ==
  ASSUME FilesTypeOK, FilesInv, NEW r \in Uploaders, Moves(r), NEW d \in Docs,
         doc[d].state # "none", doc[d].place = "gcs", Cleared(d)
  PROVE  Cleared(d)'
<1>1. doc'[d].object = doc[d].object /\ spared \subseteq spared'
  BY DEF Moves, Kept
<1>2. ASSUME NEW x \in doc[d].object, x \in stored' PROVE x \in stored
  <2> SUFFICES ASSUME x \notin stored PROVE FALSE
    OBVIOUS
  <2>1. x = r /\ call[r].pc = "idle"
    BY <1>2 DEF Moves
  <2>2. Belongs(x, d)
    BY <1>2 DEF FilesInv, Owned
  <2> QED
    BY <2>1, <2>2, NotWritten DEF Written
<1> QED
  BY <1>1, <1>2 DEF Cleared

LEMMA ReplacedKept ==
  ASSUME FilesTypeOK, FilesInv, NEW r \in Uploaders, Moves(r),
         NEW q \in Uploaders, NEW d \in call[q].docs, Written(q), q \in stored',
         Replaced(q, d)
  PROVE  Replaced(q, d)'
<1>1. d \in Docs /\ Kept(r, d) /\ doc[d].state # "none"
  BY CallFields DEF FilesInv, Moves, Shape
<1>2. CASE q \in doc[d].object
  <2>1. CASE doc'[d].object = doc[d].object
    BY <1>2, <2>1 DEF Replaced
  <2>2. CASE doc'[d].object # doc[d].object
    <3>1. doc'[d].raced \/ (q \in call'[r].old /\ call'[r].pc = "old")
      BY <1>1, <1>2, <2>2 DEF Kept
    <3> QED
      BY <3>1 DEF Replaced
  <2> QED
    BY <2>1, <2>2
<1>3. CASE q \in spared \/ doc[d].raced
  BY <1>1, <1>3 DEF Moves, Kept, Replaced
<1>4. ASSUME NEW p \in Uploaders, q \in call[p].old, call[p].pc \in {"old", "cut"}
      PROVE  Replaced(q, d)'
  <2>1. CASE p # r
    <3>1. call'[p] = call[p]
      BY <2>1 DEF Moves
    <3> QED
      BY <1>4, <3>1 DEF Replaced
  <2>2. CASE p = r
    <3>1. call[r].pc = "old"
      BY <1>4, <2>2 DEF Moves, Ended
    <3>2. \/ call'[r].pc = "cut" /\ q \in call'[r].old
          \/ q \in spared'
      BY <1>4, <2>2, <3>1 DEF Moves
    <3> QED
      BY <3>2 DEF Replaced
  <2> QED
    BY <2>1, <2>2
<1> QED
  BY <1>2, <1>3, <1>4 DEF Replaced

-----------------------------------------------------------------------------
(* What is left to show of each action: the part of the invariant that is  *)
(* about the request that takes it.                                        *)

Lost(d) == doc'[d].state \in Exists /\ ~(doc'[d].object \subseteq stored')

OwnCall(r) ==
  /\ \A x \in call'[r].old : \E d \in call'[r].docs : Belongs(x, d)'
  /\ \A d \in call'[r].docs : Noticed(r, d)'

OwnMissing(r) ==
  /\ call[r].pc = "bytes" => \A d \in call[r].docs : Lost(d) => Excused(d)'
  /\ \A d \in Docs : \A x \in doc[d].object \cap stored :
       x \notin stored' => Excused(d)'

OwnLeftover(r) ==
  /\ \A d \in call'[r].docs \ call'[r].left :
       call'[r].pc = "bytes" /\ doc'[d].place = "gcs" => Cleared(d)'
  /\ \A d \in Docs :
       doc[d].state # "gone" /\ doc'[d].state = "gone" /\ doc'[d].place = "gcs" =>
         Cleared(d)'
  /\ \A d \in call'[r].docs :
       call'[r].pc \in {"old", "done"} /\ call'[r].name \in Uploads /\ r \in stored'
       => Replaced(r, d)'

Own(r) == OwnCall(r) /\ OwnMissing(r) /\ OwnLeftover(r)

LEMMA MissingKept ==
  ASSUME FilesTypeOK, FilesInv, NEW r \in Uploaders, Moves(r), OwnMissing(r),
         NEW d \in Docs, Lost(d)
  PROVE  Excused(d)'
<1>1. Kept(r, d) /\ doc[d].state \in {"none", "live", "deleted", "gone"}
  BY DocFields DEF Moves
<1>2. doc'[d].object = doc[d].object
  BY <1>1 DEF Kept, Lost
<1>3. doc[d].state \in Exists
  <2> SUFFICES ASSUME doc[d].state = "none", doc'[d].object = {r} PROVE FALSE
    BY <1>1 DEF Kept, Lost, Exists
  <2>1. Belongs(r, d)
    BY <1>2 DEF FilesInv, Owned
  <2>2. d \in call[r].docs
    BY <2>1, NotWritten
  <2> QED
    BY <2>2 DEF FilesInv, Shape
<1>4. PICK x \in doc[d].object : x \notin stored'
  BY <1>2 DEF Lost
<1>5. CASE x \in stored
  BY <1>4, <1>5 DEF OwnMissing
<1>6. CASE x \notin stored
  <2>1. Excused(d)
    BY <1>3, <1>4, <1>6 DEF FilesInv, Missing
  <2>2. CASE doc[d].cut
    BY <1>1, <2>2 DEF Kept, Excused
  <2>3. CASE doc[d].raced /\ (doc[d].state = "live" => doc[d].restored)
    BY <1>1, <1>3, <2>3 DEF Kept, Excused, Exists
  <2>4. ASSUME NEW q \in Uploaders, call[q].pc = "bytes", d \in call[q].docs
        PROVE  Excused(d)'
    <3>1. CASE q = r
      BY <2>4, <3>1 DEF OwnMissing
    <3>2. CASE q # r
      BY <2>4, <3>2 DEF Moves, Excused
    <3> QED
      BY <3>1, <3>2
  <2> QED
    BY <2>1, <2>2, <2>3, <2>4 DEF Excused
<1> QED
  BY <1>5, <1>6

LEMMA InvKept ==
  ASSUME FilesTypeOK, FilesInv, NEW r \in Uploaders, SteadyStep(r), Own(r)
  PROVE  FilesInv'
<1>1. Moves(r) /\ Shape(r)' /\ OwnCall(r) /\ OwnMissing(r) /\ OwnLeftover(r)
  BY DEF SteadyStep, Own
<1>2. \A q \in Uploaders : Shape(q)'
  BY <1>1, ShapeKept
<1>3. ASSUME NEW q \in Uploaders, NEW d \in call'[q].docs PROVE Noticed(q, d)'
  <2>1. CASE q = r
    BY <1>1, <1>3, <2>1 DEF OwnCall
  <2>2. CASE q # r
    <3>1. call'[q] = call[q]
      BY <1>1, <2>2 DEF Moves
    <3> QED
      BY <1>1, <1>3, <2>2, <3>1, NoticedKept
  <2> QED
    BY <2>1, <2>2
<1>4. Owned'
  <2>1. \A d \in Docs : \A x \in doc'[d].object : Belongs(x, d)'
    BY <1>1, ObjectsKept
  <2>2. ASSUME NEW q \in Uploaders, NEW x \in call'[q].old
        PROVE  \E d \in call'[q].docs : Belongs(x, d)'
    <3>1. CASE q = r
      BY <1>1, <2>2, <3>1 DEF OwnCall
    <3>2. CASE q # r
      <4>1. call'[q] = call[q]
        BY <1>1, <3>2 DEF Moves
      <4>2. PICK d \in call[q].docs : Belongs(x, d)
        BY <2>2, <4>1 DEF FilesInv, Owned
      <4>3. Belongs(x, d)'
        BY <1>1, <4>2, BelongsKept
      <4> QED
        BY <4>1, <4>2, <4>3
    <3> QED
      BY <3>1, <3>2
  <2> QED
    BY <2>1, <2>2 DEF Owned
<1>5. Missing'
  <2>1. \A d \in Docs : Lost(d) => Excused(d)'
    BY <1>1, MissingKept
  <2> QED
    BY <2>1 DEF Missing, Lost
<1>6. ASSUME NEW q \in Uploaders, NEW d \in call'[q].docs \ call'[q].left,
             call'[q].pc = "bytes", doc'[d].place = "gcs"
      PROVE  Cleared(d)'
  <2>1. CASE q = r
    BY <1>1, <1>6, <2>1 DEF OwnLeftover
  <2>2. CASE q # r
    <3>1. call'[q] = call[q] /\ d \in Docs
      BY <1>1, <1>6, <2>2, CallFields DEF Moves
    <3>2. doc[d].state # "none" /\ doc[d].place = "gcs"
      BY <1>1, <1>6, <3>1 DEF FilesInv, Shape, Moves, Kept
    <3>3. Cleared(d)
      BY <1>6, <3>1, <3>2 DEF FilesInv, Leftover
    <3> QED
      BY <1>1, <3>1, <3>2, <3>3, ClearedKept
  <2> QED
    BY <2>1, <2>2
<1>7. ASSUME NEW d \in Docs, doc'[d].state = "gone", doc'[d].place = "gcs"
      PROVE  Cleared(d)'
  <2>1. CASE doc[d].state = "gone"
    <3>1. doc[d].place = "gcs"
      BY <1>1, <1>7, <2>1 DEF Moves, Kept
    <3>2. Cleared(d)
      BY <2>1, <3>1 DEF FilesInv, Leftover
    <3> QED
      BY <1>1, <2>1, <3>1, <3>2, ClearedKept
  <2>2. CASE doc[d].state # "gone"
    BY <1>1, <1>7, <2>2 DEF OwnLeftover
  <2> QED
    BY <2>1, <2>2
<1>8. ASSUME NEW q \in Uploaders, NEW d \in call'[q].docs,
             call'[q].pc \in {"old", "done"}, call'[q].name \in Uploads,
             q \in stored'
      PROVE  Replaced(q, d)'
  <2>1. CASE q = r
    BY <1>1, <1>8, <2>1 DEF OwnLeftover
  <2>2. CASE q # r
    <3>1. call'[q] = call[q] /\ Written(q)
      BY <1>1, <1>8, <2>2 DEF Moves, Written
    <3>2. q \in stored
      BY <1>1, <1>8, <2>2 DEF Moves
    <3>3. Replaced(q, d)
      BY <1>8, <3>1, <3>2 DEF FilesInv, Leftover
    <3> QED
      BY <1>1, <1>8, <3>1, <3>3, ReplacedKept
  <2> QED
    BY <2>1, <2>2
<1>9. Leftover'
  BY <1>6, <1>7, <1>8 DEF Leftover
<1> QED
  BY <1>2, <1>3, <1>4, <1>5, <1>9 DEF FilesInv

(* A step that writes nothing and goes where nothing is promised.          *)
LEMMA QuietOwn ==
  ASSUME FilesTypeOK, FilesInv, NEW r \in Uploaders, Moves(r),
         UNCHANGED doc, stored \subseteq stored', call[r].pc # "bytes",
         call'[r].pc \in {"handle", "rejected", "find"},
         \/ call'[r].old = {}
         \/ call'[r].old = call[r].old /\ call'[r].docs = call[r].docs
  PROVE  Own(r)
<1>1. OwnCall(r)
  <2>1. \A x \in call'[r].old : \E d \in call'[r].docs : Belongs(x, d)'
    BY BelongsKept DEF FilesInv, Owned
  <2>2. \A d \in call'[r].docs : Noticed(r, d)'
    BY DEF Noticed
  <2> QED
    BY <2>1, <2>2 DEF OwnCall
<1>2. OwnMissing(r)
  BY DEF OwnMissing
<1>3. OwnLeftover(r)
  BY DEF OwnLeftover
<1> QED
  BY <1>1, <1>2, <1>3 DEF Own

LEMMA UploadOwn ==
  ASSUME FilesTypeOK, FilesInv, NEW r \in Uploaders, NEW name \in CallNames,
         Upload(r, name)
  PROVE  Own(r)
BY UploadSteady, QuietOwn DEF SteadyStep

LEMMA AskOwn ==
  ASSUME FilesTypeOK, FilesInv, NEW r \in Uploaders, NEW name \in CallNames,
         NEW S \in SUBSET Docs, Ask(r, name, S)
  PROVE  Own(r)
BY AskSteady, QuietOwn DEF SteadyStep

LEMMA RefuseOwn ==
  ASSUME FilesTypeOK, FilesInv, NEW r \in Uploaders, Refuse(r)
  PROVE  Own(r)
BY RefuseSteady, QuietOwn DEF SteadyStep

LEMMA CreateOwn ==
  ASSUME FilesTypeOK, FilesInv, NEW r \in Uploaders, Create(r)
  PROVE  Own(r)
<1>1. /\ call[r].pc = "handle" /\ call'[r].pc = "done"
      /\ call'[r].old = {} /\ UNCHANGED stored
      /\ \A d \in call'[r].docs : doc'[d].object = {r}
      /\ \A d \in Docs : doc'[d] = doc[d] \/ doc'[d].state = "live"
  BY CreateSteady
<1>2. OwnCall(r)
  BY <1>1 DEF OwnCall, Noticed
<1>3. OwnMissing(r)
  BY <1>1 DEF OwnMissing
<1>4. OwnLeftover(r)
  BY <1>1 DEF OwnLeftover, Replaced
<1> QED
  BY <1>2, <1>3, <1>4 DEF Own

LEMMA FindPopupOwn ==
  ASSUME FilesTypeOK, FilesInv, NEW r \in Uploaders, FindPopup(r)
  PROVE  Own(r)
<1>1. /\ Moves(r) /\ call'[r].pc \in {"rejected", "write"}
      /\ call'[r].docs = call[r].docs
      /\ call'[r].old = UNION {doc[d].object :
           d \in {e \in call[r].docs : doc[e].state = "live"}}
      /\ call'[r].pc = "write" => \A d \in call[r].docs : doc[d].state = "live"
      /\ UNCHANGED doc
  BY FindPopupSteady DEF SteadyStep
<1>2. UNCHANGED stored /\ call[r].pc # "bytes"
  BY DEF FindPopup
<1>3. OwnCall(r)
  <2>1. ASSUME NEW x \in call'[r].old
        PROVE  \E d \in call'[r].docs : Belongs(x, d)'
    <3>1. PICK d \in call[r].docs : x \in doc[d].object
      BY <1>1, <2>1
    <3>2. Belongs(x, d)
      BY <3>1, CallFields DEF FilesInv, Owned
    <3> QED
      BY <1>1, <3>2, BelongsKept
  <2>2. ASSUME NEW d \in call'[r].docs PROVE Noticed(r, d)'
    <3>1. call'[r].pc = "write" =>
            doc'[d].state = "live" /\ doc'[d].object \subseteq call'[r].old
      BY <1>1, <2>2
    <3> QED
      BY <1>1, <3>1 DEF Noticed
  <2> QED
    BY <2>1, <2>2 DEF OwnCall
<1>4. OwnMissing(r)
  BY <1>2 DEF OwnMissing
<1>5. OwnLeftover(r)
  BY <1>1 DEF OwnLeftover
<1> QED
  BY <1>3, <1>4, <1>5 DEF Own

LEMMA FindDocsOwn ==
  ASSUME FilesTypeOK, FilesInv, NEW r \in Uploaders, FindDocs(r)
  PROVE  Own(r)
<1>1. /\ Moves(r) /\ call'[r].pc \in {"rejected", "write", "bytes"}
      /\ call'[r].name \notin Uploads
      /\ call'[r].docs \subseteq {d \in call[r].docs :
           doc[d].state \in Found(call[r].name)}
      /\ call'[r].left = {d \in call'[r].docs : doc[d].place # "popup"}
      /\ call'[r].old = {} /\ UNCHANGED doc
  BY FindDocsSteady DEF SteadyStep
<1>2. UNCHANGED stored /\ call[r].pc = "find"
  BY DEF FindDocs
<1>3. call'[r].name = call[r].name
  BY <1>1, <1>2 DEF Moves
<1>4. ASSUME NEW d \in call'[r].docs PROVE Noticed(r, d)'
  <2>1. call'[r].name = "deletesPermanent" => doc'[d].state = "deleted"
    BY <1>1, <1>3 DEF Found
  <2> QED
    BY <1>1, <2>1 DEF Noticed, Uploads, Creates
<1>5. OwnCall(r)
  BY <1>1, <1>4 DEF OwnCall
<1>6. OwnMissing(r)
  BY <1>2 DEF OwnMissing
<1>7. OwnLeftover(r)
  BY <1>1 DEF OwnLeftover
<1> QED
  BY <1>5, <1>6, <1>7 DEF Own

LEMMA PopupOwn ==
  ASSUME FilesTypeOK, FilesInv, NEW r \in Uploaders, WritePopup(r)
  PROVE  Own(r)
<1>0. /\ call[r].pc = "write" /\ call[r].name = "updateFeaturePopup"
      /\ UNCHANGED stored /\ Moves(r)
      /\ \A d \in call[r].docs : Noticed(r, d)
      /\ ~Written(r)
  BY PopupSteady DEF WritePopup, FilesInv, SteadyStep, Written
<1>1. PICK pc \in {"done", "old"} :
        Goes(r, pc) /\ (pc = "done" => call[r].old = {})
  BY DEF WritePopup
<1>2. /\ call'[r].pc = pc /\ call'[r].docs = call[r].docs
      /\ call'[r].old = call[r].old
  BY <1>1, GoesStep DEF Ended
<1>3. ASSUME NEW d \in call[r].docs
      PROVE  \/ doc[d].state = "live" /\ doc'[d].object = {r}
             \/ doc[d].state # "live" /\ doc'[d] = doc[d] /\ doc'[d].raced
  <2>1. d \in Docs
    BY CallFields
  <2> QED
    BY <1>0, <2>1, PopupWritten DEF Noticed
<1>4. r \notin call[r].old
  <2> SUFFICES ASSUME r \in call[r].old PROVE FALSE
    OBVIOUS
  <2>1. PICK d \in call[r].docs : Belongs(r, d)
    BY DEF FilesInv, Owned
  <2>2. d \in Docs
    BY CallFields
  <2> QED
    BY <1>0, <2>1, <2>2, NotWritten
<1>5. OwnCall(r)
  <2>1. ASSUME NEW x \in call'[r].old
        PROVE  \E d \in call'[r].docs : Belongs(x, d)'
    <3>1. PICK d \in call[r].docs : Belongs(x, d)
      BY <1>2, <2>1 DEF FilesInv, Owned
    <3> QED
      BY <1>0, <1>2, <3>1, BelongsKept
  <2>2. ASSUME NEW d \in call'[r].docs PROVE Noticed(r, d)'
    <3>1. d \in call[r].docs
      BY <1>2, <2>2
    <3>2. \A x \in doc'[d].object \cap call'[r].old :
            doc'[d].raced /\ doc'[d].state # "live"
      BY <1>2, <1>3, <1>4, <3>1
    <3> QED
      BY <1>2, <3>2 DEF Noticed
  <2> QED
    BY <2>1, <2>2 DEF OwnCall
<1>6. OwnMissing(r)
  BY <1>0 DEF OwnMissing
<1>7. OwnLeftover(r)
  <2>1. \A d \in Docs : doc[d].state # "gone" => doc'[d].state # "gone"
    BY <1>0, PopupWritten DEF Moves, Kept
  <2>2. \A d \in call'[r].docs : Replaced(r, d)'
    BY <1>2, <1>3 DEF Replaced
  <2> QED
    BY <1>2, <2>1, <2>2 DEF OwnLeftover
<1> QED
  BY <1>5, <1>6, <1>7 DEF Own

LEMMA DeleteOldOwn ==
  ASSUME FilesTypeOK, FilesInv, NEW r \in Uploaders, DeleteOld(r)
  PROVE  Own(r)
<1>0. /\ Moves(r) /\ call[r].pc = "old" /\ call'[r].pc = "done"
      /\ UNCHANGED doc /\ stored' \subseteq stored
      /\ stored \ stored' \subseteq call[r].old
      /\ call'[r].docs = call[r].docs /\ call'[r].old = call[r].old
      /\ Written(r) /\ call[r].name \in Uploads
  BY DeleteOldSteady DEF SteadyStep, Moves, FilesInv, Shape, Written, Uploads
<1>1. OwnCall(r)
  <2>1. ASSUME NEW x \in call'[r].old
        PROVE  \E d \in call'[r].docs : Belongs(x, d)'
    <3>1. PICK d \in call[r].docs : Belongs(x, d)
      BY <1>0, <2>1 DEF FilesInv, Owned
    <3> QED
      BY <1>0, <3>1, BelongsKept
  <2> QED
    BY <1>0, <2>1 DEF OwnCall, Noticed
<1>2. OwnMissing(r)
  <2>1. ASSUME NEW d \in Docs, NEW x \in doc[d].object \cap stored, x \notin stored'
        PROVE  Excused(d)'
    <3>1. PICK e \in call[r].docs : Belongs(x, e)
      BY <1>0, <2>1 DEF FilesInv, Owned
    <3>2. Belongs(x, d) /\ e \in Docs
      BY <2>1, CallFields DEF FilesInv, Owned
    <3>3. d \in call[r].docs
      BY <3>1, <3>2, BelongsOnce
    <3>4. doc[d].raced /\ (doc[d].state = "live" => doc[d].restored)
      BY <1>0, <2>1, <3>3 DEF FilesInv, Noticed
    <3> QED
      BY <1>0, <3>4 DEF Excused
  <2> QED
    BY <1>0, <2>1 DEF OwnMissing
<1>3. OwnLeftover(r)
  <2>1. ASSUME NEW d \in call[r].docs, r \in stored' PROVE Replaced(r, d)'
    <3>1. Replaced(r, d)
      BY <1>0, <2>1 DEF FilesInv, Leftover
    <3> QED
      BY <1>0, <2>1, <3>1, ReplacedKept
  <2> QED
    BY <1>0, <2>1 DEF OwnLeftover
<1> QED
  BY <1>1, <1>2, <1>3 DEF Own

LEMMA DeleteBytesOwn ==
  ASSUME FilesTypeOK, FilesInv, NEW r \in Uploaders, DeleteBytes(r)
  PROVE  Own(r)
<1>0. /\ Moves(r) /\ Shape(r)' /\ call[r].pc = "bytes" /\ call'[r].pc = "bytes"
      /\ call'[r].docs = call[r].docs /\ call'[r].name = call[r].name
      /\ UNCHANGED doc /\ stored' \subseteq stored /\ Shape(r)
  BY DeleteBytesSteady DEF SteadyStep, Moves, FilesInv
<1>1. PICK d \in call[r].left :
        /\ call'[r].left = call[r].left \ {d}
        /\ stored \ stored' \subseteq doc[d].object
        /\ doc[d].place = "gcs" => doc[d].object \cap stored' \subseteq spared'
  BY DeleteBytesSteady
<1>2. d \in Docs /\ d \in call[r].docs
  BY <1>0, <1>1, CallFields DEF Shape
<1>3. OwnCall(r)
  <2>1. call'[r].old = {}
    BY <1>0 DEF Shape
  <2>2. \A e \in call'[r].docs : Noticed(r, e)'
    BY <1>0 DEF FilesInv, Noticed
  <2> QED
    BY <2>1, <2>2 DEF OwnCall
<1>4. OwnMissing(r)
  <2>1. \A e \in call[r].docs : Excused(e)'
    BY <1>0 DEF Excused
  <2>2. ASSUME NEW e \in Docs, NEW x \in doc[e].object \cap stored, x \notin stored'
        PROVE  e = d
    <3>1. Belongs(x, e) /\ Belongs(x, d)
      BY <1>1, <1>2, <2>2 DEF FilesInv, Owned
    <3> QED
      BY <1>2, <3>1, BelongsOnce
  <2> QED
    BY <1>2, <2>1, <2>2 DEF OwnMissing
<1>5. OwnLeftover(r)
  <2>1. ASSUME NEW e \in call[r].docs, e \notin call[r].left \/ e = d,
               doc[e].place = "gcs"
        PROVE  Cleared(e)'
    <3>1. CASE e = d
      BY <1>0, <1>1, <2>1, <3>1 DEF Cleared
    <3>2. CASE e # d
      <4>1. Cleared(e) /\ e \in Docs /\ doc[e].state # "none"
        BY <1>0, <2>1, <3>2, CallFields DEF FilesInv, Leftover, Shape
      <4> QED
        BY <1>0, <2>1, <4>1, ClearedKept
    <3> QED
      BY <3>1, <3>2
  <2> QED
    BY <1>0, <1>1, <2>1 DEF OwnLeftover
<1> QED
  BY <1>3, <1>4, <1>5 DEF Own

(* A deletion or a restore that ends. *)
LEMMA EndOwn ==
  ASSUME FilesTypeOK, FilesInv, NEW r \in Uploaders, SteadyStep(r),
         UNCHANGED stored, call[r].name \notin Uploads, call[r].pc # "bytes",
         call[r].pc # "idle", call'[r].pc = "done",
         \A d \in Docs : doc[d].state # "gone" => doc'[d].state # "gone"
  PROVE  Own(r)
<1>1. call'[r].name = call[r].name /\ call'[r].old = {}
  BY DEF SteadyStep, Moves, Shape, Uploads
<1>2. OwnCall(r)
  BY <1>1 DEF OwnCall, Noticed
<1>3. OwnMissing(r)
  BY DEF OwnMissing
<1>4. OwnLeftover(r)
  BY <1>1 DEF OwnLeftover
<1> QED
  BY <1>2, <1>3, <1>4 DEF Own

LEMMA SoftDeleteOwn ==
  ASSUME FilesTypeOK, FilesInv, NEW r \in Uploaders, SoftDelete(r)
  PROVE  Own(r)
<1>1. /\ call[r].pc = "write" /\ call[r].name \notin Uploads /\ Goes(r, "done")
      /\ UNCHANGED stored
  BY DEF SoftDelete, Uploads, Creates
<1>2. call'[r].pc = "done"
  BY <1>1, GoesStep DEF Ended
<1>3. \A d \in Docs : doc[d].state # "gone" => doc'[d].state # "gone"
  BY SoftDeleted
<1> QED
  BY <1>1, <1>2, <1>3, SoftDeleteSteady, EndOwn

LEMMA RestoreOwn ==
  ASSUME FilesTypeOK, FilesInv, NEW r \in Uploaders, Restore(r)
  PROVE  Own(r)
<1>1. /\ call[r].pc = "find" /\ call[r].name \notin Uploads /\ Goes(r, "done")
      /\ UNCHANGED stored
  BY DEF Restore, Uploads, Creates
<1>2. call'[r].pc = "done"
  BY <1>1, GoesStep DEF Ended
<1>3. \A d \in Docs : doc[d].state # "gone" => doc'[d].state # "gone"
  BY Restored
<1> QED
  BY <1>1, <1>2, <1>3, RestoreSteady, EndOwn

LEMMA DeleteDocsOwn ==
  ASSUME FilesTypeOK, FilesInv, NEW r \in Uploaders, DeleteDocs(r)
  PROVE  Own(r)
<1>0. /\ call[r].pc = "bytes" /\ call[r].left = {} /\ Goes(r, "done")
      /\ UNCHANGED stored /\ Shape(r)
      /\ call[r].name \in {"deletePermanent", "deletesPermanent"}
      /\ SteadyStep(r) /\ Moves(r) /\ Shape(r)'
  BY DeleteDocsSteady DEF DeleteDocs, FilesInv, Shape, SteadyStep
<1>1. /\ call'[r].pc = "done" /\ call'[r].name = call[r].name
      /\ call'[r].docs = call[r].docs
  BY <1>0, GoesStep DEF Ended
<1>2. call'[r].old = {} /\ call'[r].name \notin Uploads
  BY <1>0, <1>1 DEF Shape, Uploads, Creates
<1>3. OwnCall(r)
  BY <1>1, <1>2 DEF OwnCall, Noticed
<1>4. OwnMissing(r)
  <2>1. ASSUME NEW d \in call[r].docs, Lost(d) PROVE Excused(d)'
    <3>1. d \in Docs
      BY CallFields
    <3>2. doc[d].state \notin Found(call[r].name) /\ doc'[d] = doc[d]
      BY <2>1, <3>1, DocsDeleted DEF Lost, Exists
    <3>3. call[r].name = "deletesPermanent" /\ doc[d].state = "live"
      BY <1>0, <2>1, <3>2 DEF Lost, Exists, Found
    <3>4. doc[d].restored /\ doc[d].raced
      BY <1>0, <2>1, <3>3 DEF FilesInv, Noticed
    <3> QED
      BY <3>2, <3>4 DEF Excused
  <2> QED
    BY <1>0, <2>1 DEF OwnMissing
<1>5. OwnLeftover(r)
  <2>1. ASSUME NEW d \in Docs, doc[d].state # "gone", doc'[d].state = "gone",
               doc'[d].place = "gcs"
        PROVE  Cleared(d)'
    <3>1. d \in call[r].docs /\ doc[d].place = "gcs" /\ doc[d].state # "none"
      BY <1>0, <2>1, DocsDeleted DEF Shape
    <3>2. Cleared(d)
      BY <1>0, <3>1 DEF FilesInv, Leftover
    <3> QED
      BY <1>0, <2>1, <3>1, <3>2, ClearedKept
  <2> QED
    BY <1>1, <1>2, <2>1 DEF OwnLeftover
<1> QED
  BY <1>3, <1>4, <1>5 DEF Own

LEMMA CutShortOwn ==
  ASSUME FilesTypeOK, FilesInv, NEW r \in Uploaders, CutShort(r)
  PROVE  Own(r)
<1>0. /\ Moves(r) /\ call'[r].pc = "cut" /\ UNCHANGED stored
      /\ \A d \in Docs :
           /\ doc'[d].state = doc[d].state
           /\ call[r].pc = "bytes" /\ d \in call[r].docs => doc'[d].cut
  BY CutShortSteady DEF SteadyStep
<1>1. call'[r].docs = call[r].docs /\ call'[r].old = call[r].old
  BY GoesStep DEF CutShort, Ended
<1>2. OwnCall(r)
  <2>1. ASSUME NEW x \in call'[r].old
        PROVE  \E d \in call'[r].docs : Belongs(x, d)'
    <3>1. PICK d \in call[r].docs : Belongs(x, d)
      BY <1>1, <2>1 DEF FilesInv, Owned
    <3> QED
      BY <1>0, <1>1, <3>1, BelongsKept
  <2> QED
    BY <1>0, <2>1 DEF OwnCall, Noticed
<1>3. OwnMissing(r)
  BY <1>0, CallFields DEF OwnMissing, Excused
<1>4. OwnLeftover(r)
  BY <1>0 DEF OwnLeftover
<1> QED
  BY <1>2, <1>3, <1>4 DEF Own

LEMMA StepOwn ==
  ASSUME FilesTypeOK, FilesInv, NEW r \in Uploaders, FilesStep(r)
  PROVE  Own(r)
BY UploadOwn, AskOwn, RefuseOwn, CreateOwn, FindPopupOwn, FindDocsOwn, PopupOwn,
   DeleteOldOwn, DeleteBytesOwn, SoftDeleteOwn, RestoreOwn, DeleteDocsOwn,
   CutShortOwn DEF FilesStep

-----------------------------------------------------------------------------
(* The theorems. *)

LEMMA FilesStart ==
  ASSUME FilesInit
  PROVE  FilesTypeOK /\ FilesInv
<1>1. PICK place \in [Docs -> Places], state \in [Docs -> {"none", "live", "deleted"}] :
        doc = [d \in Docs |->
          [state |-> state[d], place |-> place[d],
           object |-> IF state[d] = "none" THEN {} ELSE {d},
           restored |-> FALSE, raced |-> FALSE, cut |-> FALSE]]
  BY DEF FilesInit
<1>2. ASSUME NEW d \in Docs
      PROVE  /\ doc[d] \in DocStates
             /\ doc[d].object \subseteq {d} /\ doc[d].state # "gone"
  BY <1>1, <1>2 DEF DocStates, Objects
<1>3. /\ stored = UNION {doc[d].object : d \in Docs}
      /\ spared = {} /\ faults = 0
      /\ call = [r \in Uploaders |->
           [pc |-> "idle", name |-> "delete", docs |-> {}, left |-> {}, old |-> {}]]
  BY DEF FilesInit
<1>4. FilesTypeOK
  <2>1. call \in [Uploaders -> CallStates]
    BY <1>3 DEF CallStates, CallNames
  <2>2. stored \subseteq Objects
    BY <1>2, <1>3 DEF Objects
  <2>3. doc \in [Docs -> DocStates]
    BY <1>1, <1>2
  <2> QED
    BY <1>3, <2>1, <2>2, <2>3, FilesAssumption DEF FilesTypeOK
<1>5. ASSUME NEW r \in Uploaders
      PROVE  /\ call[r].pc = "idle" /\ call[r].name = "delete"
             /\ call[r].docs = {} /\ call[r].left = {} /\ call[r].old = {}
  BY <1>3
<1>6. \A r \in Uploaders : Shape(r)
  BY <1>5 DEF Shape, Uploads, Creates
<1>7. Owned
  BY <1>2, <1>5 DEF Owned, Belongs
<1>8. Missing
  BY <1>3 DEF Missing
<1>9. Leftover
  BY <1>2, <1>5 DEF Leftover
<1> QED
  BY <1>4, <1>5, <1>6, <1>7, <1>8, <1>9 DEF FilesInv

(* The types, and the invariant from which both properties follow: what a  *)
(* request finds, and what is left to do about each object, is accounted   *)
(* for at every step of every request.                                     *)
THEOREM FilesInvariant == FilesSpec => [](FilesTypeOK /\ FilesInv)
<1>1. FilesInit => FilesTypeOK /\ FilesInv
  BY FilesStart
<1>2. FilesTypeOK /\ FilesInv /\ [FilesNext]_fileVars => (FilesTypeOK /\ FilesInv)'
  <2> SUFFICES ASSUME FilesTypeOK, FilesInv, [FilesNext]_fileVars
               PROVE  (FilesTypeOK /\ FilesInv)'
    OBVIOUS
  <2>1. ASSUME NEW r \in Uploaders, FilesStep(r)
        PROVE  (FilesTypeOK /\ FilesInv)'
    BY <2>1, StepSteady, StepOwn, InvKept DEF SteadyStep
  <2>2. CASE UNCHANGED fileVars
    <3>1. FilesTypeOK'
      BY <2>2 DEF fileVars, FilesTypeOK
    <3>2. FilesInv'
      BY <2>2 DEF fileVars, FilesInv, Shape, Noticed, Owned, Belongs, Written,
         Missing, Excused, Leftover, Cleared, Replaced
    <3> QED
      BY <3>1, <3>2
  <2> QED
    BY <2>1, <2>2 DEF FilesNext
<1> QED
  BY <1>1, <1>2, PTL DEF FilesSpec

(* The documents, the bytes and the requests stay within their types,      *)
(* whatever the requests and the storage do.                               *)
THEOREM FilesTypeCorrect == FilesSpec => []FilesTypeOK
BY FilesInvariant, PTL

(* A live file or popup whose bytes are gone is being deleted, or was when *)
(* the request was cut short, or was restored while another request was at *)
(* it: no other course of uploads, updates, deletions, restores and        *)
(* failures parts a document from its object.                              *)
THEOREM MissingExplained == FilesSpec => []MissingOnlyAfterRace
<1>1. FilesInv => MissingOnlyAfterRace
  BY DEF FilesInv, Missing, Excused, Exists, MissingOnlyAfterRace
<1> QED
  BY <1>1, FilesInvariant, PTL

(* Bytes in a bucket outlive a document deleted for good only when their   *)
(* own deletion failed, and an uploaded object that its popup does not     *)
(* show is deleted, about to be, or has one of the reasons named.          *)
THEOREM LeftoverExplained == FilesSpec => []LeftoverHasReason
<1>1. FilesInv => LeftoverHasReason
  BY DEF FilesInv, Leftover, Cleared, Replaced, LeftoverHasReason
<1> QED
  BY <1>1, FilesInvariant, PTL
=============================================================================
