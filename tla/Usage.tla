-------------------------------- MODULE Usage --------------------------------
(***************************************************************************)
(* The start of a usage, creditsProcessStart, and its end as the wrapper   *)
(* withCreditsProcess calls them for one user: the wallet, the endpoint    *)
(* and the subscription are read side by side, the configuration of the    *)
(* package after them, two of the four through a cache, and nothing is     *)
(* reserved.  In between the user buys a package or is paid back, a period *)
(* ends, an administrator edits or takes credits away, and other usages    *)
(* start and are charged.                                                  *)
(*                                                                         *)
(* How a charge finds its way to the wallet is the subject of CreditsBatch.*)
(***************************************************************************)
EXTENDS Integers

CONSTANTS
  Usages,          \* usages; each is started once
  Packages,        \* what can be bought
  Features,        \* Features[p]: of the snapshot: "empty", "with", "without"
  Minimums,        \* min_credits an endpoint or a configuration may have
  Costs,           \* credits a usage may come to
  PackageCredits,  \* credits of a package
  MaxEvents        \* bound: purchases, refunds, periods that end, and edits

ASSUME UsageAssumption ==
  /\ Features \in [Packages -> {"empty", "with", "without"}]
  /\ Minimums \subseteq Nat /\ Minimums # {} /\ Costs \subseteq Nat \ {0}
  /\ PackageCredits \in Nat \ {0} /\ MaxEvents \in Nat

VARIABLES
  wallet,        \* UserWallet.credits; {} before there is a document
  subscription,  \* package of the active UserSubscription, if any
  over,          \* its current_period_end has passed
  endpoint,      \* min_credits of the FeatureEndpoint; {} while inactive
  endpointCopy,  \* feature-endpoint:public:<id>
  config,        \* min_credits of the PackageFeatureConfigs of each package:
                 \* that of the endpoint, and that of the feature
  configCopy,    \* package-feature-config:<package>:..., per package
  clearing,      \* an edit has yet to clear the configurations' keys
  taking,        \* credits decreaseCredits has compared and not yet taken
  strays,        \* wallets created for nobody
  usage,
  events

usageVars == <<wallet, subscription, over, endpoint, endpointCopy, config,
               configCopy, clearing, taking, strays, usage, events>>

AtMostOne(S) == {{}} \cup {{x} : x \in S}

Reads == {"wallet", "endpoint", "store", "subscription"}
Starting == {"reading", "creating", "inserting", "config", "feature", "storing"}
(* A usage: whether it names its user, which one that comes over HTTP does *)
(* not (the controller overwrites user_id); what it has read; and, for the *)
(* properties, the credits others took since it read the wallet, what a    *)
(* start in one step would have answered since it began, how many          *)
(* documents changed meanwhile, and whether it used a copy that is not the *)
(* document, or lost the race for the wallet.                              *)
UsageStates ==
  [named : BOOLEAN, pc : Starting \cup {"idle", "running", "charged", "free", "denied"},
   todo : SUBSET Reads, wallet : SUBSET Int, package : SUBSET Packages,
   min : Nat, cost : Nat, lowered : Nat, answers : SUBSET BOOLEAN,
   changes : 0..2, misled : BOOLEAN]

UsageTypeOK ==
  /\ wallet \subseteq Int /\ \A b, c \in wallet : b = c
  /\ subscription \in AtMostOne(Packages) /\ over \in BOOLEAN
  /\ {endpoint, endpointCopy} \subseteq AtMostOne(Minimums)
  /\ configCopy \in [Packages -> AtMostOne(Minimums)]
  /\ config \in [Packages -> [endpoint : AtMostOne(Minimums), feature : AtMostOne(Minimums)]]
  /\ clearing \in BOOLEAN /\ strays \in Nat
  /\ taking \in AtMostOne(Costs)
  /\ usage \in [Usages -> UsageStates]
  /\ events \in 0..MaxEvents

NoConfig == [endpoint |-> {}, feature |-> {}]

(* A package is assigned to a wallet: without one there is no subscription. *)
UsageInit ==
  /\ wallet \in {{}, {PackageCredits}}
  /\ subscription \in AtMostOne(Packages) /\ over = FALSE
  /\ wallet = {} => subscription = {}
  /\ endpoint \in {{m} : m \in Minimums} /\ endpointCopy = {}
  /\ \E own, general \in AtMostOne(Minimums) : config =
       [p \in Packages |-> IF Features[p] = "with"
                           THEN [endpoint |-> own, feature |-> general] ELSE NoConfig]
  /\ configCopy = [p \in Packages |-> {}]
  /\ clearing = FALSE /\ strays = 0 /\ taking = {}
  /\ usage = [u \in Usages |->
       [named |-> TRUE, pc |-> "idle", todo |-> {}, wallet |-> {}, package |-> {}, min |-> 0,
        cost |-> 0, lowered |-> 0, answers |-> {}, changes |-> 0,
        misled |-> FALSE]]
  /\ events = 0

The(S, default) == IF S = {} THEN default ELSE CHOOSE x \in S : TRUE

-----------------------------------------------------------------------------
(* What the start decides, and what it would in one step *)

CoversAlways(credits, min) == TRUE      \* mutant: the balance is not compared
Covers(credits, min) == credits >= min

(* "If a user has a subscription": features is that of its snapshot.  The  *)
(* features of the initial package, read when there is none, are not used. *)
Restricted(package) == \E p \in package : Features[p] # "empty"
Included(package) == \E p \in package : Features[p] = "with"

(* findActiveSubscription *)
CurrentWhateverPeriod == subscription   \* mutant: status alone is asked for
Current == IF over THEN {} ELSE subscription

(* The configuration of the endpoint goes before that of its feature. *)
Effective(p) ==
  IF config[p].endpoint # {} THEN config[p].endpoint ELSE config[p].feature

(* What follows without an await: the last comparison, and what is done    *)
(* once Promise.all has everything.                                        *)
Decided(q) ==
  [q EXCEPT !.pc = IF Covers(The(q.wallet, 0), q.min) THEN "running" ELSE "denied"]
Proceed(q) ==
  IF q.todo # {} THEN q
  ELSE IF q.wallet = {} THEN [q EXCEPT !.pc = "creating"]
  ELSE IF ~Restricted(q.package) THEN Decided(q)
  ELSE [q EXCEPT !.pc = IF Included(q.package) THEN "config" ELSE "denied"]

Answer(named) ==
  /\ endpoint # {}
  /\ LET w == IF named THEN wallet ELSE {}
         p == IF over \/ w = {} THEN {} ELSE subscription
         min == The(endpoint, 0)
     IN IF Restricted(p)
        THEN Included(p) /\ The(w, 0) >= The(Effective(The(p, "none")), min)
        ELSE The(w, 0) >= min

(* A step that takes n credits from the wallet, noted by the others that   *)
(* have read it.                                                           *)
UnderWay(u) == usage[u].pc \in Starting \cup {"running"}
Lowered(n) ==
  [u \in Usages |-> IF UnderWay(u) /\ "wallet" \notin usage[u].todo
                    THEN [usage[u] EXCEPT !.lowered = @ + n] ELSE usage[u]]

(* A step that changes n documents, seen by the starts under way. *)
Changed(n, q) ==
  IF q.pc \in Starting
  THEN [q EXCEPT !.changes = IF @ + n > 2 THEN 2 ELSE @ + n] ELSE q
Answered(f) ==
  LET now(named) == IF named THEN Answer(TRUE)' ELSE Answer(FALSE)'
  IN [u \in Usages |-> IF f[u].pc \in Starting
                       THEN [f[u] EXCEPT !.answers = @ \cup {now(f[u].named)}]
                       ELSE f[u]]
ChangesSeen(n, f) == usage' = Answered([u \in Usages |-> Changed(n, f[u])])

-----------------------------------------------------------------------------
(* The steps of a start *)

StartUsage(u, named) ==
  /\ usage[u].pc = "idle"
  /\ usage' = [usage EXCEPT
       ![u] = [usage[u] EXCEPT !.pc = "reading",
                        !.todo = {"wallet", "endpoint", "subscription"},
                        !.named = named, !.answers = {Answer(named)}]]
  /\ UNCHANGED <<wallet, subscription, over, endpoint, endpointCopy, config,
                 configCopy, clearing, taking, strays, events>>

ReadWallet(u) ==
  /\ usage[u].pc = "reading" /\ "wallet" \in usage[u].todo
  /\ LET q == [usage[u] EXCEPT !.todo = @ \ {"wallet"},
                               !.wallet = IF usage[u].named THEN wallet ELSE {}]
     IN usage' = [usage EXCEPT ![u] = Proceed(q)]
  /\ UNCHANGED <<wallet, subscription, over, endpoint, endpointCopy, config,
                 configCopy, clearing, taking, strays, events>>

ReadSubscription(u) ==
  /\ usage[u].pc = "reading" /\ "subscription" \in usage[u].todo
  /\ LET q == [usage[u] EXCEPT !.todo = @ \ {"subscription"},
                               !.package = IF usage[u].named THEN Current ELSE {}]
     IN usage' = [usage EXCEPT ![u] = Proceed(q)]
  /\ UNCHANGED <<wallet, subscription, over, endpoint, endpointCopy, config,
                 configCopy, clearing, taking, strays, events>>

(* An endpoint that is not found or inactive rejects all three at once. *)
ReadEndpoint(u) ==
  /\ usage[u].pc = "reading" /\ "endpoint" \in usage[u].todo
  /\ LET hit == [usage[u] EXCEPT !.todo = @ \ {"endpoint"}, !.min = The(endpointCopy, 0),
                                 !.misled = @ \/ endpoint # endpointCopy]
         miss == [usage[u] EXCEPT !.todo = (@ \ {"endpoint"}) \cup {"store"},
                                  !.min = The(endpoint, 0)]
     IN usage' = [usage EXCEPT ![u] =
          IF endpointCopy # {} THEN Proceed(hit)
          ELSE IF endpoint = {} THEN [usage[u] EXCEPT !.pc = "denied"]
          ELSE miss]
  /\ UNCHANGED <<wallet, subscription, over, endpoint, endpointCopy, config,
                 configCopy, clearing, taking, strays, events>>

StoreEndpoint(u) ==
  /\ usage[u].pc = "reading" /\ "store" \in usage[u].todo
  /\ endpointCopy' = {usage[u].min}
  /\ LET q == [usage[u] EXCEPT !.todo = @ \ {"store"}]
     IN usage' = [usage EXCEPT ![u] = Proceed(q)]
  /\ UNCHANGED <<wallet, subscription, over, endpoint, config, configCopy,
                 clearing, taking, strays, events>>

(* createUserWallet: the find, then the insert; user is unique.  Without a *)
(* user id the document gets a fresh id of its own.                        *)
CreateWallet(u) ==
  /\ usage[u].pc \in {"creating", "inserting"}
  /\ UNCHANGED <<subscription, over, endpoint, endpointCopy, config, configCopy,
                 clearing, taking, events>>
  /\ IF usage[u].named /\ wallet # {}
     THEN /\ usage' = [usage EXCEPT ![u].pc = "denied", ![u].misled = TRUE]
          /\ UNCHANGED <<wallet, strays>>
     ELSE IF usage[u].pc = "creating"
     THEN /\ usage' = [usage EXCEPT ![u].pc = "inserting"]
          /\ UNCHANGED <<wallet, strays>>
     ELSE /\ IF usage[u].named
             THEN wallet' = {0} /\ UNCHANGED strays
             ELSE strays' = strays + 1 /\ UNCHANGED wallet
          /\ usage' = [Answered([v \in Usages |->
                         IF v = u \/ ~usage[u].named THEN usage[v]
                         ELSE Changed(1, usage[v])]) EXCEPT ![u] = Decided(@)]

(* getEffectiveConfig: the configuration of the endpoint, without it that  *)
(* of its feature; what it does not find, null, is not stored.             *)
ReadConfig(u) ==
  /\ usage[u].pc = "config"
  /\ LET p == The(usage[u].package, "none")
         own == config[p].endpoint
         hit == [usage[u] EXCEPT !.min = The(configCopy[p], @),
                                 !.misled = @ \/ configCopy[p] # Effective(p)]
     IN usage' = [usage EXCEPT ![u] =
          IF configCopy[p] # {} THEN Decided(hit)
          ELSE IF own = {} THEN [usage[u] EXCEPT !.pc = "feature"]
          ELSE [usage[u] EXCEPT !.pc = "storing", !.min = The(own, @)]]
  /\ UNCHANGED <<wallet, subscription, over, endpoint, endpointCopy, config,
                 configCopy, clearing, taking, strays, events>>

ReadFeatureConfig(u) ==
  /\ usage[u].pc = "feature"
  /\ LET general == config[The(usage[u].package, "none")].feature
     IN usage' = [usage EXCEPT ![u] =
          IF general = {} THEN Decided(usage[u])
          ELSE [usage[u] EXCEPT !.pc = "storing", !.min = The(general, @)]]
  /\ UNCHANGED <<wallet, subscription, over, endpoint, endpointCopy, config,
                 configCopy, clearing, taking, strays, events>>

StoreConfig(u) ==
  /\ usage[u].pc = "storing"
  /\ configCopy' = [configCopy EXCEPT ![The(usage[u].package, "none")] =
                      {usage[u].min}]
  /\ usage' = [usage EXCEPT ![u] = Decided(usage[u])]
  /\ UNCHANGED <<wallet, subscription, over, endpoint, endpointCopy, config,
                 clearing, taking, strays, events>>

-----------------------------------------------------------------------------
(* The end of a usage: nothing is charged when the service throws, uses no *)
(* tokens, or its end comes over HTTP and so without a user; an end in the *)
(* queue names its user, whatever the start did.  The balance is not       *)
(* looked at again.                                                        *)
EndUsage(u, cost) ==
  /\ usage[u].pc = "running"
  /\ UNCHANGED <<subscription, over, endpoint, endpointCopy, config, configCopy,
                 clearing, taking, strays, events>>
  /\ \/ /\ wallet # {}
        /\ wallet' = {c - cost : c \in wallet}
        /\ ChangesSeen(1, [Lowered(cost) EXCEPT ![u] =
                             [usage[u] EXCEPT !.pc = "charged", !.cost = cost]])
     \/ /\ usage' = [usage EXCEPT ![u].pc = "free"]
        /\ UNCHANGED wallet

-----------------------------------------------------------------------------
(* Meanwhile *)

Event == events < MaxEvents /\ events' = events + 1

(* handlePaymentCompleted: one transaction, the wallet and the subscription. *)
BuyPackage(p) ==
  /\ Event
  /\ wallet' = {The(wallet, 0) + PackageCredits}
  /\ subscription' = {p} /\ over' = FALSE
  /\ UNCHANGED <<endpoint, endpointCopy, config, configCopy, clearing, taking, strays>>
  /\ ChangesSeen(2, usage)

(* A refund takes the credits of the package back, whatever is left of     *)
(* them; the subscription stays.                                           *)
Refund ==
  /\ Event
  /\ wallet # {} /\ wallet' = {c - PackageCredits : c \in wallet}
  /\ UNCHANGED <<subscription, over, endpoint, endpointCopy, config, configCopy,
                 clearing, taking, strays>>
  /\ ChangesSeen(1, Lowered(PackageCredits))

(* executeCreditsTransaction: credits are taken from a balance compared    *)
(* before.                                                                 *)
CompareCredits(credits) ==
  /\ Event
  /\ taking = {} /\ \E c \in wallet : c >= credits
  /\ taking' = {credits}
  /\ UNCHANGED <<wallet, subscription, over, endpoint, endpointCopy, config,
                 configCopy, clearing, strays, usage>>

TakeCredits ==
  /\ taking # {} /\ taking' = {}
  /\ UNCHANGED <<subscription, over, endpoint, endpointCopy, config, configCopy,
                 clearing, strays, events>>
  /\ \E credits \in taking :
       /\ wallet' = {c - credits : c \in wallet}
       /\ ChangesSeen(1, Lowered(credits))

(* The PATCH of a wallet, and a row deleted or restored, save a balance    *)
(* that is not below zero in place of the present one.                     *)
SetWallet(credits) ==
  /\ Event
  /\ UNCHANGED <<subscription, over, endpoint, endpointCopy, config, configCopy,
                 clearing, taking, strays>>
  /\ \E c \in wallet :
       /\ c # credits /\ wallet' = {credits}
       /\ ChangesSeen(1, Lowered(IF credits < c THEN c - credits ELSE 0))

PeriodEnds ==
  /\ Event
  /\ subscription # {} /\ ~over /\ over' = TRUE
  /\ UNCHANGED <<wallet, subscription, endpoint, endpointCopy, config, configCopy,
                 clearing, taking, strays>>
  /\ ChangesSeen(1, usage)

(* An update of an endpoint clears none of its copies. *)
EditEndpoint(new) ==
  /\ Event
  /\ endpoint # new /\ endpoint' = new
  /\ UNCHANGED <<wallet, subscription, over, endpointCopy, config, configCopy,
                 clearing, taking, strays>>
  /\ ChangesSeen(1, usage)

EditConfig(p, level, new) ==
  /\ Event
  /\ ~clearing /\ clearing' = TRUE
  /\ config[p][level] # new /\ config' = [config EXCEPT ![p][level] = new]
  /\ UNCHANGED <<wallet, subscription, over, endpoint, endpointCopy, configCopy,
                 taking, strays>>
  /\ ChangesSeen(1, usage)

ClearConfigs ==
  /\ clearing /\ clearing' = FALSE
  /\ configCopy' = [p \in Packages |-> {}]
  /\ UNCHANGED <<wallet, subscription, over, endpoint, endpointCopy, config,
                 taking, strays, usage, events>>

(* CACHE_TTL *)
EndpointCopyExpires ==
  /\ endpointCopy # {} /\ endpointCopy' = {}
  /\ UNCHANGED <<wallet, subscription, over, endpoint, config, configCopy,
                 clearing, taking, strays, usage, events>>

-----------------------------------------------------------------------------
UsageStep(u) ==
  \/ \E named \in BOOLEAN : StartUsage(u, named)
  \/ ReadWallet(u)    \/ ReadSubscription(u)
  \/ ReadEndpoint(u)  \/ StoreEndpoint(u) \/ CreateWallet(u)
  \/ ReadConfig(u)    \/ ReadFeatureConfig(u) \/ StoreConfig(u)
  \/ \E cost \in Costs : EndUsage(u, cost)

Meanwhile ==
  \/ PeriodEnds \/ ClearConfigs \/ EndpointCopyExpires
  \/ Refund     \/ TakeCredits  \/ \E credits \in Costs : CompareCredits(credits)
  \/ \E credits \in {0, PackageCredits} : SetWallet(credits)
  \/ \E new \in AtMostOne(Minimums) : EditEndpoint(new)
  \/ \E p \in Packages :
       \/ BuyPackage(p)
       \/ \E level \in {"endpoint", "feature"}, new \in AtMostOne(Minimums) :
            EditConfig(p, level, new)

UsageNext == Meanwhile \/ \E u \in Usages : UsageStep(u)

UsageSpec == UsageInit /\ [][UsageNext]_usageVars

-----------------------------------------------------------------------------
(* Properties *)

(* What a charge leaves in the wallet is no less than the minimum the      *)
(* usage was let in with, less its own cost and what others took since it  *)
(* read the balance: other usages let in with the same credits             *)
(* (creditsProcessStart reserves nothing), a refund, an administrator.  A  *)
(* usage that cost no more than its minimum and that nobody interfered     *)
(* with does not overdraw it.  A start that named nobody is let in only    *)
(* without a minimum.                                                      *)
ChargeWasCovered(u) ==
  LET q == usage'[u] IN
  usage[u].pc = "running" /\ q.pc = "charged" =>
    IF q.named THEN \A c \in wallet' : c >= q.min - q.cost - q.lowered
    ELSE q.min = 0
ChargesCovered == [][\A u \in Usages : ChargeWasCovered(u)]_usageVars

(* A start answers what it would have answered in one step at some moment  *)
(* since it began, although its reads are spread over many: but for two    *)
(* documents that change meanwhile (a purchase changes two), a copy older  *)
(* than its document, and the loss of the race for the wallet.             *)
AnswersHeld ==
  \A u \in Usages :
    LET q == usage[u] IN
    q.changes < 2 /\ ~q.misled =>
      /\ q.pc \in {"running", "charged", "free"} => TRUE \in q.answers
      /\ q.pc = "denied" => FALSE \in q.answers
=============================================================================
