------------------------------- MODULE Wallet -------------------------------
(***************************************************************************)
(* One user's account: the UserWallet document, the CreditsTransaction and *)
(* PackageTransaction rows, the UserSubscription documents and the cached  *)
(* wallet (user-wallet:<id> in Redis), and the calls that move them.  The  *)
(* calls of user-wallet.service.ts, credits-transaction.service.ts and     *)
(* package-transaction.service.ts run without a Mongo transaction: every   *)
(* await is a step, and other requests take theirs in between.  A charge   *)
(* (a batch of credits-process), a settlement (handlePaymentCompleted) and *)
(* a refund (revokePackageCredits) are transactions: they keep the wallet  *)
(* document from being written by others until they commit.                *)
(*                                                                         *)
(* Nothing here is shared by two users, so the module has one.             *)
(***************************************************************************)
EXTENDS Integers, FiniteSets, Functions

CONSTANTS
  Requests,    \* requests; each makes one call
  Calls,       \* calls they make, a subset of CallNames
  Credits,     \* credits a call moves
  Concurrent,  \* bound: requests under way at a time
  MaxFaults    \* bound: rows that can not be inserted

Assigns == {"assignPackage", "assignPaidPackage", "giveInitialPackage"}
Grants == Assigns \cup {"giveInitialCredits", "giveBonusCredits"}
Movements == {"increase", "decrease"}   \* executeCreditsTransaction
Removals == {"deletePackageTransaction", "deletePackageTransactionPermanent"}
Restores == {"restorePackageTransaction", "restorePackageTransactions"}
Updates == {"updateUserWallet", "deleteUserWallet", "deleteUserWalletPermanent"}
OnRows == Removals \cup Restores
Transactions == {"charge", "settle", "refund"}
CallNames ==
  Grants \cup Movements \cup OnRows \cup Updates \cup Transactions
    \cup {"getUserWallet", "creditsProcessStart", "restoreUserWallet"}

ASSUME CallsAssumption ==
  /\ Calls \subseteq CallNames
  /\ Credits \in [CallNames -> Nat \ {0}]
ASSUME BoundsAssumption == Concurrent \in Nat \ {0} /\ MaxFaults \in Nat

VARIABLES
  wallet,      \* the UserWallet document
  generation,  \* documents created so far: which one wallet is
  cache,       \* credits of the cached wallet: no or one number
  creditsRow,  \* CreditsTransaction row of each request
  packageRow,  \* PackageTransaction row of each request
  sub,         \* UserSubscription of each request, by status
  over,        \* subscriptions whose current_period_end has passed
  request,
  granted,     \* generation whose credits a request moved, 0 if none
  taken,       \* times a package row's credits were taken back, less returns
  overtaken,   \* cache fills the wallet was written under since they read it
  suspect,     \* whether nothing will clear the cached wallet after a write
  parted,      \* package rows that calls parted from their credits
  faults

vars == <<wallet, generation, cache, creditsRow, packageRow, sub, over, request,
          granted, taken, overtaken, suspect, parted, faults>>

WalletStates ==
  [state : {"none", "live", "deleted"}, credits : Int,
   initial_credits_given : BOOLEAN, initial_package_given : BOOLEAN]
RowStates == {"none", "live", "deleted"}

(* A request under way: its call, the request whose package row it is      *)
(* about, the credits and the generation of the wallet it read, whether    *)
(* its update matched, the subscriptions its transaction saw active.       *)
RequestStates ==
  [pc : {"idle", "find", "create", "recreate", "clearNew", "add", "cancel",
         "subscribe", "packageRow", "creditsRow", "move", "load", "save",
         "mark", "store", "write", "clear", "commit", "done", "rejected"},
   call : CallNames, target : Requests, seen : Int, gen : Nat,
   updated : BOOLEAN, subs : SUBSET Requests]

NoWallet == [state |-> "none", credits |-> 0, initial_credits_given |-> FALSE,
             initial_package_given |-> FALSE]
NewWallet == [NoWallet EXCEPT !.state = "live"]

TypeOK ==
  /\ wallet \in WalletStates
  /\ generation \in Nat
  /\ cache \in SUBSET Int /\ \A c, d \in cache : c = d
  /\ creditsRow \in [Requests -> RowStates]
  /\ packageRow \in [Requests -> RowStates]
  /\ sub \in [Requests -> {"none", "active", "canceled", "expired"}]
  /\ over \subseteq Requests
  /\ request \in [Requests -> RequestStates]
  /\ granted \in [Requests -> Nat]
  /\ taken \in [Requests -> Int]
  /\ overtaken \subseteq Requests /\ suspect \in BOOLEAN /\ parted \subseteq Requests
  /\ faults \in Nat

Init ==
  /\ wallet = NoWallet
  /\ generation = 0
  /\ cache = {}
  /\ creditsRow = [r \in Requests |-> "none"]
  /\ packageRow = [r \in Requests |-> "none"]
  /\ sub = [r \in Requests |-> "none"]
  /\ over = {}
  /\ request = [r \in Requests |->
       [pc |-> "idle", call |-> "getUserWallet", target |-> r, seen |-> 0,
        gen |-> 0, updated |-> FALSE, subs |-> {}]]
  /\ granted = [r \in Requests |-> 0]
  /\ taken = [r \in Requests |-> 0]
  /\ overtaken = {} /\ suspect = FALSE /\ parted = {}
  /\ faults = 0

Finished == {"done", "rejected"}
UnderWay == {r \in Requests : request[r].pc \notin Finished \cup {"idle"}}

Start(r, call) ==
  /\ request[r].pc = "idle"
  /\ call \in Calls
  /\ Cardinality(UnderWay) < Concurrent

(* The state of request r from its first step on. *)
Begun(r, call, pc) == [request[r] EXCEPT !.call = call, !.pc = pc]

Goto(r, pc) == request' = [request EXCEPT ![r].pc = pc]

Live == wallet.state = "live"

(* Requests whose open transaction has written the wallet document. *)
Locking ==
  {r \in Requests : /\ request[r].call \in Transactions
                    /\ request[r].pc \in {"clear", "commit"}
                    /\ request[r].call = "refund" => request[r].updated}
Unlocked == Locking = {}

(* A write of the wallet overtakes the cache fills that have read it. *)
Overtake ==
  overtaken' = IF wallet' = wallet THEN overtaken
               ELSE overtaken \cup {r \in Requests : request[r].pc = "store"}

-----------------------------------------------------------------------------
(* Giving credits and packages *)

(* giveInitialPackage looks for the wallet before assignPackage does. *)
FindWallet(r, call) ==
  /\ Start(r, call)
  /\ call \in Grants \cup {"creditsProcessStart"}
  /\ request' = [request EXCEPT ![r] = Begun(r, call,
       IF ~Live THEN "create"
       ELSE CASE call = "creditsProcessStart" -> "done"
              [] call = "giveInitialPackage" -> "find"
              [] OTHER -> "add")]
  /\ UNCHANGED <<wallet, generation, cache, creditsRow, packageRow, sub, over,
                 granted, taken, overtaken, suspect, parted, faults>>

FindWalletAgain(r) ==
  /\ request[r].pc = "find"
  /\ Goto(r, IF Live THEN "add" ELSE "recreate")
  /\ UNCHANGED <<wallet, generation, cache, creditsRow, packageRow, sub, over,
                 granted, taken, overtaken, suspect, parted, faults>>

(* createUserWallet rejects when it finds a wallet, and user is unique: a  *)
(* document that is soft deleted, or was inserted meanwhile, rejects too.  *)
CreateWallet(r) ==
  /\ request[r].pc \in {"create", "recreate"}
  /\ Unlocked
  /\ IF wallet.state = "none"
     THEN /\ wallet' = NewWallet
          /\ generation' = generation + 1
          /\ request' = [request EXCEPT ![r].pc = "clearNew",
                                        ![r].updated = request[r].pc = "recreate"]
     ELSE Goto(r, "rejected") /\ UNCHANGED <<wallet, generation>>
  /\ Overtake
  /\ UNCHANGED <<cache, creditsRow, packageRow, sub, over, granted, taken,
                 suspect, parted, faults>>

(* The filters of the updates that may be made once. *)
NoFilter == TRUE     \* mutant: the filter is by user alone
InitialCreditsFilter == ~wallet.initial_credits_given
InitialPackageFilter == ~wallet.initial_package_given

(* The credits that are stored: $inc, not what the request read. *)
OverwrittenBy(credits, n) == n     \* mutant: the credits are $set
Incremented(credits, n) == credits + n

AddCredits(r) ==
  LET call == request[r].call
      matched == /\ Live
                 /\ call = "giveInitialCredits" => InitialCreditsFilter
                 /\ call = "giveInitialPackage" => InitialPackageFilter
  IN /\ request[r].pc = "add"
     /\ Unlocked
     /\ IF matched
        THEN /\ wallet' = [wallet EXCEPT
                  !.credits = Incremented(@, Credits[call]),
                  !.initial_credits_given = @ \/ call = "giveInitialCredits",
                  !.initial_package_given = @ \/ call = "giveInitialPackage"]
             /\ granted' = [granted EXCEPT ![r] = generation]
        ELSE UNCHANGED <<wallet, granted>>
     /\ request' = [request EXCEPT ![r].updated = matched,
          ![r].pc = IF call \in Assigns THEN "cancel"
                    ELSE IF matched THEN "clear" ELSE "rejected"]
     /\ Overtake
     /\ UNCHANGED <<generation, cache, creditsRow, packageRow, sub, over,
                    taken, suspect, parted, faults>>

Superseded(status) == IF status = "active" THEN "canceled" ELSE status

(* createSubscription, and only then the check of the wallet's update. *)
CancelSubscriptions(r) ==
  /\ request[r].pc = "cancel"
  /\ sub' = [q \in Requests |-> Superseded(sub[q])]
  /\ Goto(r, "subscribe")
  /\ UNCHANGED <<wallet, generation, cache, creditsRow, packageRow, over,
                 granted, taken, overtaken, suspect, parted, faults>>

Subscribe(r) ==
  /\ request[r].pc = "subscribe"
  /\ sub' = [sub EXCEPT ![r] = "active"]
  /\ Goto(r, IF request[r].updated THEN "clear" ELSE "rejected")
  /\ UNCHANGED <<wallet, generation, cache, creditsRow, packageRow, over,
                 granted, taken, overtaken, suspect, parted, faults>>

(* Rows of a grant are inserted last, and an error is logged only. *)
InsertPackageRow(r) ==
  /\ request[r].pc = "packageRow"
  /\ \/ packageRow' = [packageRow EXCEPT ![r] = "live"] /\ UNCHANGED faults
     \/ faults < MaxFaults /\ faults' = faults + 1 /\ UNCHANGED packageRow
  /\ Goto(r, "creditsRow")
  /\ UNCHANGED <<wallet, generation, cache, creditsRow, sub, over, granted,
                 taken, overtaken, suspect, parted>>

(* A row of a payment without its payment_transaction is not valid.  A     *)
(* movement then rejects before it clears the cache.                       *)
InsertCreditsRow(r) ==
  LET call == request[r].call IN
  /\ request[r].pc = "creditsRow"
  /\ \/ /\ call # "assignPaidPackage"
        /\ creditsRow' = [creditsRow EXCEPT ![r] = "live"]
        /\ Goto(r, IF call \in Movements THEN "clear" ELSE "done")
        /\ UNCHANGED <<suspect, faults>>
     \/ /\ \/ call = "assignPaidPackage" /\ UNCHANGED faults
           \/ faults < MaxFaults /\ faults' = faults + 1
        /\ Goto(r, IF call \in Movements THEN "rejected" ELSE "done")
        /\ suspect' = (suspect \/ (call \in Movements /\ granted[r] # 0))
        /\ UNCHANGED creditsRow
  /\ UNCHANGED <<wallet, generation, cache, packageRow, sub, over, granted,
                 taken, overtaken, parted>>

-----------------------------------------------------------------------------
(* executeCreditsTransaction *)

Covered(credits, n) == credits >= n

FindForMovement(r, call) ==
  /\ Start(r, call)
  /\ call \in Movements
  /\ request' = [request EXCEPT ![r] = [Begun(r, call,
       IF Live /\ (call = "decrease" => Covered(wallet.credits, Credits[call]))
       THEN "move" ELSE "rejected")
       EXCEPT !.gen = generation, !.seen = wallet.credits]]
  /\ UNCHANGED <<wallet, generation, cache, creditsRow, packageRow, sub, over,
                 granted, taken, overtaken, suspect, parted, faults>>

(* By id, and nobody looks whether a wallet was found. *)
MoveCredits(r) ==
  LET call == request[r].call IN
  /\ request[r].pc = "move"
  /\ Unlocked
  /\ IF Live /\ generation = request[r].gen
     THEN /\ wallet' = [wallet EXCEPT !.credits =
               Incremented(@, IF call = "increase" THEN Credits[call]
                              ELSE -Credits[call])]
          /\ granted' = [granted EXCEPT ![r] = generation]
     ELSE UNCHANGED <<wallet, granted>>
  /\ Overtake
  /\ Goto(r, "creditsRow")
  /\ UNCHANGED <<generation, cache, creditsRow, packageRow, sub, over, taken,
                 suspect, parted, faults>>

-----------------------------------------------------------------------------
(* Deleting and restoring PackageTransaction rows *)

FoundWhateverState(t, call) == TRUE     \* mutant: bypassDeleted in both
Found(t, call) ==
  packageRow[t] = "live" \/ call = "deletePackageTransactionPermanent"

(* A call that goes on with row t parts it from its credits when another   *)
(* one is about it already, or when it is one of the two that do not look  *)
(* whether the row is deleted, and finds that it is, or is not.            *)
PartsRow(t, call) ==
  \/ call = "deletePackageTransactionPermanent" /\ packageRow[t] = "deleted"
  \/ call = "restorePackageTransactions" /\ packageRow[t] = "live"
  \/ \E q \in UnderWay : request[q].call \in OnRows /\ request[q].target = t

FindRow(r, call, t) ==
  /\ Start(r, call)
  /\ call \in Removals
  /\ packageRow[t] # "none"
  /\ request' = [request EXCEPT ![r] = [Begun(r, call,
       IF Found(t, call) THEN "load" ELSE "rejected") EXCEPT !.target = t]]
  /\ parted' = IF Found(t, call) /\ PartsRow(t, call)
               THEN parted \cup {t} ELSE parted
  /\ UNCHANGED <<wallet, generation, cache, creditsRow, packageRow, sub, over,
                 granted, taken, overtaken, suspect, faults>>

(* restorePackageTransactions reads back every row of its ids that is not  *)
(* deleted, the ones it did not restore included.                          *)
RestoreRow(r, call, t) ==
  /\ Start(r, call)
  /\ call \in Restores
  /\ packageRow[t] # "none"
  /\ IF packageRow[t] = "deleted" \/ call = "restorePackageTransactions"
     THEN /\ packageRow' = [packageRow EXCEPT ![t] = "live"]
          /\ request' = [request EXCEPT ![r] =
               [Begun(r, call, "load") EXCEPT !.target = t]]
          /\ parted' = IF PartsRow(t, call) THEN parted \cup {t} ELSE parted
     ELSE /\ request' = [request EXCEPT ![r] = Begun(r, call, "rejected")]
          /\ UNCHANGED <<packageRow, parted>>
  /\ UNCHANGED <<wallet, generation, cache, creditsRow, sub, over, granted,
                 taken, overtaken, suspect, faults>>

(* Without the wallet, the row alone is deleted or restored. *)
LoadWallet(r) ==
  LET q == request[r]
      there == Live /\ generation = granted[q.target]
  IN
  /\ q.pc = "load" /\ q.call # "getUserWallet"
  /\ request' = [request EXCEPT ![r].seen = wallet.credits,
       ![r].gen = generation,
       ![r].pc = IF there THEN "save"
                 ELSE IF q.call \in Removals THEN "mark" ELSE "done"]
  /\ parted' = IF there THEN parted ELSE parted \cup {q.target}
  /\ UNCHANGED <<wallet, generation, cache, creditsRow, packageRow, sub, over,
                 granted, taken, overtaken, suspect, faults>>

(* The credits computed from what was read; save() writes them when they   *)
(* differ from that, whatever the document holds by now.                   *)
SavedCredits(r) ==
  LET q == request[r]
      n == Credits[request[q.target].call]
  IN IF q.call \in Restores THEN q.seen + n
     ELSE IF q.seen > n THEN q.seen - n ELSE 0

(* The schema's min is 0: save() rejects what a restore computes for a     *)
(* wallet that is overdrawn too far, when the row is restored already.     *)
SaveWallet(r) ==
  LET q == request[r] IN
  /\ q.pc = "save"
  /\ Unlocked
  /\ IF wallet.state # "none" /\ generation = q.gen /\ SavedCredits(r) >= 0
     THEN /\ wallet' = [wallet EXCEPT !.credits =
               IF SavedCredits(r) = q.seen THEN @ ELSE SavedCredits(r)]
          /\ taken' = [taken EXCEPT ![q.target] =
               IF q.call \in Restores THEN @ - 1 ELSE @ + 1]
          /\ Goto(r, "clear")
          /\ UNCHANGED parted
     ELSE /\ Goto(r, "rejected")
          /\ parted' = IF q.call \in Restores THEN parted \cup {q.target} ELSE parted
          /\ UNCHANGED <<wallet, taken>>
  /\ Overtake
  /\ UNCHANGED <<generation, cache, creditsRow, packageRow, sub, over, granted,
                 suspect, faults>>

(* findByIdAndDelete has the filter of every find: it deletes no row that  *)
(* is soft deleted.                                                        *)
MarkRow(r) ==
  LET q == request[r] IN
  /\ q.pc = "mark"
  /\ packageRow' = [packageRow EXCEPT ![q.target] =
       IF @ # "live" THEN @
       ELSE IF q.call = "deletePackageTransaction" THEN "deleted" ELSE "none"]
  /\ Goto(r, "done")
  /\ UNCHANGED <<wallet, generation, cache, creditsRow, sub, over, granted,
                 taken, overtaken, suspect, parted, faults>>

-----------------------------------------------------------------------------
(* The wallet's own routes *)

FindForUpdate(r, call) ==
  /\ Start(r, call)
  /\ call \in Updates
  /\ request' = [request EXCEPT ![r] = [Begun(r, call,
       IF Live \/ (call = "deleteUserWalletPermanent" /\ wallet.state = "deleted")
       THEN "write" ELSE "rejected") EXCEPT !.gen = generation]]
  /\ UNCHANGED <<wallet, generation, cache, creditsRow, packageRow, sub, over,
                 granted, taken, overtaken, suspect, parted, faults>>

WriteWallet(r) ==
  LET q == request[r]
      matched == Live /\ generation = q.gen
  IN /\ q.pc = "write"
     /\ Unlocked
     /\ wallet' = IF ~matched THEN wallet
                  ELSE CASE q.call = "updateUserWallet" ->
                              [wallet EXCEPT !.credits = Credits[q.call]]
                         [] q.call = "deleteUserWallet" ->
                              [wallet EXCEPT !.state = "deleted"]
                         [] OTHER -> NoWallet
     /\ Overtake
     /\ Goto(r, IF q.call = "updateUserWallet" /\ ~matched THEN "done" ELSE "clear")
     /\ UNCHANGED <<generation, cache, creditsRow, packageRow, sub, over,
                    granted, taken, suspect, parted, faults>>

RestoreWallet(r, call) ==
  /\ Start(r, call)
  /\ call = "restoreUserWallet"
  /\ Unlocked
  /\ request' = [request EXCEPT ![r] = Begun(r, call,
       IF wallet.state = "deleted" THEN "clear" ELSE "rejected")]
  /\ wallet' = IF wallet.state = "deleted"
               THEN [wallet EXCEPT !.state = "live"] ELSE wallet
  /\ Overtake
  /\ UNCHANGED <<generation, cache, creditsRow, packageRow, sub, over, granted,
                 taken, suspect, parted, faults>>

-----------------------------------------------------------------------------
(* The cache: withCache and invalidateCache *)

ReadCache(r, call) ==
  /\ Start(r, call)
  /\ call = "getUserWallet"
  /\ request' = [request EXCEPT ![r] =
       Begun(r, call, IF cache # {} THEN "done" ELSE "load")]
  /\ UNCHANGED <<wallet, generation, cache, creditsRow, packageRow, sub, over,
                 granted, taken, overtaken, suspect, parted, faults>>

ReadDatabase(r) ==
  /\ request[r].pc = "load" /\ request[r].call = "getUserWallet"
  /\ request' = [request EXCEPT ![r].seen = wallet.credits,
                                ![r].pc = IF Live THEN "store" ELSE "done"]
  /\ UNCHANGED <<wallet, generation, cache, creditsRow, packageRow, sub, over,
                 granted, taken, overtaken, suspect, parted, faults>>

Stored(r) == {request[r].seen}

StoreCache(r) ==
  /\ request[r].pc = "store"
  /\ cache' = Stored(r)
  /\ suspect' = (r \in overtaken)
  /\ Goto(r, "done")
  /\ UNCHANGED <<wallet, generation, creditsRow, packageRow, sub, over,
                 granted, taken, overtaken, parted, faults>>

NotInvalidated == cache     \* mutant: clearUserWalletCache is forgotten
Invalidated == {}

AfterClear(q) ==
  CASE q.call \in Transactions -> "commit"
    [] q.pc = "clearNew" /\ q.call \in Grants ->
         IF q.call = "giveInitialPackage" /\ ~q.updated THEN "find" ELSE "add"
    [] q.pc = "clear" /\ q.call \in Assigns -> "packageRow"
    [] q.pc = "clear" /\ q.call \in Grants \ Assigns -> "creditsRow"
    [] q.call \in Removals -> "mark"
    [] OTHER -> "done"

ClearCache(r) ==
  /\ request[r].pc \in {"clear", "clearNew"}
  /\ cache' = Invalidated
  /\ suspect' = FALSE
  /\ Goto(r, AfterClear(request[r]))
  /\ UNCHANGED <<wallet, generation, creditsRow, packageRow, sub, over,
                 granted, taken, overtaken, parted, faults>>

-----------------------------------------------------------------------------
(* Transactions of other components *)

(* The update inside the transaction: a second open transaction aborts on  *)
(* the write conflict; a charge needs a wallet, a settlement creates one   *)
(* unless a soft deleted one holds the user's key.                         *)
TransactionUpdate(r, call) ==
  /\ Start(r, call)
  /\ call \in {"charge", "settle"}
  /\ request' = [request EXCEPT ![r] = [Begun(r, call,
       IF Unlocked /\ (Live \/ (call = "settle" /\ wallet.state = "none"))
       THEN "clear" ELSE "rejected")
       EXCEPT !.subs = {q \in Requests : sub[q] = "active"}]]
  /\ UNCHANGED <<wallet, generation, cache, creditsRow, packageRow, sub, over,
                 granted, taken, overtaken, suspect, parted, faults>>

(* The cache was cleared before the commit: a copy filled since then is    *)
(* of the wallet as it was.                                                *)
TransactionCommit(r) ==
  LET q == request[r]
      settles == q.call = "settle"
      base == IF Live THEN wallet ELSE NewWallet
      n == IF settles THEN Credits[q.call] ELSE -Credits[q.call]
      g == IF Live THEN generation ELSE generation + 1
  IN /\ q.pc = "commit" /\ q.call # "refund"
     /\ wallet' = [base EXCEPT !.credits = Incremented(@, n)]
     /\ generation' = g
     /\ granted' = [granted EXCEPT ![r] = g]
     /\ creditsRow' = [creditsRow EXCEPT ![r] = "live"]
     /\ IF settles
        THEN /\ packageRow' = [packageRow EXCEPT ![r] = "live"]
             /\ sub' = [s \in Requests |->
                  IF s = r THEN "active"
                  ELSE IF s \in q.subs THEN "canceled" ELSE sub[s]]
        ELSE UNCHANGED <<packageRow, sub>>
     /\ Overtake
     /\ suspect' = (suspect \/ cache # {})
     /\ Goto(r, "done")
     /\ UNCHANGED <<cache, over, taken, parted, faults>>

(* revokePackageCredits in the transaction of a refund: once a payment,    *)
(* for the wallet that is found, which may be overdrawn by it; no row is   *)
(* inserted, the cache is not cleared, and nothing looks whether the       *)
(* package row is deleted.                                                 *)
RevokeCredits(r, call, t) ==
  /\ Start(r, call)
  /\ call = "refund"
  /\ request[t].call = "settle" /\ request[t].pc = "done"
  /\ \A q \in Requests :
       request[q].call = "refund" /\ request[q].target = t => request[q].pc = "rejected"
  /\ request' = [request EXCEPT ![r] =
       [Begun(r, call, IF Live /\ ~Unlocked THEN "rejected" ELSE "commit")
        EXCEPT !.target = t, !.updated = Live]]
  /\ UNCHANGED <<wallet, generation, cache, creditsRow, packageRow, sub, over,
                 granted, taken, overtaken, suspect, parted, faults>>

RefundCommit(r) ==
  LET q == request[r] IN
  /\ q.pc = "commit" /\ q.call = "refund"
  /\ IF q.updated
     THEN /\ wallet' = [wallet EXCEPT !.credits = Incremented(@, -Credits["settle"])]
          /\ granted' = [granted EXCEPT ![r] = generation]
          /\ taken' = [taken EXCEPT ![q.target] = @ + 1]
          /\ parted' = parted \cup {q.target}
          /\ suspect' = TRUE
     ELSE UNCHANGED <<wallet, granted, taken, parted, suspect>>
  /\ Overtake
  /\ Goto(r, "done")
  /\ UNCHANGED <<generation, cache, creditsRow, packageRow, sub, over, faults>>

-----------------------------------------------------------------------------
(* Subscriptions end; the nightly job marks them. *)

PeriodEnds(r) ==
  /\ sub[r] = "active" /\ r \notin over
  /\ over' = over \cup {r}
  /\ UNCHANGED <<wallet, generation, cache, creditsRow, packageRow, sub,
                 request, granted, taken, overtaken, suspect, parted, faults>>

OverdueCanceled == {r \in over : sub[r] = "canceled"}     \* mutant
Overdue == {r \in over : sub[r] = "active"}

ExpireSubscriptions ==
  /\ Overdue # {}
  /\ sub' = [r \in Requests |-> IF r \in Overdue THEN "expired" ELSE sub[r]]
  /\ UNCHANGED <<wallet, generation, cache, creditsRow, packageRow, over,
                 request, granted, taken, overtaken, suspect, parted, faults>>

-----------------------------------------------------------------------------
Step(r) ==
  \/ FindWalletAgain(r) \/ CreateWallet(r)  \/ AddCredits(r)
  \/ CancelSubscriptions(r) \/ Subscribe(r)
  \/ InsertPackageRow(r) \/ InsertCreditsRow(r) \/ MoveCredits(r)
  \/ LoadWallet(r)   \/ SaveWallet(r)   \/ MarkRow(r)  \/ WriteWallet(r)
  \/ ReadDatabase(r) \/ StoreCache(r)   \/ ClearCache(r)
  \/ TransactionCommit(r) \/ RefundCommit(r)

FirstStep(r, call) ==
  \/ FindWallet(r, call)    \/ FindForMovement(r, call)
  \/ FindForUpdate(r, call) \/ RestoreWallet(r, call)
  \/ ReadCache(r, call)     \/ TransactionUpdate(r, call)
  \/ \E t \in Requests :
       FindRow(r, call, t) \/ RestoreRow(r, call, t) \/ RevokeCredits(r, call, t)

Next ==
  \/ \E r \in Requests : Step(r) \/ PeriodEnds(r)
                         \/ \E call \in Calls : FirstStep(r, call)
  \/ ExpireSubscriptions

Spec == Init /\ [][Next]_vars

(* node-cron fires every night. *)
Fairness == WF_vars(ExpireSubscriptions)
FairSpec == Spec /\ Fairness

-----------------------------------------------------------------------------
(* Safety *)

(* Initial credits, and the initial package, are given to a wallet once,   *)
(* whatever requests for it are under way at the same time                 *)
(* (giveInitialCredits, assignPackage with is_initial).                    *)
GivenOnce(call) ==
  \A r, q \in Requests :
    /\ request[r].call = call /\ request[q].call = call
    /\ granted[r] = granted[q] /\ granted[r] # 0
    => r = q
InitialCreditsOnce == GivenOnce("giveInitialCredits")
InitialPackageOnce == GivenOnce("giveInitialPackage")
GrantsOnce == InitialCreditsOnce /\ InitialPackageOnce

Idle == UnderWay = {}

Moves(call) ==
  CASE call \in {"decrease", "charge"} -> -Credits[call]
    [] call = "refund" -> -Credits["settle"]
    [] OTHER -> Credits[call]
Signed == [r \in Requests |-> Moves(request[r].call)]

(* Calls that change what a wallet holds and insert no row for it, or that *)
(* take a row away.                                                        *)
Rowless == OnRows \cup Updates \cup {"assignPaidPackage"}
Recorded == {r \in Requests : creditsRow[r] = "live"}
Refunded == {r \in Requests : request[r].call = "refund" /\ granted[r] # 0}

(* When no request is under way, none of those calls was made and every    *)
(* row could be inserted, the wallet holds what its CreditsTransaction     *)
(* rows add up to, less what refunds took back.                            *)
LedgerMatches ==
  Idle /\ faults = 0 /\ (\A r \in Requests : request[r].call \notin Rowless) =>
    wallet.credits = SumFunctionOnSet(Signed, Recorded \cup Refunded)

(* Requests that have written the wallet, or may have, and clear the cache *)
(* further on.                                                             *)
Clearing ==
  {r \in Requests :
     \/ request[r].pc \in {"clear", "clearNew"}
     \/ request[r].pc \in {"cancel", "subscribe"} /\ request[r].updated
     \/ request[r].pc = "creditsRow" /\ request[r].call \in Movements
                                    /\ granted[r] # 0}

(* A cached wallet is the stored one, but for the time a request takes     *)
(* from its write to its clearUserWalletCache, and until the next one      *)
(* after a refund, after a movement that moved credits and could not       *)
(* insert its row, and after a fill that read or stored next to a write    *)
(* (withCache).                                                            *)
CacheFresh ==
  ~suspect /\ Clearing = {} => \A c \in cache : Live /\ wallet.credits = c

(* A package row's credits are taken back once, and given back only after  *)
(* that; at rest they are taken back when the row is deleted and not when  *)
(* it is there.  Excepted are the rows of refunded payments, those two     *)
(* calls were about at the same time, those deleted or restored without    *)
(* their wallet or restored into one overdrawn too far, and the permanent  *)
(* deletions and bulk restores that do not look what was done before       *)
(* (deletePackageTransaction, restorePackageTransaction).                  *)
TakenBackOnce ==
  \A t \in Requests \ parted :
    /\ taken[t] \in {0, 1}
    /\ (\A q \in UnderWay : request[q].call \in OnRows => request[q].target # t) =>
         /\ packageRow[t] = "live" => taken[t] = 0
         /\ packageRow[t] = "deleted" => taken[t] = 1

-----------------------------------------------------------------------------
(* Liveness *)

(* A subscription whose period is over does not stay active                *)
(* (expireSubscriptions).                                                  *)
OverdueExpire ==
  \A r \in Requests : r \in over ~> sub[r] \in {"canceled", "expired"}
=============================================================================
