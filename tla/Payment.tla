------------------------------ MODULE Payment ------------------------------
(***************************************************************************)
(* The settlement of a payment: the payment transaction's status, the      *)
(* webhook, redirect, verification, reconciliation, admin and refund       *)
(* handlers that move it, and the Mongo transaction that turns a settled   *)
(* payment into credits, a subscription and a counted coupon.              *)
(*                                                                         *)
(* Every handler is an async function: each await is a point where the     *)
(* other handlers run, so a handler is a small process whose steps are the *)
(* reads and writes between two awaits.  A Mongo transaction is a snapshot *)
(* taken at its first read and a commit that fails when a document it      *)
(* writes was written by somebody else since that snapshot.                *)
(***************************************************************************)
EXTENDS Integers, FiniteSets

CONSTANTS
  Payments,           \* payment transactions
  Users,              \* owners of a wallet
  Owner,              \* Owner[p]: the user who pays p
  Discounted,         \* payments initiated with a coupon (one shared coupon)
  Requests,           \* request executions that can be in flight at a time
  Crons,              \* cron executions that can be in flight at a time
  Sources,            \* entry points exercised, a subset of EntryPoints
  AdminTargets,       \* statuses an admin may ask for
  PackageCredits,     \* credits of the PackagePrice document
  MaxAttempts,        \* max_attempts of the inline consumer retry
  IdsCast,            \* a populated reference's toString() casts to its id
  Firings,            \* firings of the reconciliation cron between a payment's
                      \* 15th minute and its 24th hour, when the query finds it
  MaxFaults,          \* bound: crashes and transient transaction failures
  MaxUsage            \* bound: usage_count beyond which no duplicate with
                      \* customer details is delivered

Handlers == Requests \cup Crons

Charges == {"none", "open", "paid", "declined", "refunded"}
Statuses == {"pending", "success", "failed", "refunded"}
EntryPoints == {"webhook", "details", "redirect", "verify", "reconcile",
                "admin", "refund"}
AuditSources == {"SYSTEM", "ADMIN", "WEBHOOK", "USER"}

ASSUME SetsAssumption ==
  /\ Payments # {}
  /\ Owner \in [Payments -> Users]
  /\ Discounted \subseteq Payments
  /\ Sources \subseteq EntryPoints
  /\ AdminTargets \subseteq Statuses
ASSUME NumbersAssumption ==
  /\ PackageCredits \in Nat
  /\ MaxAttempts \in Nat \ {0}
  /\ IdsCast \in BOOLEAN
  /\ Firings \in Nat
  /\ MaxFaults \in Nat
  /\ MaxUsage \in Nat

VARIABLES
  charge,       \* the gateway's own record of the payment
  status,       \* PaymentTransaction.status; "none" before the insert
  gateway_status, \* the gateway's answer that a verification has stored
  linked,       \* payments whose gateway_transaction_id is stored
  processed,    \* payments whose consumer_processed is true
  ledger,       \* CreditsTransaction rows (increase, payment) per payment
  wallet,       \* UserWallet.credits
  active,       \* active UserSubscriptions, named by the payment they came from
  grants,       \* PackageTransaction: "none", "active" or "inactive"
  usage_count,  \* Coupon.usage_count
  audit,        \* newStatus of the newest PaymentAuditLog row
  revoked,      \* times a payment's credits were taken back
  hasty,        \* payments whose 'failed' a visit or a verification has written
  proc,         \* what each handler is doing
  stale,        \* handlers whose open Mongo transaction can no longer commit
  firings,      \* firings of the cron that can still find a payment
  faults        \* crashes and transient failures so far

docs == <<status, gateway_status, linked, processed, ledger, wallet, active, grants,
          usage_count, audit, revoked, hasty>>
vars == <<charge, docs, proc, stale, firings, faults>>

Pcs == {"idle", "initiate", "verify", "reconcile", "read", "write", "begin",
        "commit", "refund_call", "refund_begin", "refund_commit"}

(***************************************************************************)
(* One handler.  seen is the status its last read returned, answer the     *)
(* gateway_status a verification has read and then the one it was given,   *)
(* attempt the consumer attempt it is in, credited and subs what the       *)
(* snapshot of its open Mongo transaction held: a CreditsTransaction row   *)
(* for the payment, and the owner's active subscriptions.                  *)
(***************************************************************************)
ProcStates ==
  [pc : Pcs, pay : Payments, target : Statuses, details : BOOLEAN,
   source : AuditSources \cup {"REDIRECT", "MANUAL_VERIFICATION",
                               "RECONCILIATION_JOB"},
   seen : Statuses \cup {"none"}, answer : Charges, attempt : 1..MaxAttempts,
   credited : BOOLEAN, subs : SUBSET Payments]

Idle == [pc |-> "idle", pay |-> CHOOSE p \in Payments : TRUE,
         target |-> "pending", details |-> FALSE, source |-> "SYSTEM",
         seen |-> "none", answer |-> "none", attempt |-> 1, credited |-> FALSE, subs |-> {}]

TypeOK ==
  /\ charge \in [Payments -> Charges]
  /\ status \in [Payments -> Statuses \cup {"none"}]
  /\ gateway_status \in [Payments -> Charges]
  /\ linked \subseteq Payments
  /\ processed \subseteq Payments
  /\ ledger \in [Payments -> Nat]
  /\ wallet \in [Users -> Int]
  /\ active \in [Users -> SUBSET Payments]
  /\ grants \in [Payments -> {"none", "active", "inactive"}]
  /\ usage_count \in Nat
  /\ audit \in [Payments -> Statuses \cup {"none"}]
  /\ revoked \in [Payments -> Nat]
  /\ hasty \subseteq Payments
  /\ firings \in [Payments -> Nat]
  /\ proc \in [Handlers -> ProcStates]
  /\ stale \subseteq Handlers
  /\ faults \in Nat

Init ==
  /\ charge = [p \in Payments |-> "none"]
  /\ status = [p \in Payments |-> "none"]
  /\ gateway_status = [p \in Payments |-> "none"]
  /\ linked = {}
  /\ processed = {}
  /\ ledger = [p \in Payments |-> 0]
  /\ wallet = [u \in Users |-> 0]
  /\ active = [u \in Users |-> {}]
  /\ grants = [p \in Payments |-> "none"]
  /\ usage_count = 0
  /\ audit = [p \in Payments |-> "none"]
  /\ revoked = [p \in Payments |-> 0]
  /\ hasty = {}
  /\ firings = [p \in Payments |-> 0]
  /\ proc = [g \in Handlers |-> Idle]
  /\ stale = {}
  /\ faults = 0

-----------------------------------------------------------------------------
(* PaymentStateMachine *)

transitions == [pending  |-> {"success", "failed"},
                success  |-> {"refunded"},
                failed   |-> {},
                refunded |-> {}]

CanTransition(current, target) ==
  \/ current = target
  \/ current \in Statuses /\ target \in transitions[current]

-----------------------------------------------------------------------------
(* Mongo transactions *)

TxDoc(p) == <<"payment_transactions", p>>
WalletDoc(u) == <<"user_wallets", u>>
CouponDoc == <<"coupons", "coupon">>

(* Documents the settlement of p writes, given whether the snapshot already *)
(* holds its CreditsTransaction row: then the wallet is left alone.         *)
SettlementDocsNoWallet(p, credited) ==      \* mutant: $inc outside the session
  {TxDoc(p)}
SettlementDocs(p, credited) ==
  {TxDoc(p)}
    \cup (IF credited THEN {} ELSE {WalletDoc(Owner[p])})
    \cup (IF p \in Discounted THEN {CouponDoc} ELSE {})

RefundDocs(p) == {TxDoc(p), WalletDoc(Owner[p])}

TxnDocs(s) ==
  CASE s.pc = "commit"        -> SettlementDocs(s.pay, s.credited)
    [] s.pc = "refund_commit" -> RefundDocs(s.pay)
    [] OTHER                  -> {}

(* Writing ds dooms every open transaction that writes one of them. *)
Written(ds) == stale \cup {g \in Handlers : TxnDocs(proc[g]) \cap ds # {}}

-----------------------------------------------------------------------------
(* Handler bookkeeping *)

Goto(g, pc) == proc' = [proc EXCEPT ![g].pc = pc]
Finish(g) == proc' = [proc EXCEPT ![g] = Idle]
Start(g, s) == proc[g].pc = "idle" /\ proc' = [proc EXCEPT ![g] = s]

(* A request for updatePaymentTransactionStatus. *)
Update(p, target, source, details) ==
  [Idle EXCEPT !.pc = "read", !.pay = p, !.target = target,
               !.source = source, !.details = details]

Serves(g, source) == g \in Requests /\ source \in Sources

-----------------------------------------------------------------------------
(* The gateway and its customer *)

CustomerPays(p) ==
  /\ charge[p] = "open"
  /\ charge' = [charge EXCEPT ![p] = "paid"]
  /\ UNCHANGED <<docs, proc, stale, firings, faults>>

ChargeDeclined(p) ==
  /\ charge[p] = "open"
  /\ charge' = [charge EXCEPT ![p] = "declined"]
  /\ UNCHANGED <<docs, proc, stale, firings, faults>>

Collected(p) == charge[p] \in {"paid", "refunded"}

-----------------------------------------------------------------------------
(* initiatePayment: the insert, then the gateway call and its outcome *)

InitiatePayment(g, p) ==
  /\ g \in Requests
  /\ status[p] = "none"
  /\ Start(g, [Idle EXCEPT !.pc = "initiate", !.pay = p])
  /\ status' = [status EXCEPT ![p] = "pending"]
  /\ firings' = [firings EXCEPT ![p] = Firings]
  /\ UNCHANGED <<charge, gateway_status, linked, processed, ledger, wallet, active, grants,
                 usage_count, audit, revoked, hasty, stale, faults>>

(* The customer learns the payment page's address from the answer, so the  *)
(* gateway call and the write of its ids are one step.                     *)
GatewayOpened(g) ==
  /\ proc[g].pc = "initiate"
  /\ LET p == proc[g].pay IN
       /\ charge' = [charge EXCEPT ![p] = "open"]
       /\ linked' = linked \cup {p}
       /\ stale' = Written({TxDoc(p)})
  /\ Finish(g)
  /\ UNCHANGED <<status, gateway_status, processed, ledger, wallet, active, grants,
                 usage_count, audit, revoked, hasty, firings, faults>>

(* The catch block writes 'failed' without asking the state machine. *)
GatewayRejected(g) ==
  /\ proc[g].pc = "initiate"
  /\ LET p == proc[g].pay IN
       /\ status' = [status EXCEPT ![p] = "failed"]
       /\ stale' = Written({TxDoc(p)})
  /\ Finish(g)
  /\ UNCHANGED <<charge, gateway_status, linked, processed, ledger, wallet, active, grants,
                 usage_count, audit, revoked, hasty, firings, faults>>

-----------------------------------------------------------------------------
(* The entry points that ask for a status *)

(* A gateway delivers a webhook once, twice, late or never.  The payload   *)
(* with customer details makes additional_updates non-empty.               *)
Webhook(g, p, details) ==
  /\ Serves(g, "webhook")
  /\ p \in linked
  /\ details => "details" \in Sources /\ usage_count < MaxUsage
  /\ \/ Collected(p) /\ Start(g, Update(p, "success", "WEBHOOK", details))
     \/ charge[p] = "declined"
          /\ Start(g, Update(p, "failed", "WEBHOOK", details))
  /\ UNCHANGED <<charge, docs, stale, firings, faults>>

(* processRedirect answers 'failed' for a cancelled visit and for every    *)
(* error of its own, whatever the charge came to; Stripe answers 'success' *)
(* for the session that the visit names, be it this payment's or another's.*)
PaymentRedirect(g, p) ==
  /\ Serves(g, "redirect")
  /\ status[p] # "none" /\ charge[p] # "none"
  /\ \/ /\ \E q \in Payments : Collected(q)
        /\ Start(g, Update(p, "success", "REDIRECT", FALSE))
     \/ Start(g, Update(p, "failed", "REDIRECT", FALSE))
  /\ UNCHANGED <<charge, docs, stale, firings, faults>>

UpdatePayment(g, p, target) ==
  /\ Serves(g, "admin")
  /\ status[p] # "none"
  /\ Start(g, Update(p, target, "SYSTEM", FALSE))
  /\ UNCHANGED <<charge, docs, stale, firings, faults>>

(* verifyPayment reads the transaction, awaits the gateway, then decides   *)
(* with the status it read before.                                         *)
VerifyStart(g, p) ==
  /\ Serves(g, "verify")
  /\ p \in linked
  /\ Start(g, [Idle EXCEPT !.pc = "verify", !.pay = p, !.seen = status[p],
                           !.answer = gateway_status[p]])
  /\ UNCHANGED <<charge, docs, stale, firings, faults>>

VerifyAnswer(g) ==
  /\ proc[g].pc = "verify"
  /\ LET p == proc[g].pay
         seen == proc[g].seen
         paid == Collected(p)
         target == IF paid THEN "success" ELSE "failed"
     IN
       /\ IF proc[g].answer = charge[p]
          THEN UNCHANGED <<gateway_status, stale>>
          ELSE /\ gateway_status' = [gateway_status EXCEPT ![p] = charge[p]]
               /\ stale' = Written({TxDoc(p)})
       /\ IF seen \in {target, "refunded"}
          THEN Finish(g)
          ELSE proc' = [proc EXCEPT ![g] =
                          [Update(p, target, "MANUAL_VERIFICATION", ~paid)
                             EXCEPT !.answer = charge[p]]]
  /\ UNCHANGED <<charge, status, linked, processed, ledger, wallet, active,
                 grants, usage_count, audit, revoked, hasty, firings, faults>>

(* reconcilePendingTransactions, for one transaction of its batch; run by  *)
(* the cron and by POST /reconcile.  Its query takes payments created      *)
(* between 24 hours and 15 minutes ago: the cron finds a payment a limited *)
(* number of times, and afterwards nobody does.                            *)
Selected(p) == status[p] = "pending" /\ p \in linked

Fires(p) == firings[p] > 0 /\ firings' = [firings EXCEPT ![p] = @ - 1]

ReconcileStart(g, p) ==
  /\ "reconcile" \in Sources
  /\ firings[p] > 0 /\ Selected(p)
  /\ Start(g, [Idle EXCEPT !.pc = "reconcile", !.pay = p])
  /\ g \in Crons => Fires(p)
  /\ g \notin Crons => UNCHANGED firings
  /\ UNCHANGED <<charge, docs, stale, faults>>

(* A firing that does not select p, or that no worker was up for.          *)
FiringPasses(p) ==
  /\ Fires(p)
  /\ \/ ~Selected(p) /\ faults' = faults
     \/ faults < MaxFaults /\ faults' = faults + 1
  /\ UNCHANGED <<charge, docs, proc, stale>>

ReconcileTargetsHasty(p) ==    \* mutant: whatever is not paid has failed
  IF Collected(p) THEN {"success"} ELSE {"failed"}
ReconcileTargets(p) ==
  IF Collected(p) THEN {"success"}
  ELSE IF charge[p] = "declined" THEN {"failed"} ELSE {}

ReconcileAnswer(g) ==
  /\ proc[g].pc = "reconcile"
  /\ LET p == proc[g].pay IN
       \/ \E target \in ReconcileTargets(p) :
            proc' = [proc EXCEPT ![g] =
                       Update(p, target, "RECONCILIATION_JOB", FALSE)]
       \/ ReconcileTargets(p) = {} /\ Finish(g)
  /\ UNCHANGED <<charge, docs, stale, firings, faults>>

-----------------------------------------------------------------------------
(* updatePaymentTransactionStatus *)

(* Validated, and not returned early because there is nothing to write. *)
NeedsWriteUnvalidated(current, s) ==        \* mutant: validate is not called
  current # s.target \/ s.details
NeedsWrite(current, s) ==
  /\ CanTransition(current, s.target)
  /\ current # s.target \/ s.details

ReadStatus(g) ==
  /\ proc[g].pc = "read"
  /\ LET s == proc[g]
         current == status[s.pay]
     IN IF NeedsWrite(current, s)
        THEN proc' = [proc EXCEPT ![g].pc = "write", ![g].seen = current]
        ELSE Finish(g)
  /\ UNCHANGED <<charge, docs, stale, firings, faults>>

(* These write 'failed' for a session the customer may still pay. *)
HastySources == {"REDIRECT", "MANUAL_VERIFICATION"}

(* The write is findByIdAndUpdate by id alone.  The audit row is created   *)
(* without await; the schema rejects a source outside its enum.            *)
WriteStatus(g) ==
  /\ proc[g].pc = "write"
  /\ LET s == proc[g] IN
       /\ status' = [status EXCEPT ![s.pay] = s.target]
       /\ audit' = IF s.source \in AuditSources
                   THEN [audit EXCEPT ![s.pay] = s.target]
                   ELSE audit
       /\ gateway_status' =
            IF s.details /\ s.source = "MANUAL_VERIFICATION"
            THEN [gateway_status EXCEPT ![s.pay] = s.answer] ELSE gateway_status
       /\ hasty' = IF s.target = "failed" /\ s.source \in HastySources
                   THEN hasty \cup {s.pay} ELSE hasty
       /\ stale' = Written({TxDoc(s.pay)})
       /\ IF s.target = "success" THEN Goto(g, "begin") ELSE Finish(g)
  /\ UNCHANGED <<charge, linked, processed, ledger, wallet, active, grants,
                 usage_count, revoked, firings, faults>>

-----------------------------------------------------------------------------
(* handlePaymentCompleted and assignPackage, in one Mongo transaction *)

SettledUnchecked(p) == TRUE                 \* mutant: status is not re-read
Settled(p) == status[p] = "success"

(* existingLog *)
AlreadyAssignedNever(p) == FALSE            \* mutant: no existingLog check
AlreadyAssignedByUser(p) ==                 \* mutant: looked up by user
  \E q \in Payments : Owner[q] = Owner[p]
AlreadyAssigned(p) == ledger[p] > 0

ConsumerBegin(g) ==
  /\ proc[g].pc = "begin"
  /\ LET p == proc[g].pay IN
       IF Settled(p)
       THEN proc' = [proc EXCEPT ![g].pc = "commit",
                                 ![g].credited = AlreadyAssigned(p),
                                 ![g].subs = active[Owner[p]]]
       ELSE Finish(g)
  /\ stale' = stale \ {g}
  /\ UNCHANGED <<charge, docs, firings, faults>>

(* createSubscription cancels the subscriptions its snapshot shows active. *)
AssignPackage(s) ==
  LET p == s.pay
      u == Owner[p]
  IN IF s.credited
     THEN UNCHANGED <<wallet, active, grants, ledger>>
     ELSE /\ IdsCast
          /\ wallet' = [wallet EXCEPT ![u] = @ + PackageCredits]
          /\ active' = [active EXCEPT ![u] = (@ \ s.subs) \cup {p}]
          /\ grants' = [grants EXCEPT ![p] = IF @ = "none" THEN "active" ELSE @]
          /\ ledger' = [ledger EXCEPT ![p] = @ + 1]

(* A failed attempt is repeated up to max_attempts. *)
NextAttempt(g) ==
  IF proc[g].attempt < MaxAttempts
  THEN proc' = [proc EXCEPT ![g].pc = "begin", ![g].attempt = @ + 1,
                            ![g].credited = FALSE, ![g].subs = {}]
  ELSE Finish(g)

(* The answer of a commit can be lost: applied, it looks like a failure.   *)
ConsumerCommit(g) ==
  /\ proc[g].pc = "commit"
  /\ g \notin stale
  /\ LET s == proc[g] IN
       /\ AssignPackage(s)
       /\ usage_count' = IF s.pay \in Discounted THEN usage_count + 1
                         ELSE usage_count
       /\ processed' = processed \cup {s.pay}
       /\ stale' = Written(SettlementDocs(s.pay, s.credited)) \ {g}
  /\ \/ Finish(g) /\ faults' = faults
     \/ faults < MaxFaults /\ faults' = faults + 1 /\ NextAttempt(g)
  /\ UNCHANGED <<charge, status, gateway_status, linked, audit, revoked, hasty, firings>>

ConsumerAborted(g) ==
  /\ proc[g].pc = "commit"
  /\ \/ g \in stale /\ faults' = faults
     \/ ~IdsCast /\ ~proc[g].credited /\ faults' = faults
     \/ faults < MaxFaults /\ faults' = faults + 1

ConsumerAbortCounted(g) ==   \* mutant: the coupon is counted outside the session
  /\ ConsumerAborted(g)
  /\ NextAttempt(g)
  /\ usage_count' = usage_count + 1
  /\ stale' = stale \ {g}
  /\ UNCHANGED <<charge, status, gateway_status, linked, processed, ledger, wallet, active,
                 grants, audit, revoked, hasty, firings>>
ConsumerAbort(g) ==
  /\ ConsumerAborted(g)
  /\ NextAttempt(g)
  /\ stale' = stale \ {g}
  /\ UNCHANGED <<charge, docs, firings>>

(* retryUnprocessedPaymentConsumers, for one transaction of its batch: one *)
(* call of the consumer and no inline retry.                               *)
UnprocessedPending(p) ==                    \* mutant: the wrong status is selected
  status[p] = "pending" /\ p \notin processed
Unprocessed(p) == status[p] = "success" /\ p \notin processed

RetryStart(g, p) ==
  /\ g \in Crons
  /\ Unprocessed(p)
  /\ Start(g, [Idle EXCEPT !.pc = "begin", !.pay = p, !.target = "success",
                           !.attempt = MaxAttempts])
  /\ UNCHANGED <<charge, docs, stale, firings, faults>>

-----------------------------------------------------------------------------
(* initiateRefund and revokePackageCredits *)

RefundStart(g, p) ==
  /\ Serves(g, "refund")
  /\ status[p] = "success" /\ p \in linked
  /\ Start(g, [Idle EXCEPT !.pc = "refund_call", !.pay = p,
                           !.target = "refunded", !.details = TRUE])
  /\ UNCHANGED <<charge, docs, stale, firings, faults>>

(* The gateway is asked first; it refunds a collected charge in full once. *)
RefundSucceedsUnchecked(p) == TRUE          \* mutant: the answer is not looked at
RefundSucceeds(p) == charge[p] = "paid"

RefundCall(g) ==
  /\ proc[g].pc = "refund_call"
  /\ LET p == proc[g].pay IN
       /\ charge' = [charge EXCEPT ![p] = IF @ = "paid" THEN "refunded" ELSE @]
       /\ IF RefundSucceeds(p) THEN Goto(g, "refund_begin") ELSE Finish(g)
  /\ UNCHANGED <<docs, stale, firings, faults>>

RefundBegin(g) ==
  /\ proc[g].pc = "refund_begin"
  /\ LET p == proc[g].pay IN
       IF CanTransition(status[p], "refunded")
       THEN proc' = [proc EXCEPT ![g].pc = "refund_commit",
                                 ![g].seen = status[p]]
       ELSE Finish(g)
  /\ stale' = stale \ {g}
  /\ UNCHANGED <<charge, docs, firings, faults>>

RevokePackageCredits(p) ==
  /\ wallet' = [wallet EXCEPT ![Owner[p]] = @ - PackageCredits]
  /\ grants' = [grants EXCEPT ![p] = IF @ = "none" THEN @ ELSE "inactive"]
  /\ revoked' = [revoked EXCEPT ![p] = @ + 1]

RefundCommit(g) ==
  /\ proc[g].pc = "refund_commit"
  /\ g \notin stale
  /\ LET p == proc[g].pay IN
       /\ RevokePackageCredits(p)
       /\ status' = [status EXCEPT ![p] = "refunded"]
       /\ stale' = Written(RefundDocs(p)) \ {g}
  /\ Finish(g)
  /\ UNCHANGED <<charge, gateway_status, linked, processed, ledger, active, usage_count,
                 audit, hasty, firings, faults>>

(* The transaction aborts; nothing undoes the gateway's refund. *)
RefundAbort(g) ==
  /\ proc[g].pc = "refund_commit"
  /\ \/ g \in stale /\ faults' = faults
     \/ faults < MaxFaults /\ faults' = faults + 1
  /\ Finish(g)
  /\ stale' = stale \ {g}
  /\ UNCHANGED <<charge, docs, firings>>

-----------------------------------------------------------------------------
(* A worker process dies: its handler is gone, its transaction is aborted. *)
Crash(g) ==
  /\ proc[g].pc # "idle"
  /\ faults < MaxFaults
  /\ faults' = faults + 1
  /\ Finish(g)
  /\ stale' = stale \ {g}
  /\ UNCHANGED <<charge, docs, firings>>

(* A step a handler in flight owes. *)
Step(g) ==
  \/ GatewayOpened(g)  \/ GatewayRejected(g)
  \/ VerifyAnswer(g)   \/ ReconcileAnswer(g)
  \/ ReadStatus(g)     \/ WriteStatus(g)
  \/ ConsumerBegin(g)  \/ ConsumerCommit(g) \/ ConsumerAbort(g)
  \/ RefundCall(g)     \/ RefundBegin(g)
  \/ RefundCommit(g)   \/ RefundAbort(g)

(* A request that may arrive. *)
Request(g, p) ==
  \/ InitiatePayment(g, p)
  \/ \E details \in BOOLEAN : Webhook(g, p, details)
  \/ PaymentRedirect(g, p)
  \/ \E target \in AdminTargets : UpdatePayment(g, p, target)
  \/ VerifyStart(g, p)
  \/ RefundStart(g, p)

Next ==
  \/ \E p \in Payments : CustomerPays(p) \/ ChargeDeclined(p) \/ FiringPasses(p)
  \/ \E g \in Handlers :
       \/ Step(g)
       \/ Crash(g)
       \/ \E p \in Payments :
            Request(g, p) \/ ReconcileStart(g, p) \/ RetryStart(g, p)

Spec == Init /\ [][Next]_vars

(* The event loop runs what it started, and both cron timers fire again    *)
(* and again: a transaction their query selects is picked up if it stays,  *)
(* or keeps coming back, in the selection.  The reconciliation's query     *)
(* loses a payment after its last firing, the retry's never does.          *)
Fairness ==
  /\ \A g \in Handlers : WF_vars(Step(g))
  /\ \A g \in Crons, p \in Payments :
       SF_vars(ReconcileStart(g, p)) /\ SF_vars(RetryStart(g, p))

FairSpec == Spec /\ Fairness

-----------------------------------------------------------------------------
(* Safety *)

(* However many deliveries, verifications, jobs and retries of a payment   *)
(* run at once, its credits are added to the wallet at most once           *)
(* (assignPackage's existingLog check inside the consumer's transaction).  *)
CreditedAtMostOnce == \A p \in Payments : ledger[p] <= 1

(* consumer_processed is set exactly when the credits were added: the cron *)
(* neither forgets a payment nor sees one twice.                           *)
ProcessedIffCredited ==
  \A p \in Payments : p \in processed <=> ledger[p] > 0

(* Two payments of one user settled at the same time still leave one       *)
(* active subscription (createSubscription's cancel-then-insert).          *)
OneActiveSubscription ==
  \A u \in Users : \A p, q \in active[u] : p = q

(* A consumer transaction that can still commit decides on the present: the *)
(* status, the ledger row and, unless it will leave them alone, the         *)
(* subscriptions its snapshot showed are those of now.                      *)
SnapshotCurrent(g) ==
  proc[g].pc = "commit" /\ g \notin stale =>
    LET s == proc[g] IN
      /\ status[s.pay] = "success"
      /\ s.credited <=> ledger[s.pay] > 0
      /\ ~s.credited => s.subs = active[Owner[s.pay]]
SnapshotsCurrent == \A g \in Handlers : SnapshotCurrent(g)

(* initiateRefund takes a payment's credits back at most once, and only    *)
(* when the gateway did return the money.                                  *)
RevokedAtMostOnce == \A p \in Payments : revoked[p] <= 1
RevokedOnlyIfRefunded ==
  \A p \in Payments : revoked[p] > 0 => charge[p] = "refunded"

(* A refund past the gateway's answer is the only one of its payment, and  *)
(* nothing has been taken back for it yet.                                 *)
Refunding(g) == proc[g].pc \in {"refund_begin", "refund_commit"}
OneRefundInFlight ==
  \A g \in Handlers : Refunding(g) =>
    /\ charge[proc[g].pay] = "refunded"
    /\ revoked[proc[g].pay] = 0
    /\ \A k \in Handlers :
         Refunding(k) /\ proc[k].pay = proc[g].pay => k = g

-----------------------------------------------------------------------------
(* Action properties *)

(* The commit that adds credits happens while the payment is settled: a    *)
(* refund or a late failure between the consumer's read and its commit     *)
(* makes the commit fail (handlePaymentCompleted).                         *)
CreditsWhileSettled ==
  [][\A p \in Payments : ledger'[p] # ledger[p] =>
        status[p] = "success" /\ status'[p] = "success"]_vars

(* PaymentStateMachine: a stored status leaves its transitions only when    *)
(* the handler that writes decided from a status that somebody replaced in *)
(* between (updatePaymentTransactionStatus, initiatePayment).              *)
DecidedFrom(g) == IF proc[g].pc = "initiate" THEN "pending" ELSE proc[g].seen
IllegalOnlyIfStale ==
  [][\A p \in Payments :
       status[p] \in Statuses /\ ~CanTransition(status[p], status'[p]) =>
         \E g \in Handlers : /\ proc[g].pc \in {"initiate", "write"}
                             /\ proc[g].pay = p
                             /\ DecidedFrom(g) # status[p]]_vars

-----------------------------------------------------------------------------
(* Refinement *)

Ledger == INSTANCE Settlement WITH
            credited <- {p \in Payments : ledger[p] > 0},
            returned <- {p \in Payments : revoked[p] > 0},
            balance  <- wallet

(* Wallet balances move as Settlement allows and in no other way: the rows *)
(* of the ledger account for every credit in the wallet.                   *)
SettlesLedger == Ledger!Spec

-----------------------------------------------------------------------------
(* Liveness *)

(* A settled payment is processed by the inline attempts or by the cron,   *)
(* unless its status changes again (retryUnprocessedPaymentConsumers).     *)
SettledIsProcessed ==
  \A p \in Payments : status[p] = "success" ~>
                        (p \in processed \/ status[p] # "success")

(* A customer who paid while the reconciliation cron has more firings for  *)
(* the payment than go wrong is credited, or has the money back, even when *)
(* every webhook is lost; the exception is the payment that a visit or a   *)
(* verification had declared failed (reconcilePendingTransactions).        *)
PaidIsCredited ==
  \A p \in Payments :
    charge[p] = "paid" /\ firings[p] > MaxFaults ~>
      \/ ledger[p] > 0 \/ charge[p] = "refunded"
      \/ status[p] = "failed" /\ p \in hasty
=============================================================================
