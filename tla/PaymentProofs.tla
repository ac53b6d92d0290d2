--------------------------- MODULE PaymentProofs ---------------------------
(***************************************************************************)
(* Payment's safety, and Payment as an implementation of Settlement, for   *)
(* any number of payments, users, requests and crons; then the limit of a  *)
(* coupon, and what of Payment still holds next to its validation.         *)
(***************************************************************************)
EXTENDS Coupons, Sums, FiniteSetTheorems, TLAPS

(* A default payment exists, so the idle record is a handler state. *)
LEMMA IdleType == Idle \in ProcStates
BY SetsAssumption, NumbersAssumption
   DEF Idle, ProcStates, Pcs, Statuses, AuditSources, Charges

LEMMA IdlePc == Idle.pc = "idle"
BY DEF Idle

LEMMA UpdateType ==
  ASSUME NEW p \in Payments, NEW target \in Statuses, NEW details \in BOOLEAN,
         NEW source \in AuditSources \cup {"REDIRECT", "MANUAL_VERIFICATION",
                                           "RECONCILIATION_JOB"}
  PROVE  /\ Update(p, target, source, details) \in ProcStates
         /\ Update(p, target, source, details).pc = "read"
<1>1. Update(p, target, source, details) \in ProcStates
  BY IdleType DEF Update, ProcStates, Pcs
<1>2. Update(p, target, source, details).pc = "read"
  BY IdleType DEF Update, ProcStates
<1> QED
  BY <1>1, <1>2

LEMMA FinishType ==
  ASSUME TypeOK, NEW g \in Handlers, Finish(g)
  PROVE  proc' \in [Handlers -> ProcStates]
BY IdleType DEF TypeOK, Finish

LEMMA GotoType ==
  ASSUME TypeOK, NEW g \in Handlers, NEW pc \in Pcs, Goto(g, pc)
  PROVE  proc' \in [Handlers -> ProcStates]
<1>1. [proc[g] EXCEPT !.pc = pc] \in ProcStates
  BY DEF TypeOK, ProcStates
<1> QED
  BY <1>1 DEF TypeOK, Goto

LEMMA StartType ==
  ASSUME TypeOK, NEW g \in Handlers, NEW s \in ProcStates, Start(g, s)
  PROVE  proc' \in [Handlers -> ProcStates]
BY DEF TypeOK, Start

LEMMA NextAttemptType ==
  ASSUME TypeOK, NEW g \in Handlers, NextAttempt(g) \/ Finish(g)
  PROVE  \E s \in ProcStates :
           /\ proc' = [proc EXCEPT ![g] = s]
           /\ proc'[g] = s /\ \A k \in Handlers \ {g} : proc'[k] = proc[k]
           /\ \/ s = Idle
              \/ s.pc = "begin" /\ s.pay = proc[g].pay
<1>1. proc[g] \in ProcStates /\ proc \in [Handlers -> ProcStates]
  BY DEF TypeOK
<1>2. CASE Finish(g)
  BY <1>1, <1>2, IdleType DEF Finish
<1>3. CASE NextAttempt(g) /\ proc[g].attempt < MaxAttempts
  <2> DEFINE s == [proc[g] EXCEPT !.pc = "begin",
                                  !.attempt = proc[g].attempt + 1,
                                  !.credited = FALSE, !.subs = {}]
  <2>1. proc[g].attempt + 1 \in 1..MaxAttempts
    BY <1>1, <1>3, NumbersAssumption DEF ProcStates
  <2>2. s \in ProcStates /\ s.pc = "begin" /\ s.pay = proc[g].pay
    BY <1>1, <2>1 DEF ProcStates, Pcs
  <2>3. proc' = [proc EXCEPT ![g] = s]
    BY <1>3 DEF NextAttempt
  <2> HIDE DEF s
  <2>4. proc'[g] = s /\ \A k \in Handlers \ {g} : proc'[k] = proc[k]
    BY <1>1, <2>3
  <2> QED
    BY <2>2, <2>3, <2>4
<1> QED
  BY <1>2, <1>3 DEF NextAttempt

LEMMA WrittenType ==
  ASSUME TypeOK, NEW ds
  PROVE  Written(ds) \subseteq Handlers
BY DEF TypeOK, Written

LEMMA InitType == Init => TypeOK
BY IdleType, SetsAssumption DEF Init, TypeOK, Statuses, Charges

LEMMA InitiateType ==
  ASSUME TypeOK, NEW g \in Handlers, NEW p \in Payments, InitiatePayment(g, p)
  PROVE  TypeOK'
<1>1. [Idle EXCEPT !.pc = "initiate", !.pay = p] \in ProcStates
  BY IdleType DEF ProcStates, Pcs
<1>2. proc' \in [Handlers -> ProcStates]
  BY <1>1, StartType DEF InitiatePayment
<1> QED
  BY <1>2, NumbersAssumption DEF TypeOK, InitiatePayment, Statuses

LEMMA OpenedType ==
  ASSUME TypeOK, NEW g \in Handlers, GatewayOpened(g)
  PROVE  TypeOK'
<1>1. proc[g].pay \in Payments
  BY DEF TypeOK, ProcStates
<1> QED
  BY <1>1, FinishType, WrittenType DEF TypeOK, GatewayOpened, Charges

LEMMA RejectedType ==
  ASSUME TypeOK, NEW g \in Handlers, GatewayRejected(g)
  PROVE  TypeOK'
<1>1. proc[g].pay \in Payments
  BY DEF TypeOK, ProcStates
<1> QED
  BY <1>1, FinishType, WrittenType DEF TypeOK, GatewayRejected, Statuses

LEMMA FiresType ==
  ASSUME TypeOK, NEW p \in Payments, Fires(p)
  PROVE  firings' \in [Payments -> Nat]
<1>1. firings[p] \in Nat /\ firings[p] - 1 \in Nat
  BY DEF TypeOK, Fires
<1> QED
  BY <1>1 DEF TypeOK, Fires

(* The entry points change nothing but the handler that starts and the     *)
(* firings that are left.                                                  *)
LEMMA EntryType ==
  ASSUME TypeOK, NEW g \in Handlers, NEW p \in Payments,
         \/ \E details \in BOOLEAN : Webhook(g, p, details)
         \/ PaymentRedirect(g, p)
         \/ \E target \in AdminTargets : UpdatePayment(g, p, target)
         \/ VerifyStart(g, p)
         \/ RefundStart(g, p)
         \/ ReconcileStart(g, p)
         \/ RetryStart(g, p)
  PROVE  TypeOK'
<1>1. AdminTargets \subseteq Statuses
  BY SetsAssumption
<1>2. MaxAttempts \in 1..MaxAttempts
  BY NumbersAssumption
<1>3. \A t \in Statuses : \A d \in BOOLEAN :
        \A src \in {"WEBHOOK", "REDIRECT", "SYSTEM"} :
          Update(p, t, src, d) \in ProcStates
  BY UpdateType DEF AuditSources
<1>4. [Idle EXCEPT !.pc = "verify", !.pay = p, !.seen = status[p],
                   !.answer = gateway_status[p]] \in ProcStates
  BY IdleType DEF TypeOK, ProcStates, Pcs
<1>5. [Idle EXCEPT !.pc = "refund_call", !.pay = p, !.target = "refunded",
                   !.details = TRUE] \in ProcStates
  BY IdleType DEF ProcStates, Pcs, Statuses
<1>6. [Idle EXCEPT !.pc = "reconcile", !.pay = p] \in ProcStates
  BY IdleType DEF ProcStates, Pcs
<1>7. [Idle EXCEPT !.pc = "begin", !.pay = p, !.target = "success",
                   !.attempt = MaxAttempts] \in ProcStates
  BY IdleType, <1>2 DEF ProcStates, Pcs, Statuses
<1>8. \E s \in ProcStates : Start(g, s)
  BY <1>1, <1>3, <1>4, <1>5, <1>6, <1>7
     DEF Webhook, PaymentRedirect, UpdatePayment, VerifyStart, RefundStart,
         ReconcileStart, RetryStart, Statuses
<1>9. proc' \in [Handlers -> ProcStates]
  BY <1>8, StartType
<1>10. UNCHANGED <<charge, docs, stale, faults>>
  BY DEF Webhook, PaymentRedirect, UpdatePayment, VerifyStart, RefundStart,
         ReconcileStart, RetryStart
<1>11. firings' \in [Payments -> Nat]
  <2>1. CASE firings' = firings
    BY <2>1 DEF TypeOK
  <2>2. CASE Fires(p)
    BY <2>2, FiresType
  <2> QED
    BY <2>1, <2>2
       DEF Webhook, PaymentRedirect, UpdatePayment, VerifyStart, RefundStart,
           ReconcileStart, RetryStart
<1> QED
  BY <1>9, <1>10, <1>11 DEF TypeOK, docs

(* What a verification leaves of its handler: nothing, or an update. *)
LEMMA VerifyAnswerStep ==
  ASSUME TypeOK, NEW g \in Handlers, VerifyAnswer(g)
  PROVE  \E s \in ProcStates :
           /\ proc' = [proc EXCEPT ![g] = s]
           /\ s = Idle \/ s.pc = "read"
<1> DEFINE p == proc[g].pay
           target == IF Collected(p) THEN "success" ELSE "failed"
           u == Update(p, target, "MANUAL_VERIFICATION", ~Collected(p))
           s == [u EXCEPT !.answer = charge[p]]
<1>1. p \in Payments /\ target \in Statuses /\ charge[p] \in Charges
  BY DEF TypeOK, ProcStates, Statuses
<1>2. u \in ProcStates /\ u.pc = "read"
  BY <1>1, UpdateType DEF Collected
<1>3. s \in ProcStates /\ s.pc = "read"
  <2> HIDE DEF u
  <2> QED
    BY <1>1, <1>2 DEF ProcStates
<1>4. Finish(g) \/ proc' = [proc EXCEPT ![g] = s]
  BY DEF VerifyAnswer
<1> QED
  BY <1>3, <1>4, IdleType DEF Finish

LEMMA VerifyAnswerType ==
  ASSUME TypeOK, NEW g \in Handlers, VerifyAnswer(g)
  PROVE  TypeOK'
<1>1. proc[g].pay \in Payments
  BY DEF TypeOK, ProcStates
<1>2. proc' \in [Handlers -> ProcStates]
  BY VerifyAnswerStep DEF TypeOK
<1>3. stale' \subseteq Handlers /\ gateway_status' \in [Payments -> Charges]
  BY <1>1, WrittenType DEF VerifyAnswer, TypeOK
<1> QED
  BY <1>2, <1>3 DEF TypeOK, VerifyAnswer

LEMMA ReconcileAnswerType ==
  ASSUME TypeOK, NEW g \in Handlers, ReconcileAnswer(g)
  PROVE  TypeOK'
<1> DEFINE p == proc[g].pay
<1>1. p \in Payments
  BY DEF TypeOK, ProcStates
<1>2. proc' \in [Handlers -> ProcStates]
  <2>1. CASE Finish(g)
    BY <2>1, FinishType
  <2>2. CASE \E target \in ReconcileTargets(p) :
               proc' = [proc EXCEPT ![g] =
                          Update(p, target, "RECONCILIATION_JOB", FALSE)]
    <3>1. PICK target \in ReconcileTargets(p) :
            proc' = [proc EXCEPT ![g] =
                       Update(p, target, "RECONCILIATION_JOB", FALSE)]
      BY <2>2
    <3>2. target \in Statuses
      BY DEF ReconcileTargets, Statuses
    <3>3. Update(p, target, "RECONCILIATION_JOB", FALSE) \in ProcStates
      BY <1>1, <3>2, UpdateType
    <3> QED
      BY <3>1, <3>3 DEF TypeOK
  <2> QED
    BY <2>1, <2>2 DEF ReconcileAnswer
<1> QED
  BY <1>2 DEF TypeOK, ReconcileAnswer, docs

LEMMA ReadStatusType ==
  ASSUME TypeOK, NEW g \in Handlers, ReadStatus(g)
  PROVE  TypeOK'
<1>1. proc[g] \in ProcStates /\ status[proc[g].pay] \in Statuses \cup {"none"}
  BY DEF TypeOK, ProcStates
<1>2. [proc[g] EXCEPT !.pc = "write", !.seen = status[proc[g].pay]] \in ProcStates
  BY <1>1 DEF ProcStates, Pcs
<1>3. proc' \in [Handlers -> ProcStates]
  <2>1. CASE Finish(g)
    BY <2>1, FinishType
  <2>2. CASE proc' = [proc EXCEPT ![g].pc = "write",
                                  ![g].seen = status[proc[g].pay]]
    BY <1>2, <2>2 DEF TypeOK
  <2> QED
    BY <2>1, <2>2 DEF ReadStatus
<1> QED
  BY <1>3 DEF TypeOK, ReadStatus, docs

LEMMA WriteStatusType ==
  ASSUME TypeOK, NEW g \in Handlers, WriteStatus(g)
  PROVE  TypeOK'
<1>1. /\ proc[g].pay \in Payments /\ proc[g].target \in Statuses
      /\ proc[g].answer \in Charges
  BY DEF TypeOK, ProcStates
<1>2. proc' \in [Handlers -> ProcStates]
  BY GotoType, FinishType DEF WriteStatus, Pcs
<1>3. stale' \subseteq Handlers
  BY WrittenType DEF WriteStatus
<1>4. gateway_status' \in [Payments -> Charges] /\ hasty' \subseteq Payments
  BY <1>1 DEF TypeOK, WriteStatus
<1> QED
  BY <1>1, <1>2, <1>3, <1>4 DEF TypeOK, WriteStatus

LEMMA ConsumerBeginType ==
  ASSUME TypeOK, NEW g \in Handlers, ConsumerBegin(g)
  PROVE  TypeOK'
<1> DEFINE p == proc[g].pay
           s == [proc[g] EXCEPT !.pc = "commit", !.credited = AlreadyAssigned(p),
                                !.subs = active[Owner[p]]]
<1>1. proc[g] \in ProcStates /\ p \in Payments
  BY DEF TypeOK, ProcStates
<1>2. active[Owner[p]] \in SUBSET Payments /\ AlreadyAssigned(p) \in BOOLEAN
  BY <1>1, SetsAssumption DEF TypeOK, AlreadyAssigned
<1>3. s \in ProcStates
  BY <1>1, <1>2 DEF ProcStates, Pcs
<1>4. proc' \in [Handlers -> ProcStates]
  <2>1. CASE Finish(g)
    BY <2>1, FinishType
  <2>2. CASE proc' = [proc EXCEPT ![g].pc = "commit",
                                  ![g].credited = AlreadyAssigned(p),
                                  ![g].subs = active[Owner[p]]]
    BY <1>3, <2>2 DEF TypeOK
  <2> QED
    BY <2>1, <2>2 DEF ConsumerBegin
<1> QED
  BY <1>4 DEF TypeOK, ConsumerBegin, docs

LEMMA ConsumerCommitType ==
  ASSUME TypeOK, NEW g \in Handlers, ConsumerCommit(g)
  PROVE  TypeOK'
<1>1. proc[g].pay \in Payments /\ Owner[proc[g].pay] \in Users
  BY SetsAssumption DEF TypeOK, ProcStates
<1>2. proc' \in [Handlers -> ProcStates] /\ faults' \in Nat
  <2>1. NextAttempt(g) \/ Finish(g)
    BY DEF ConsumerCommit
  <2> QED
    BY <2>1, NextAttemptType DEF TypeOK, ConsumerCommit
<1>3. stale' \subseteq Handlers
  BY WrittenType DEF ConsumerCommit
<1>4. /\ wallet' \in [Users -> Int]
      /\ active' \in [Users -> SUBSET Payments]
      /\ grants' \in [Payments -> {"none", "active", "inactive"}]
      /\ ledger' \in [Payments -> Nat]
  BY <1>1, NumbersAssumption DEF TypeOK, ConsumerCommit, AssignPackage
<1> QED
  BY <1>1, <1>2, <1>3, <1>4 DEF TypeOK, ConsumerCommit

LEMMA ConsumerAbortType ==
  ASSUME TypeOK, NEW g \in Handlers, ConsumerAbort(g)
  PROVE  TypeOK'
<1>1. proc' \in [Handlers -> ProcStates]
  BY NextAttemptType DEF TypeOK, ConsumerAbort
<1> QED
  BY <1>1 DEF TypeOK, ConsumerAbort, ConsumerAborted, docs

LEMMA RefundType ==
  ASSUME TypeOK, NEW g \in Handlers,
         RefundCall(g) \/ RefundBegin(g) \/ RefundCommit(g) \/ RefundAbort(g)
  PROVE  TypeOK'
<1> DEFINE p == proc[g].pay
<1>1. proc[g] \in ProcStates /\ p \in Payments /\ Owner[p] \in Users
  BY SetsAssumption DEF TypeOK, ProcStates
<1>2. CASE RefundCall(g)
  <2>1. proc' \in [Handlers -> ProcStates]
    BY <1>2, GotoType, FinishType DEF RefundCall, Pcs
  <2> QED
    BY <1>1, <1>2, <2>1 DEF TypeOK, RefundCall, Charges, docs
<1>3. CASE RefundBegin(g)
  <2>1. status[p] \in Statuses \cup {"none"}
    BY <1>1 DEF TypeOK
  <2>2. [proc[g] EXCEPT !.pc = "refund_commit", !.seen = status[p]] \in ProcStates
    BY <1>1, <2>1 DEF ProcStates, Pcs
  <2>3. proc' \in [Handlers -> ProcStates]
    <3>1. CASE Finish(g)
      BY <3>1, FinishType
    <3>2. CASE proc' = [proc EXCEPT ![g].pc = "refund_commit",
                                    ![g].seen = status[p]]
      BY <2>2, <3>2 DEF TypeOK
    <3> QED
      BY <1>3, <3>1, <3>2 DEF RefundBegin
  <2> QED
    BY <1>3, <2>3 DEF TypeOK, RefundBegin, docs
<1>4. CASE RefundCommit(g)
  <2>1. proc' \in [Handlers -> ProcStates] /\ stale' \subseteq Handlers
    BY <1>4, FinishType, WrittenType DEF RefundCommit
  <2> QED
    BY <1>1, <1>4, <2>1, NumbersAssumption
       DEF TypeOK, RefundCommit, RevokePackageCredits, Statuses
<1>5. CASE RefundAbort(g)
  <2>1. proc' \in [Handlers -> ProcStates]
    BY <1>5, FinishType DEF RefundAbort
  <2> QED
    BY <1>5, <2>1, NumbersAssumption DEF TypeOK, RefundAbort, docs
<1> QED
  BY <1>2, <1>3, <1>4, <1>5

LEMMA CrashType ==
  ASSUME TypeOK, NEW g \in Handlers, Crash(g)
  PROVE  TypeOK'
<1>1. proc' \in [Handlers -> ProcStates]
  BY FinishType DEF Crash
<1> QED
  BY <1>1 DEF TypeOK, Crash, docs

LEMMA GatewayType ==
  ASSUME TypeOK, NEW p \in Payments,
         CustomerPays(p) \/ ChargeDeclined(p) \/ FiringPasses(p)
  PROVE  TypeOK'
<1>1. CASE CustomerPays(p) \/ ChargeDeclined(p)
  BY <1>1 DEF TypeOK, CustomerPays, ChargeDeclined, Charges, docs
<1>2. CASE FiringPasses(p)
  BY <1>2, FiresType DEF TypeOK, FiringPasses, docs
<1> QED
  BY <1>1, <1>2

LEMMA NextType == TypeOK /\ [Next]_vars => TypeOK'
<1> SUFFICES ASSUME TypeOK, [Next]_vars PROVE TypeOK'
  OBVIOUS
<1>1. CASE UNCHANGED vars
  BY <1>1 DEF TypeOK, vars, docs
<1>2. CASE \E p \in Payments : CustomerPays(p) \/ ChargeDeclined(p) \/ FiringPasses(p)
  BY <1>2, GatewayType
<1>3. ASSUME NEW g \in Handlers, Step(g)
      PROVE  TypeOK'
  BY <1>3, OpenedType, RejectedType, VerifyAnswerType, ReconcileAnswerType,
     ReadStatusType, WriteStatusType, ConsumerBeginType, ConsumerCommitType,
     ConsumerAbortType, RefundType DEF Step
<1>4. ASSUME NEW g \in Handlers, Crash(g)
      PROVE  TypeOK'
  BY <1>4, CrashType
<1>5. ASSUME NEW g \in Handlers, NEW p \in Payments,
             Request(g, p) \/ ReconcileStart(g, p) \/ RetryStart(g, p)
      PROVE  TypeOK'
  BY <1>5, InitiateType, EntryType DEF Request
<1> QED
  BY <1>1, <1>2, <1>3, <1>4, <1>5 DEF Next

(* Every variable keeps its type, whatever the handlers do. *)
THEOREM TypeCorrect == Spec => []TypeOK
BY InitType, NextType, PTL DEF Spec

-----------------------------------------------------------------------------
(* The consumer.  The inductive invariant adds to the promised facts that  *)
(* every transaction which can still commit has a current snapshot.        *)
SettleInv ==
  /\ CreditedAtMostOnce
  /\ ProcessedIffCredited
  /\ OneActiveSubscription
  /\ SnapshotsCurrent

(* What the snapshot of an open consumer transaction shows is not changed. *)
Undisturbed(k) ==
  LET s == proc[k] IN
    /\ status'[s.pay] = status[s.pay]
    /\ ledger'[s.pay] = ledger[s.pay]
    /\ ~s.credited => active'[Owner[s.pay]] = active[Owner[s.pay]]

LEMMA KeepSnapshots ==
  ASSUME SnapshotsCurrent, NEW g \in Handlers,
         proc'[g].pc # "commit",
         \A k \in Handlers \ {g} :
           /\ proc'[k] = proc[k]
           /\ proc[k].pc = "commit" /\ k \notin stale' =>
                k \notin stale /\ Undisturbed(k)
  PROVE  SnapshotsCurrent'
<1>1. ASSUME NEW k \in Handlers
      PROVE  SnapshotCurrent(k)'
  <2>1. CASE k = g
    BY <2>1 DEF SnapshotCurrent
  <2>2. CASE k # g
    BY <2>2 DEF SnapshotsCurrent, SnapshotCurrent, Undisturbed
  <2> QED
    BY <2>1, <2>2
<1> QED
  BY <1>1 DEF SnapshotsCurrent

(* Another write to the payment dooms the open consumer transaction.       *)
LEMMA WrittenTx ==
  ASSUME TypeOK, NEW k \in Handlers, NEW p \in Payments, NEW ds,
         proc[k].pc = "commit", TxDoc(p) \in ds, k \notin Written(ds)
  PROVE  proc[k].pay # p /\ k \notin stale
<1>1. TxnDocs(proc[k]) = SettlementDocs(proc[k].pay, proc[k].credited)
  BY DEF TxnDocs
<1>2. TxDoc(proc[k].pay) \in TxnDocs(proc[k])
  BY <1>1 DEF SettlementDocs
<1> QED
  BY <1>2 DEF Written

(* So does another write to the wallet it is about to increment.           *)
LEMMA WrittenWallet ==
  ASSUME TypeOK, NEW k \in Handlers, NEW u \in Users, NEW ds,
         proc[k].pc = "commit", ~proc[k].credited,
         WalletDoc(u) \in ds, k \notin Written(ds)
  PROVE  Owner[proc[k].pay] # u
<1>1. TxnDocs(proc[k]) = SettlementDocs(proc[k].pay, proc[k].credited)
  BY DEF TxnDocs
<1>2. WalletDoc(Owner[proc[k].pay]) \in TxnDocs(proc[k])
  BY <1>1 DEF SettlementDocs
<1> QED
  BY <1>2 DEF Written

LEMMA InitSettle == Init => SettleInv
BY DEF Init, SettleInv, CreditedAtMostOnce, ProcessedIffCredited,
       OneActiveSubscription, SnapshotsCurrent, SnapshotCurrent, Idle

(* Steps that change no document, or at most the status of one payment.    *)
LEMMA QuietSettle ==
  ASSUME TypeOK, SettleInv, NEW g \in Handlers, NEW s \in ProcStates,
         s.pc # "commit", proc' = [proc EXCEPT ![g] = s],
         UNCHANGED <<ledger, processed, active>>,
         \A k \in Handlers \ {g} :
           proc[k].pc = "commit" /\ k \notin stale' =>
             k \notin stale /\ status'[proc[k].pay] = status[proc[k].pay]
  PROVE  SettleInv'
<1>1. proc'[g].pc # "commit" /\ \A k \in Handlers \ {g} : proc'[k] = proc[k]
  BY DEF TypeOK
<1>2. SnapshotsCurrent'
  BY <1>1, KeepSnapshots DEF SettleInv, Undisturbed
<1> QED
  BY <1>2 DEF SettleInv, CreditedAtMostOnce, ProcessedIffCredited,
              OneActiveSubscription

LEMMA IdleQuiet == Idle \in ProcStates /\ Idle.pc # "commit"
BY IdleType DEF Idle

LEMMA FinishSettle ==
  ASSUME TypeOK, SettleInv, NEW g \in Handlers, Finish(g),
         stale \subseteq stale' \cup {g},
         UNCHANGED <<status, ledger, processed, active>>
  PROVE  SettleInv'
BY IdleQuiet, QuietSettle DEF Finish

LEMMA GotoSettle ==
  ASSUME TypeOK, SettleInv, NEW g \in Handlers, NEW pc \in Pcs, Goto(g, pc),
         pc # "commit", stale \subseteq stale' \cup {g},
         UNCHANGED <<status, ledger, processed, active>>
  PROVE  SettleInv'
<1>0. proc[g] \in ProcStates
  BY DEF TypeOK
<1>1. [proc[g] EXCEPT !.pc = pc] \in ProcStates
  BY <1>0 DEF ProcStates
<1>2. [proc[g] EXCEPT !.pc = pc].pc # "commit"
  BY <1>0 DEF ProcStates
<1> QED
  BY <1>1, <1>2, QuietSettle DEF Goto

LEMMA StartSettle ==
  ASSUME TypeOK, SettleInv, NEW g \in Handlers, NEW s \in ProcStates,
         s.pc # "commit", Start(g, s),
         UNCHANGED <<status, ledger, processed, active, stale>>
  PROVE  SettleInv'
BY QuietSettle DEF Start

LEMMA InitiateSettle ==
  ASSUME TypeOK, SettleInv, NEW g \in Handlers, NEW p \in Payments,
         InitiatePayment(g, p)
  PROVE  SettleInv'
<1> DEFINE s == [Idle EXCEPT !.pc = "initiate", !.pay = p]
<1>1. s \in ProcStates /\ s.pc # "commit"
  BY IdleType DEF ProcStates, Pcs
<1>2. ASSUME NEW k \in Handlers \ {g}, proc[k].pc = "commit", k \notin stale
      PROVE  status'[proc[k].pay] = status[proc[k].pay]
  <2>1. status[proc[k].pay] = "success"
    BY <1>2 DEF SettleInv, SnapshotsCurrent, SnapshotCurrent
  <2> QED
    BY <2>1 DEF InitiatePayment, TypeOK
<1> QED
  BY <1>1, <1>2, QuietSettle DEF InitiatePayment, Start

(* An entry point only sends an idle handler on its way. *)
EntryPcs == {"read", "verify", "reconcile", "begin", "refund_call"}

LEMMA EntryStart ==
  ASSUME TypeOK, NEW g \in Handlers, NEW p \in Payments,
         \/ \E details \in BOOLEAN : Webhook(g, p, details)
         \/ PaymentRedirect(g, p)
         \/ \E target \in AdminTargets : UpdatePayment(g, p, target)
         \/ VerifyStart(g, p)
         \/ RefundStart(g, p)
         \/ ReconcileStart(g, p)
         \/ RetryStart(g, p)
  PROVE  /\ \E s \in ProcStates : s.pc \in EntryPcs /\ Start(g, s)
         /\ UNCHANGED <<charge, docs, stale>>
<1>1. AdminTargets \subseteq Statuses
  BY SetsAssumption
<1>2. MaxAttempts \in 1..MaxAttempts
  BY NumbersAssumption
<1>3. \A t \in Statuses : \A d \in BOOLEAN :
        \A src \in {"WEBHOOK", "REDIRECT", "SYSTEM"} :
          /\ Update(p, t, src, d) \in ProcStates
          /\ Update(p, t, src, d).pc \in EntryPcs
  BY UpdateType DEF AuditSources, EntryPcs
<1>4. \E s \in ProcStates : s.pc \in EntryPcs /\ Start(g, s)
  <2>1. [Idle EXCEPT !.pc = "verify", !.pay = p, !.seen = status[p],
                     !.answer = gateway_status[p]] \in ProcStates
    BY IdleType DEF TypeOK, ProcStates, Pcs
  <2>2. [Idle EXCEPT !.pc = "refund_call", !.pay = p, !.target = "refunded",
                     !.details = TRUE] \in ProcStates
    BY IdleType DEF ProcStates, Pcs, Statuses
  <2>3. [Idle EXCEPT !.pc = "reconcile", !.pay = p] \in ProcStates
    BY IdleType DEF ProcStates, Pcs
  <2>4. [Idle EXCEPT !.pc = "begin", !.pay = p, !.target = "success",
                     !.attempt = MaxAttempts] \in ProcStates
    BY IdleType, <1>2 DEF ProcStates, Pcs, Statuses
  <2>5. CASE \E details \in BOOLEAN : Webhook(g, p, details)
    BY <1>3, <2>5 DEF Webhook, Statuses
  <2>6. CASE PaymentRedirect(g, p)
    BY <1>3, <2>6 DEF PaymentRedirect, Statuses
  <2>7. CASE \E target \in AdminTargets : UpdatePayment(g, p, target)
    BY <1>1, <1>3, <2>7 DEF UpdatePayment
  <2>8. CASE VerifyStart(g, p)
    BY <2>1, <2>8, IdleType DEF VerifyStart, ProcStates, EntryPcs
  <2>9. CASE RefundStart(g, p)
    BY <2>2, <2>9, IdleType DEF RefundStart, ProcStates, EntryPcs
  <2>10. CASE ReconcileStart(g, p)
    BY <2>3, <2>10, IdleType DEF ReconcileStart, ProcStates, EntryPcs
  <2>11. CASE RetryStart(g, p)
    BY <2>4, <2>11, IdleType DEF RetryStart, ProcStates, EntryPcs
  <2> QED
    BY <2>5, <2>6, <2>7, <2>8, <2>9, <2>10, <2>11
<1>5. UNCHANGED <<charge, docs, stale>>
  BY DEF Webhook, PaymentRedirect, UpdatePayment, VerifyStart, RefundStart,
         ReconcileStart, RetryStart
<1> QED
  BY <1>4, <1>5

LEMMA EntrySettle ==
  ASSUME TypeOK, SettleInv, NEW g \in Handlers, NEW p \in Payments,
         \/ \E details \in BOOLEAN : Webhook(g, p, details)
         \/ PaymentRedirect(g, p)
         \/ \E target \in AdminTargets : UpdatePayment(g, p, target)
         \/ VerifyStart(g, p)
         \/ RefundStart(g, p)
         \/ ReconcileStart(g, p)
         \/ RetryStart(g, p)
  PROVE  SettleInv'
BY EntryStart, StartSettle DEF docs, EntryPcs

(* Steps that write at most the payment document: whoever still can commit *)
(* afterwards is settling another payment.                                 *)
LEMMA StatusWriteSettle ==
  ASSUME TypeOK, SettleInv, NEW g \in Handlers,
         GatewayOpened(g) \/ GatewayRejected(g) \/ WriteStatus(g)
  PROVE  SettleInv'
<1> DEFINE p == proc[g].pay
<1>1. p \in Payments
  BY DEF TypeOK, ProcStates
<1>2. \E s \in ProcStates : s.pc # "commit" /\ proc' = [proc EXCEPT ![g] = s]
  <2>1. CASE Finish(g)
    BY <2>1, IdleQuiet DEF Finish
  <2>2. CASE Goto(g, "begin")
    <3>1. [proc[g] EXCEPT !.pc = "begin"] \in ProcStates
      BY DEF TypeOK, ProcStates, Pcs
    <3>2. [proc[g] EXCEPT !.pc = "begin"].pc # "commit"
      BY DEF TypeOK, ProcStates
    <3> QED
      BY <2>2, <3>1, <3>2 DEF Goto
  <2> QED
    BY <2>1, <2>2 DEF GatewayOpened, GatewayRejected, WriteStatus
<1>3. stale' = Written({TxDoc(p)})
  BY DEF GatewayOpened, GatewayRejected, WriteStatus
<1>4. ASSUME NEW k \in Handlers \ {g}, proc[k].pc = "commit", k \notin stale'
      PROVE  k \notin stale /\ status'[proc[k].pay] = status[proc[k].pay]
  <2>1. proc[k].pay # p /\ k \notin stale
    BY <1>1, <1>3, <1>4, WrittenTx
  <2>2. proc[k].pay \in Payments
    BY DEF TypeOK, ProcStates
  <2> QED
    BY <2>1, <2>2 DEF TypeOK, GatewayOpened, GatewayRejected, WriteStatus
<1>5. UNCHANGED <<ledger, processed, active>>
  BY DEF GatewayOpened, GatewayRejected, WriteStatus
<1> QED
  BY <1>2, <1>4, <1>5, QuietSettle

LEMMA AnswerSettle ==
  ASSUME TypeOK, SettleInv, NEW g \in Handlers,
         VerifyAnswer(g) \/ ReconcileAnswer(g) \/ ReadStatus(g)
  PROVE  SettleInv'
<1> DEFINE p == proc[g].pay
<1>1. /\ proc[g] \in ProcStates /\ p \in Payments
      /\ status[p] \in Statuses \cup {"none"}
  BY DEF TypeOK, ProcStates
<1>2. \A t \in Statuses : \A d \in BOOLEAN :
        \A src \in {"MANUAL_VERIFICATION", "RECONCILIATION_JOB"} :
          /\ Update(p, t, src, d) \in ProcStates
          /\ Update(p, t, src, d).pc # "commit"
  BY <1>1, UpdateType
<1>3. \E s \in ProcStates : s.pc # "commit" /\ proc' = [proc EXCEPT ![g] = s]
  <2>1. CASE Finish(g)
    BY <2>1, IdleQuiet DEF Finish
  <2>2. CASE VerifyAnswer(g)
    BY <2>2, VerifyAnswerStep, IdleQuiet
  <2>3. CASE ReconcileAnswer(g) /\ ~Finish(g)
    BY <1>2, <2>3 DEF ReconcileAnswer, ReconcileTargets, Statuses
  <2>4. CASE ReadStatus(g) /\ ~Finish(g)
    <3> DEFINE s == [proc[g] EXCEPT !.pc = "write", !.seen = status[p]]
    <3>1. s \in ProcStates /\ s.pc # "commit"
      BY <1>1 DEF ProcStates, Pcs
    <3>2. proc' = [proc EXCEPT ![g] = s]
      BY <2>4 DEF ReadStatus, TypeOK
    <3> QED
      BY <3>1, <3>2
  <2> QED
    BY <2>1, <2>2, <2>3, <2>4
<1>4. stale \subseteq stale'
  BY DEF VerifyAnswer, ReconcileAnswer, ReadStatus, Written
<1>5. UNCHANGED <<status, ledger, processed, active>>
  BY DEF VerifyAnswer, ReconcileAnswer, ReadStatus, docs
<1> QED
  BY <1>3, <1>4, <1>5, QuietSettle

LEMMA AbortSettle ==
  ASSUME TypeOK, SettleInv, NEW g \in Handlers,
         ConsumerAbort(g) \/ RefundCall(g) \/ RefundBegin(g)
           \/ RefundAbort(g) \/ Crash(g)
  PROVE  SettleInv'
<1>1. proc[g] \in ProcStates /\ proc[g].pay \in Payments
      /\ status[proc[g].pay] \in Statuses \cup {"none"}
  BY DEF TypeOK, ProcStates
<1>2. \E s \in ProcStates : s.pc # "commit" /\ proc' = [proc EXCEPT ![g] = s]
  <2>1. CASE Finish(g)
    BY <2>1, IdleQuiet DEF Finish
  <2>2. CASE ConsumerAbort(g)
    BY <2>2, NextAttemptType, IdleQuiet DEF ConsumerAbort
  <2>3. CASE RefundCall(g) /\ ~Finish(g)
    <3>1. [proc[g] EXCEPT !.pc = "refund_begin"] \in ProcStates
      BY <1>1 DEF ProcStates, Pcs
    <3>2. [proc[g] EXCEPT !.pc = "refund_begin"].pc # "commit"
      BY <1>1 DEF ProcStates
    <3> QED
      BY <2>3, <3>1, <3>2 DEF RefundCall, Goto
  <2>4. CASE RefundBegin(g) /\ ~Finish(g)
    <3> DEFINE s == [proc[g] EXCEPT !.pc = "refund_commit",
                                    !.seen = status[proc[g].pay]]
    <3>1. s \in ProcStates /\ s.pc # "commit"
      BY <1>1 DEF ProcStates, Pcs
    <3>2. proc' = [proc EXCEPT ![g] = s]
      BY <2>4 DEF RefundBegin, TypeOK
    <3> QED
      BY <3>1, <3>2
  <2> QED
    BY <2>1, <2>2, <2>3, <2>4 DEF RefundAbort, Crash
<1>3. stale \subseteq stale' \cup {g}
  BY DEF ConsumerAbort, ConsumerAborted, RefundCall, RefundBegin, RefundAbort, Crash
<1>4. UNCHANGED docs
  BY DEF ConsumerAbort, ConsumerAborted, RefundCall, RefundBegin, RefundAbort, Crash
<1> QED
  BY <1>2, <1>3, <1>4, QuietSettle DEF docs

LEMMA RefundCommitSettle ==
  ASSUME TypeOK, SettleInv, NEW g \in Handlers, RefundCommit(g)
  PROVE  SettleInv'
<1> DEFINE p == proc[g].pay
<1>1. p \in Payments
  BY DEF TypeOK, ProcStates
<1>2. ASSUME NEW k \in Handlers \ {g}, proc[k].pc = "commit", k \notin stale'
      PROVE  k \notin stale /\ status'[proc[k].pay] = status[proc[k].pay]
  <2>1. TxDoc(p) \in RefundDocs(p) /\ k \notin Written(RefundDocs(p))
    BY <1>2 DEF RefundDocs, RefundCommit
  <2>2. proc[k].pay # p /\ k \notin stale
    BY <1>1, <1>2, <2>1, WrittenTx
  <2>3. proc[k].pay \in Payments
    BY DEF TypeOK, ProcStates
  <2> QED
    BY <2>2, <2>3 DEF TypeOK, RefundCommit
<1> QED
  BY <1>2, IdleQuiet, QuietSettle DEF RefundCommit, Finish

LEMMA ConsumerBeginSettle ==
  ASSUME TypeOK, SettleInv, NEW g \in Handlers, ConsumerBegin(g)
  PROVE  SettleInv'
<1> DEFINE p == proc[g].pay
<1>1. CASE ~Settled(p)
  BY <1>1, FinishSettle DEF ConsumerBegin, docs
<1>2. CASE Settled(p)
  <2> DEFINE s == [proc[g] EXCEPT !.pc = "commit", !.credited = AlreadyAssigned(p),
                                  !.subs = active[Owner[p]]]
  <2>1. proc' = [proc EXCEPT ![g] = s]
    BY <1>2 DEF ConsumerBegin
  <2>2. s.pay = p /\ (s.credited <=> ledger[p] > 0) /\ s.subs = active[Owner[p]]
    <3>1. proc[g] \in ProcStates
      BY DEF TypeOK
    <3>2. s.pay = proc[g].pay /\ s.credited = AlreadyAssigned(p)
          /\ s.subs = active[Owner[p]]
      BY <3>1 DEF ProcStates
    <3> QED
      BY <3>2 DEF AlreadyAssigned
  <2>3. SnapshotCurrent(g)'
    BY <1>2, <2>1, <2>2 DEF TypeOK, SnapshotCurrent, ConsumerBegin, docs, Settled
  <2>4. ASSUME NEW k \in Handlers \ {g}
        PROVE  SnapshotCurrent(k)'
    BY <2>1 DEF TypeOK, SettleInv, SnapshotsCurrent, SnapshotCurrent,
                ConsumerBegin, docs
  <2> QED
    BY <2>3, <2>4 DEF SettleInv, SnapshotsCurrent, CreditedAtMostOnce,
                      ProcessedIffCredited, OneActiveSubscription,
                      ConsumerBegin, docs
<1> QED
  BY <1>1, <1>2

(* The commit itself: its snapshot is current, so a payment it credits was *)
(* not credited and the subscriptions it cancels are all there are.        *)
LEMMA ConsumerCommitSettle ==
  ASSUME TypeOK, SettleInv, NEW g \in Handlers, ConsumerCommit(g)
  PROVE  SettleInv' /\ status[proc[g].pay] = "success" /\ UNCHANGED status
<1> DEFINE s == proc[g]
           p == s.pay
           u == Owner[p]
<1>1. /\ p \in Payments /\ u \in Users /\ s.credited \in BOOLEAN
      /\ status[p] = "success"
      /\ s.credited <=> ledger[p] > 0
      /\ ~s.credited => s.subs = active[u]
  BY SetsAssumption
     DEF TypeOK, ProcStates, ConsumerCommit, SettleInv, SnapshotsCurrent,
         SnapshotCurrent
<1>2. /\ processed' = processed \cup {p}
      /\ UNCHANGED status
      /\ s.credited => UNCHANGED <<ledger, active>>
      /\ ~s.credited =>
           /\ ledger' = [ledger EXCEPT ![p] = @ + 1]
           /\ active' = [active EXCEPT ![u] = (@ \ s.subs) \cup {p}]
  BY DEF ConsumerCommit, AssignPackage
<1>3. CreditedAtMostOnce' /\ ProcessedIffCredited'
  BY <1>1, <1>2 DEF TypeOK, SettleInv, CreditedAtMostOnce, ProcessedIffCredited
<1>4. OneActiveSubscription'
  <2>1. CASE s.credited
    BY <1>2, <2>1 DEF SettleInv, OneActiveSubscription
  <2>2. CASE ~s.credited
    <3>1. active'[u] = {p} /\ \A v \in Users \ {u} : active'[v] = active[v]
      BY <1>1, <1>2, <2>2 DEF TypeOK
    <3> QED
      BY <3>1 DEF SettleInv, OneActiveSubscription
  <2> QED
    BY <2>1, <2>2
<1>5. ASSUME NEW k \in Handlers \ {g}, proc[k].pc = "commit", k \notin stale'
      PROVE  k \notin stale /\ Undisturbed(k)
  <2> DEFINE ds == SettlementDocs(p, s.credited)
  <2>1. k \notin Written(ds) /\ TxDoc(p) \in ds
    BY <1>5 DEF ConsumerCommit, SettlementDocs
  <2>2. proc[k].pay # p /\ k \notin stale
    BY <1>1, <1>5, <2>1, WrittenTx
  <2>3. proc[k].pay \in Payments /\ Owner[proc[k].pay] \in Users
    BY SetsAssumption DEF TypeOK, ProcStates
  <2>4. ASSUME ~proc[k].credited
        PROVE  active'[Owner[proc[k].pay]] = active[Owner[proc[k].pay]]
    <3>1. CASE s.credited
      BY <1>2, <3>1
    <3>2. CASE ~s.credited
      <4>1. WalletDoc(u) \in ds
        BY <3>2 DEF SettlementDocs
      <4>2. Owner[proc[k].pay] # u
        BY <1>1, <1>5, <2>1, <2>4, <4>1, WrittenWallet
      <4> QED
        BY <1>1, <1>2, <2>3, <3>2, <4>2 DEF TypeOK
    <3> QED
      BY <3>1, <3>2
  <2>5. status'[proc[k].pay] = status[proc[k].pay]
        /\ ledger'[proc[k].pay] = ledger[proc[k].pay]
    BY <1>1, <1>2, <2>2, <2>3 DEF TypeOK
  <2> QED
    BY <2>2, <2>4, <2>5 DEF Undisturbed
<1>6. proc'[g].pc # "commit" /\ \A k \in Handlers \ {g} : proc'[k] = proc[k]
  BY NextAttemptType, IdleQuiet DEF ConsumerCommit
<1>7. SnapshotsCurrent'
  BY <1>5, <1>6, KeepSnapshots DEF SettleInv
<1> QED
  BY <1>1, <1>2, <1>3, <1>4, <1>7 DEF SettleInv

LEMMA GatewaySettle ==
  ASSUME SettleInv, NEW p \in Payments,
         CustomerPays(p) \/ ChargeDeclined(p) \/ FiringPasses(p)
  PROVE  SettleInv'
BY DEF SettleInv, CreditedAtMostOnce, ProcessedIffCredited, OneActiveSubscription,
       SnapshotsCurrent, SnapshotCurrent, CustomerPays, ChargeDeclined,
              FiringPasses, docs

LEMMA NextSettle == TypeOK /\ SettleInv /\ [Next]_vars => SettleInv'
<1> SUFFICES ASSUME TypeOK, SettleInv, [Next]_vars PROVE SettleInv'
  OBVIOUS
<1>1. CASE UNCHANGED vars
  BY <1>1 DEF SettleInv, CreditedAtMostOnce, ProcessedIffCredited,
              OneActiveSubscription, SnapshotsCurrent, SnapshotCurrent, vars, docs
<1>2. CASE \E p \in Payments : CustomerPays(p) \/ ChargeDeclined(p) \/ FiringPasses(p)
  BY <1>2, GatewaySettle
<1>3. ASSUME NEW g \in Handlers, Step(g)
      PROVE  SettleInv'
  BY <1>3, StatusWriteSettle, AnswerSettle, AbortSettle, ConsumerBeginSettle,
     ConsumerCommitSettle, RefundCommitSettle DEF Step
<1>4. ASSUME NEW g \in Handlers, Crash(g)
      PROVE  SettleInv'
  BY <1>4, AbortSettle
<1>5. ASSUME NEW g \in Handlers, NEW p \in Payments,
             Request(g, p) \/ ReconcileStart(g, p) \/ RetryStart(g, p)
      PROVE  SettleInv'
  BY <1>5, InitiateSettle, EntrySettle DEF Request
<1> QED
  BY <1>1, <1>2, <1>3, <1>4, <1>5 DEF Next

LEMMA SettleInvariant == Spec => [](TypeOK /\ SettleInv)
<1>1. Init => TypeOK /\ SettleInv
  BY InitType, InitSettle
<1>2. TypeOK /\ SettleInv /\ [Next]_vars => (TypeOK /\ SettleInv)'
  BY NextType, NextSettle
<1> QED
  BY <1>1, <1>2, PTL DEF Spec

(* A payment's credits are added at most once, however many deliveries,    *)
(* verifications, jobs and retries of it run at once.                      *)
THEOREM CreditedOnce == Spec => []CreditedAtMostOnce
<1>1. SettleInv => CreditedAtMostOnce
  BY DEF SettleInv
<1> QED
  BY <1>1, SettleInvariant, PTL

(* consumer_processed and the credits go together.                         *)
THEOREM ProcessedMeansCredited == Spec => []ProcessedIffCredited
<1>1. SettleInv => ProcessedIffCredited
  BY DEF SettleInv
<1> QED
  BY <1>1, SettleInvariant, PTL

(* Concurrent settlements of one user's payments leave one subscription.   *)
THEOREM SingleSubscription == Spec => []OneActiveSubscription
<1>1. SettleInv => OneActiveSubscription
  BY DEF SettleInv
<1> QED
  BY <1>1, SettleInvariant, PTL

(* Only the consumer's commit and the refund's commit move credits.        *)
LEMMA CreditsMove ==
  ASSUME [Next]_vars
  PROVE  \/ UNCHANGED <<ledger, wallet, revoked>>
         \/ \E g \in Handlers : ConsumerCommit(g) \/ RefundCommit(g)
<1>1. CASE UNCHANGED vars \/ \E q \in Payments : CustomerPays(q) \/ ChargeDeclined(q)
                        \/ FiringPasses(q)
  BY <1>1 DEF CustomerPays, ChargeDeclined,
              FiringPasses, docs, vars
<1>2. ASSUME NEW g \in Handlers, Crash(g)
      PROVE  UNCHANGED <<ledger, wallet, revoked>>
  BY <1>2 DEF Crash, docs
<1>3. ASSUME NEW g \in Handlers, NEW q \in Payments,
             Request(g, q) \/ ReconcileStart(g, q) \/ RetryStart(g, q)
      PROVE  UNCHANGED <<ledger, wallet, revoked>>
  BY <1>3 DEF Request, InitiatePayment, Webhook, PaymentRedirect, UpdatePayment,
              VerifyStart, RefundStart, ReconcileStart, RetryStart, docs
<1>4. ASSUME NEW g \in Handlers, Step(g)
      PROVE  \/ UNCHANGED <<ledger, wallet, revoked>>
             \/ ConsumerCommit(g) \/ RefundCommit(g)
  <2>1. CASE GatewayOpened(g) \/ GatewayRejected(g) \/ WriteStatus(g)
    BY <2>1 DEF GatewayOpened, GatewayRejected, WriteStatus
  <2>2. CASE VerifyAnswer(g) \/ ReconcileAnswer(g) \/ ReadStatus(g)
               \/ ConsumerBegin(g) \/ ConsumerAbort(g) \/ RefundCall(g)
               \/ RefundBegin(g) \/ RefundAbort(g)
    BY <2>2 DEF VerifyAnswer, ReconcileAnswer, ReadStatus, ConsumerBegin,
                ConsumerAbort, ConsumerAborted, RefundCall, RefundBegin, RefundAbort, docs
  <2> QED
    BY <1>4, <2>1, <2>2 DEF Step
<1> QED
  BY <1>1, <1>2, <1>3, <1>4 DEF Next

LEMMA LedgerStep ==
  ASSUME TypeOK, [Next]_vars, NEW p \in Payments, ledger'[p] # ledger[p]
  PROVE  \E g \in Handlers : ConsumerCommit(g) /\ proc[g].pay = p
<1>1. PICK g \in Handlers : ConsumerCommit(g)
  BY CreditsMove DEF RefundCommit
<1>2. \/ ledger' = ledger
      \/ ledger' = [ledger EXCEPT ![proc[g].pay] = @ + 1]
  BY <1>1 DEF ConsumerCommit, AssignPackage
<1> QED
  BY <1>1, <1>2 DEF TypeOK

(* Credits are added only in a step whose payment is settled before and    *)
(* after: a refund or failure in between makes the commit fail.            *)
THEOREM CreditsOnlyWhileSettled == Spec => CreditsWhileSettled
<1>1. ASSUME TypeOK, SettleInv, [Next]_vars
      PROVE  [\A p \in Payments : ledger'[p] # ledger[p] =>
                 status[p] = "success" /\ status'[p] = "success"]_vars
  <2>1. ASSUME NEW p \in Payments, ledger'[p] # ledger[p]
        PROVE  status[p] = "success" /\ status'[p] = "success"
    <3>1. PICK g \in Handlers : ConsumerCommit(g) /\ proc[g].pay = p
      BY <1>1, <2>1, LedgerStep
    <3> QED
      BY <1>1, <3>1, ConsumerCommitSettle
  <2> QED
    BY <2>1
<1> QED
  BY <1>1, SettleInvariant, PTL DEF Spec, CreditsWhileSettled

-----------------------------------------------------------------------------
(* Refunds, and Payment as an implementation of Settlement.                *)

(* The gateway opens a charge once: until it answers, the payment has no   *)
(* charge and one handler is initiating it.  Without this a refunded       *)
(* charge could become open, paid and refundable again.                    *)
Opening(g) == proc[g].pc = "initiate"

OpenedOnce ==
  /\ \A p \in Payments : status[p] = "none" => charge[p] = "none"
  /\ \A g \in Handlers : Opening(g) =>
       /\ status[proc[g].pay] # "none"
       /\ charge[proc[g].pay] = "none"
       /\ \A k \in Handlers :
            Opening(k) /\ proc[k].pay = proc[g].pay => k = g

RefundInv ==
  /\ OpenedOnce
  /\ RevokedAtMostOnce
  /\ RevokedOnlyIfRefunded
  /\ OneRefundInFlight

LEMMA InitRefund == Init => RefundInv
BY DEF Init, RefundInv, OpenedOnce, Opening, RevokedAtMostOnce,
       RevokedOnlyIfRefunded, OneRefundInFlight, Refunding, Idle

(* Steps that leave charges and revocations alone and bring no handler     *)
(* nearer to one.                                                          *)
LEMMA QuietRefund ==
  ASSUME TypeOK, RefundInv, NEW g \in Handlers,
         \A k \in Handlers \ {g} : proc'[k] = proc[k],
         proc'[g].pc # "initiate",
         Refunding(g)' => Refunding(g) /\ proc'[g].pay = proc[g].pay,
         \A p \in Payments : status'[p] = "none" => status[p] = "none",
         UNCHANGED <<charge, revoked>>
  PROVE  RefundInv'
<1>1. \A k \in Handlers : proc[k].pay \in Payments
  BY DEF TypeOK, ProcStates
<1>2. \A k \in Handlers :
        Opening(k)' => k # g /\ Opening(k) /\ proc'[k] = proc[k]
  BY DEF Opening
<1>3. OpenedOnce'
  BY <1>1, <1>2 DEF RefundInv, OpenedOnce
<1>4. \A k \in Handlers :
        Refunding(k)' => Refunding(k) /\ proc'[k].pay = proc[k].pay
  BY DEF Refunding
<1>5. OneRefundInFlight'
  BY <1>4 DEF RefundInv, OneRefundInFlight
<1>6. RevokedAtMostOnce' /\ RevokedOnlyIfRefunded'
  BY DEF RefundInv, RevokedAtMostOnce, RevokedOnlyIfRefunded
<1> QED
  BY <1>3, <1>5, <1>6 DEF RefundInv

LEMMA FinishRefund ==
  ASSUME TypeOK, RefundInv, NEW g \in Handlers, Finish(g),
         \A p \in Payments : status'[p] = "none" => status[p] = "none",
         UNCHANGED <<charge, revoked>>
  PROVE  RefundInv'
<1>1. /\ \A k \in Handlers \ {g} : proc'[k] = proc[k]
      /\ proc'[g].pc # "initiate" /\ ~Refunding(g)'
  BY DEF TypeOK, Finish, Idle, Refunding
<1> QED
  BY <1>1, QuietRefund

(* A charge that was never opened has nothing to revoke.                   *)
LEMMA InitiateRefundInv ==
  ASSUME TypeOK, RefundInv, NEW g \in Handlers, NEW p \in Payments,
         InitiatePayment(g, p)
  PROVE  RefundInv'
<1>1. /\ proc'[g].pc = "initiate" /\ proc'[g].pay = p
      /\ \A k \in Handlers \ {g} : proc'[k] = proc[k]
  BY IdleType DEF TypeOK, InitiatePayment, Start, ProcStates
<1>2. /\ status[p] = "none" /\ charge[p] = "none"
      /\ status' = [status EXCEPT ![p] = "pending"]
  BY DEF InitiatePayment, RefundInv, OpenedOnce
<1>3. \A k \in Handlers : proc[k].pay \in Payments
  BY DEF TypeOK, ProcStates
<1>4. \A k \in Handlers \ {g} : Opening(k) => proc[k].pay # p
  BY <1>2 DEF RefundInv, OpenedOnce
<1>5. \A q \in Payments :
        status'[q] = IF q = p THEN "pending" ELSE status[q]
  BY <1>2 DEF TypeOK
<1>6. UNCHANGED <<charge, revoked>>
  BY DEF InitiatePayment
<1>7. OpenedOnce'
  <2>1. ASSUME NEW k \in Handlers, Opening(k)'
        PROVE  /\ status'[proc'[k].pay] # "none"
               /\ charge'[proc'[k].pay] = "none"
               /\ \A j \in Handlers :
                    Opening(j)' /\ proc'[j].pay = proc'[k].pay => j = k
    <3>1. CASE k = g
      BY <1>1, <1>2, <1>4, <1>5, <1>6, <3>1 DEF Opening
    <3>2. CASE k # g
      <4>1. Opening(k) /\ proc'[k] = proc[k] /\ proc[k].pay # p
        BY <1>1, <1>4, <2>1, <3>2 DEF Opening
      <4> QED
        BY <1>1, <1>3, <1>5, <1>6, <4>1 DEF RefundInv, OpenedOnce, Opening
    <3> QED
      BY <3>1, <3>2
  <2> QED
    BY <1>5, <1>6, <2>1 DEF RefundInv, OpenedOnce
<1>8. OneRefundInFlight'
  BY <1>1, <1>6 DEF RefundInv, OneRefundInFlight, Refunding
<1> QED
  BY <1>6, <1>7, <1>8
     DEF RefundInv, RevokedAtMostOnce, RevokedOnlyIfRefunded

LEMMA EntryRefund ==
  ASSUME TypeOK, RefundInv, NEW g \in Handlers, NEW p \in Payments,
         \/ \E details \in BOOLEAN : Webhook(g, p, details)
         \/ PaymentRedirect(g, p)
         \/ \E target \in AdminTargets : UpdatePayment(g, p, target)
         \/ VerifyStart(g, p)
         \/ RefundStart(g, p)
         \/ ReconcileStart(g, p)
         \/ RetryStart(g, p)
  PROVE  RefundInv'
<1>1. PICK s \in ProcStates : s.pc \in EntryPcs /\ Start(g, s)
  BY EntryStart
<1>2. /\ \A k \in Handlers \ {g} : proc'[k] = proc[k]
      /\ proc'[g].pc # "initiate" /\ ~Refunding(g)'
  BY <1>1 DEF TypeOK, Start, Refunding, EntryPcs
<1>3. UNCHANGED <<charge, docs>>
  BY EntryStart
<1> QED
  BY <1>2, <1>3, QuietRefund DEF docs

LEMMA OpenedRefund ==
  ASSUME TypeOK, RefundInv, NEW g \in Handlers, GatewayOpened(g)
  PROVE  RefundInv'
<1> DEFINE p == proc[g].pay
<1>1. \A k \in Handlers : proc[k].pay \in Payments
  BY DEF TypeOK, ProcStates
<1>2. /\ status[p] # "none" /\ charge[p] = "none"
      /\ \A k \in Handlers \ {g} : Opening(k) => proc[k].pay # p
  BY DEF GatewayOpened, Opening, RefundInv, OpenedOnce
<1>3. /\ \A q \in Payments : charge'[q] = IF q = p THEN "open" ELSE charge[q]
      /\ UNCHANGED <<status, revoked>>
  BY DEF GatewayOpened, TypeOK
<1>4. /\ \A k \in Handlers \ {g} : proc'[k] = proc[k]
      /\ ~Opening(g)' /\ ~Refunding(g)'
  BY DEF GatewayOpened, TypeOK, Finish, Idle, Opening, Refunding
<1>5. OpenedOnce'
  BY <1>1, <1>2, <1>3, <1>4 DEF RefundInv, OpenedOnce, Opening
<1>6. OneRefundInFlight'
  BY <1>1, <1>2, <1>3, <1>4 DEF RefundInv, OneRefundInFlight, Refunding
<1>7. RevokedAtMostOnce' /\ RevokedOnlyIfRefunded'
  BY <1>2, <1>3 DEF RefundInv, RevokedAtMostOnce, RevokedOnlyIfRefunded
<1> QED
  BY <1>5, <1>6, <1>7 DEF RefundInv

(* The gateway refunds a paid charge: none of its refunds is in flight and *)
(* nothing was revoked for it, because both need a refunded charge.        *)
LEMMA CallRefund ==
  ASSUME TypeOK, RefundInv, NEW g \in Handlers, RefundCall(g)
  PROVE  RefundInv'
<1> DEFINE p == proc[g].pay
<1>1. \A k \in Handlers : proc[k].pay \in Payments
  BY DEF TypeOK, ProcStates
<1>2. CASE charge[p] # "paid"
  <2>1. Finish(g) /\ charge' = charge /\ UNCHANGED docs
    BY <1>1, <1>2 DEF RefundCall, RefundSucceeds, TypeOK
  <2> QED
    BY <2>1, FinishRefund DEF docs
<1>3. CASE charge[p] = "paid"
  <2>1. /\ \A q \in Payments :
             charge'[q] = IF q = p THEN "refunded" ELSE charge[q]
        /\ UNCHANGED <<status, revoked>>
    BY <1>3 DEF RefundCall, TypeOK, docs
  <2>2. /\ \A k \in Handlers \ {g} : proc'[k] = proc[k]
        /\ proc'[g].pay = p /\ proc'[g].pc = "refund_begin"
    BY <1>3 DEF RefundCall, RefundSucceeds, Goto, TypeOK, ProcStates
  <2>3. revoked[p] = 0
    BY <1>1, <1>3 DEF RefundInv, RevokedOnlyIfRefunded, TypeOK
  <2>4. \A k \in Handlers : Refunding(k) => proc[k].pay # p
    BY <1>3 DEF RefundInv, OneRefundInFlight
  <2>5. OpenedOnce'
    BY <1>1, <1>3, <2>1, <2>2 DEF RefundInv, OpenedOnce, Opening
  <2>6. OneRefundInFlight'
    BY <1>1, <2>1, <2>2, <2>3, <2>4
       DEF RefundInv, OneRefundInFlight, Refunding
  <2>7. RevokedAtMostOnce' /\ RevokedOnlyIfRefunded'
    BY <2>1 DEF RefundInv, RevokedAtMostOnce, RevokedOnlyIfRefunded
  <2> QED
    BY <2>5, <2>6, <2>7 DEF RefundInv
<1> QED
  BY <1>2, <1>3

LEMMA CommitRefund ==
  ASSUME TypeOK, RefundInv, NEW g \in Handlers, RefundCommit(g)
  PROVE  RefundInv' /\ revoked[proc[g].pay] = 0
<1> DEFINE p == proc[g].pay
<1>1. \A k \in Handlers : proc[k].pay \in Payments
  BY DEF TypeOK, ProcStates
<1>2. /\ charge[p] = "refunded" /\ revoked[p] = 0
      /\ \A k \in Handlers \ {g} : Refunding(k) => proc[k].pay # p
  BY DEF RefundCommit, Refunding, RefundInv, OneRefundInFlight
<1>3. /\ \A q \in Payments :
           /\ status'[q] = IF q = p THEN "refunded" ELSE status[q]
           /\ revoked'[q] = IF q = p THEN 1 ELSE revoked[q]
      /\ UNCHANGED charge
  BY <1>1, <1>2 DEF RefundCommit, RevokePackageCredits, TypeOK
<1>4. /\ \A k \in Handlers \ {g} : proc'[k] = proc[k]
      /\ ~Opening(g)' /\ ~Refunding(g)'
  BY DEF RefundCommit, TypeOK, Finish, Idle, Opening, Refunding
<1>5. OpenedOnce'
  BY <1>1, <1>3, <1>4 DEF RefundInv, OpenedOnce, Opening
<1>6. OneRefundInFlight'
  BY <1>1, <1>2, <1>3, <1>4 DEF RefundInv, OneRefundInFlight, Refunding
<1>7. RevokedAtMostOnce' /\ RevokedOnlyIfRefunded'
  BY <1>2, <1>3 DEF RefundInv, RevokedAtMostOnce, RevokedOnlyIfRefunded
<1> QED
  BY <1>2, <1>5, <1>6, <1>7 DEF RefundInv

(* The other steps of a handler change no charge and revoke nothing, and   *)
(* a refund in flight stays the refund it was.                             *)
LEMMA StepRefund ==
  ASSUME TypeOK, RefundInv, NEW g \in Handlers, Step(g)
  PROVE  RefundInv'
<1> DEFINE p == proc[g].pay
<1>1. proc[g] \in ProcStates /\ p \in Payments /\ status[p] \in Statuses \cup {"none"}
  BY DEF TypeOK, ProcStates
<1>2. CASE GatewayOpened(g)
  BY <1>2, OpenedRefund
<1>3. CASE RefundCall(g)
  BY <1>3, CallRefund
<1>4. CASE RefundCommit(g)
  BY <1>4, CommitRefund
<1>5. CASE GatewayRejected(g)
  <2>1. \A q \in Payments : status'[q] = "none" => status[q] = "none"
    BY <1>1, <1>5 DEF GatewayRejected, TypeOK
  <2> QED
    BY <1>5, <2>1, FinishRefund DEF GatewayRejected
<1>6. CASE WriteStatus(g)
  <2>1. \A q \in Payments : status'[q] = "none" => status[q] = "none"
    BY <1>1, <1>6 DEF WriteStatus, TypeOK, ProcStates, Statuses
  <2>2. CASE Finish(g)
    BY <1>6, <2>1, <2>2, FinishRefund DEF WriteStatus
  <2>3. CASE Goto(g, "begin")
    <3>1. /\ \A k \in Handlers \ {g} : proc'[k] = proc[k]
          /\ proc'[g].pc = "begin"
      BY <1>1, <2>3 DEF TypeOK, Goto, ProcStates
    <3> QED
      BY <1>6, <2>1, <3>1, QuietRefund DEF WriteStatus, Refunding
  <2> QED
    BY <1>6, <2>2, <2>3 DEF WriteStatus
<1>7. CASE VerifyAnswer(g) \/ ConsumerAbort(g) \/ ConsumerCommit(g)
  <2>1. UNCHANGED <<charge, status, revoked>>
    BY <1>7 DEF VerifyAnswer, ConsumerAbort, ConsumerAborted, ConsumerCommit,
                AssignPackage, docs
  <2>2. PICK s \in ProcStates : /\ proc' = [proc EXCEPT ![g] = s]
                                /\ s.pc \in {"idle", "read", "begin"}
    BY <1>7, VerifyAnswerStep, NextAttemptType, IdlePc
       DEF ConsumerAbort, ConsumerCommit
  <2>3. proc'[g] = s /\ \A k \in Handlers \ {g} : proc'[k] = proc[k]
    BY <2>2 DEF TypeOK
  <2> QED
    BY <2>1, <2>2, <2>3, QuietRefund DEF Refunding
<1>8. CASE ReconcileAnswer(g) \/ ReadStatus(g) \/ ConsumerBegin(g)
             \/ RefundBegin(g) \/ RefundAbort(g)
  <2>1. UNCHANGED <<charge, docs>>
    BY <1>8 DEF ReconcileAnswer, ReadStatus, ConsumerBegin, RefundBegin, RefundAbort
  <2>2. CASE Finish(g)
    BY <2>1, <2>2, FinishRefund DEF docs
  <2>3. CASE ~Finish(g)
    <3>1. \A k \in Handlers \ {g} : proc'[k] = proc[k]
      BY <1>8 DEF ReconcileAnswer, ReadStatus, ConsumerBegin, RefundBegin,
                  RefundAbort, Finish, TypeOK
    <3>2. CASE ReconcileAnswer(g)
      <4>1. \A t \in Statuses : \A d \in BOOLEAN :
              Update(p, t, "RECONCILIATION_JOB", d).pc = "read"
        BY IdleType DEF Update, ProcStates
      <4>2. proc'[g].pc = "read"
        BY <2>3, <3>2, <4>1 DEF ReconcileAnswer, TypeOK, ReconcileTargets, Statuses
      <4> QED
        BY <2>1, <3>1, <4>2, QuietRefund DEF docs, Refunding
    <3>3. CASE ReadStatus(g) \/ ConsumerBegin(g)
      <4>1. proc'[g].pc \in {"write", "commit"}
        BY <1>1, <2>3, <3>3 DEF ReadStatus, ConsumerBegin, TypeOK, ProcStates
      <4> QED
        BY <2>1, <3>1, <4>1, QuietRefund DEF docs, Refunding
    <3>4. CASE RefundBegin(g)
      <4>1. proc'[g].pc = "refund_commit" /\ proc'[g].pay = p
        BY <1>1, <2>3, <3>4 DEF RefundBegin, TypeOK, ProcStates
      <4> QED
        BY <2>1, <3>1, <3>4, <4>1, QuietRefund DEF docs, Refunding, RefundBegin
    <3>5. CASE RefundAbort(g)
      BY <2>3, <3>5 DEF RefundAbort
    <3> QED
      BY <1>8, <3>2, <3>3, <3>4, <3>5
  <2> QED
    BY <2>2, <2>3
<1> QED
  BY <1>2, <1>3, <1>4, <1>5, <1>6, <1>7, <1>8 DEF Step

(* The customer pays, or does not, an open charge, which no refund holds.  *)
LEMMA GatewayRefund ==
  ASSUME TypeOK, RefundInv, NEW p \in Payments,
         CustomerPays(p) \/ ChargeDeclined(p) \/ FiringPasses(p)
  PROVE  RefundInv'
<1>1. /\ charge' = charge \/ /\ charge[p] = "open"
                             /\ \A q \in Payments \ {p} : charge'[q] = charge[q]
      /\ UNCHANGED <<status, revoked, proc>>
  BY DEF CustomerPays, ChargeDeclined, FiringPasses, docs, TypeOK
<1>2. \A k \in Handlers : proc[k].pay \in Payments
  BY DEF TypeOK, ProcStates
<1> QED
  BY <1>1, <1>2 DEF RefundInv, OpenedOnce, Opening, RevokedAtMostOnce,
                    RevokedOnlyIfRefunded, OneRefundInFlight, Refunding

LEMMA NextRefund == TypeOK /\ RefundInv /\ [Next]_vars => RefundInv'
<1> SUFFICES ASSUME TypeOK, RefundInv, [Next]_vars PROVE RefundInv'
  OBVIOUS
<1>1. CASE UNCHANGED vars
  BY <1>1 DEF vars, docs, RefundInv, OpenedOnce, Opening, RevokedAtMostOnce,
              RevokedOnlyIfRefunded, OneRefundInFlight, Refunding
<1>2. CASE \E p \in Payments : CustomerPays(p) \/ ChargeDeclined(p) \/ FiringPasses(p)
  BY <1>2, GatewayRefund
<1>3. ASSUME NEW g \in Handlers, Step(g) PROVE RefundInv'
  BY <1>3, StepRefund
<1>4. ASSUME NEW g \in Handlers, Crash(g) PROVE RefundInv'
  BY <1>4, FinishRefund DEF Crash, docs
<1>5. ASSUME NEW g \in Handlers, NEW p \in Payments,
             Request(g, p) \/ ReconcileStart(g, p) \/ RetryStart(g, p)
      PROVE  RefundInv'
  BY <1>5, InitiateRefundInv, EntryRefund DEF Request
<1> QED
  BY <1>1, <1>2, <1>3, <1>4, <1>5 DEF Next

LEMMA RefundInvariant == Spec => [](TypeOK /\ RefundInv)
<1>1. Init => TypeOK /\ RefundInv
  BY InitType, InitRefund
<1>2. TypeOK /\ RefundInv /\ [Next]_vars => (TypeOK /\ RefundInv)'
  BY NextType, NextRefund
<1> QED
  BY <1>1, <1>2, PTL DEF Spec

(* A payment's credits are taken back at most once, however many refunds   *)
(* of it are requested at the same time.                                   *)
THEOREM RevokedOnce == Spec => []RevokedAtMostOnce
<1>1. RefundInv => RevokedAtMostOnce
  BY DEF RefundInv
<1> QED
  BY <1>1, RefundInvariant, PTL

(* Credits are taken back only when the gateway has returned the money.    *)
THEOREM RevokedAfterRefund == Spec => []RevokedOnlyIfRefunded
<1>1. RefundInv => RevokedOnlyIfRefunded
  BY DEF RefundInv
<1> QED
  BY <1>1, RefundInvariant, PTL

(* Of the refunds of one payment, one gets past the gateway.               *)
THEOREM SingleRefund == Spec => []OneRefundInFlight
<1>1. RefundInv => OneRefundInFlight
  BY DEF RefundInv
<1> QED
  BY <1>1, RefundInvariant, PTL

-----------------------------------------------------------------------------
(* Payment implements Settlement: a commit that credits p is Credit(p), a  *)
(* commit that revokes p is Return(p), and every other step is a stutter.  *)
LEMMA InitLedger == Init => Ledger!Init
BY DEF Init, Ledger!Init

LEMMA CreditLedger ==
  ASSUME TypeOK, SettleInv, NEW g \in Handlers, ConsumerCommit(g)
  PROVE  Ledger!Next \/ UNCHANGED <<ledger, wallet, revoked>>
<1> DEFINE s == proc[g]
           p == s.pay
<1>1. p \in Payments /\ s.credited \in BOOLEAN
  BY DEF TypeOK, ProcStates
<1>2. CASE s.credited
  BY <1>2 DEF ConsumerCommit, AssignPackage
<1>3. CASE ~s.credited
  <2>1. ledger[p] = 0
    BY <1>1, <1>3 DEF ConsumerCommit, SettleInv, SnapshotsCurrent,
                      SnapshotCurrent, TypeOK
  <2>2. /\ wallet' = [wallet EXCEPT ![Owner[p]] = @ + PackageCredits]
        /\ \A q \in Payments : ledger'[q] = IF q = p THEN 1 ELSE ledger[q]
        /\ revoked' = revoked
    BY <1>1, <1>3, <2>1 DEF ConsumerCommit, AssignPackage, TypeOK
  <2>3. PICK q \in Payments : q = p
    BY <1>1
  <2>4. Ledger!Credit(q)
    BY <2>1, <2>2, <2>3 DEF Ledger!Credit, TypeOK
  <2> QED
    BY <2>4 DEF Ledger!Next
<1> QED
  BY <1>1, <1>2, <1>3

LEMMA ReturnLedger ==
  ASSUME TypeOK, RefundInv, NEW g \in Handlers, RefundCommit(g)
  PROVE  Ledger!Next
<1> DEFINE p == proc[g].pay
<1>1. p \in Payments /\ revoked[p] = 0
  BY CommitRefund DEF TypeOK, ProcStates
<1>2. /\ wallet' = [wallet EXCEPT ![Owner[p]] = @ - PackageCredits]
      /\ \A q \in Payments : revoked'[q] = IF q = p THEN 1 ELSE revoked[q]
      /\ ledger' = ledger
  BY <1>1 DEF RefundCommit, RevokePackageCredits, TypeOK
<1>3. PICK q \in Payments : q = p
  BY <1>1
<1>4. Ledger!Return(q)
  BY <1>1, <1>2, <1>3 DEF Ledger!Return, TypeOK
<1> QED
  BY <1>4 DEF Ledger!Next

(* The wallet moves as Settlement allows and in no other way.              *)
THEOREM ImplementsSettlement == Spec => SettlesLedger
<1>1. ASSUME TypeOK, SettleInv, RefundInv, [Next]_vars
      PROVE  [Ledger!Next]_<<{p \in Payments : ledger[p] > 0},
                             {p \in Payments : revoked[p] > 0}, wallet>>
  <2>1. CASE UNCHANGED <<ledger, wallet, revoked>>
    BY <2>1
  <2>2. ASSUME NEW g \in Handlers, ConsumerCommit(g) \/ RefundCommit(g)
        PROVE  Ledger!Next \/ UNCHANGED <<ledger, wallet, revoked>>
    BY <1>1, <2>2, CreditLedger, ReturnLedger
  <2> QED
    BY <1>1, <2>1, <2>2, CreditsMove
<1> QED
  BY <1>1, InitLedger, SettleInvariant, RefundInvariant, PTL
     DEF Spec, SettlesLedger, Ledger!Spec

-----------------------------------------------------------------------------
(* The state machine.  A write was legal from the status it was decided    *)
(* on; a refund that can still commit finds the payment as it was then.    *)
Decided(g) ==
  /\ proc[g].pc = "write" => CanTransition(proc[g].seen, proc[g].target)
  /\ proc[g].pc = "refund_commit" /\ g \notin stale =>
       CanTransition(status[proc[g].pay], "refunded")

DecisionInv == \A g \in Handlers : Decided(g)

LEMMA WrittenRefund ==
  ASSUME TypeOK, NEW k \in Handlers, NEW p \in Payments, NEW ds,
         proc[k].pc = "refund_commit", TxDoc(p) \in ds, k \notin Written(ds)
  PROVE  proc[k].pay # p /\ k \notin stale
<1>1. TxDoc(proc[k].pay) \in TxnDocs(proc[k])
  BY DEF TxnDocs, RefundDocs
<1> QED
  BY <1>1 DEF Written

LEMMA KeepDecisions ==
  ASSUME DecisionInv, NEW g \in Handlers, Decided(g)',
         \A k \in Handlers \ {g} :
           /\ proc'[k] = proc[k]
           /\ proc[k].pc = "refund_commit" /\ k \notin stale' =>
                k \notin stale /\ status'[proc[k].pay] = status[proc[k].pay]
  PROVE  DecisionInv'
<1>1. ASSUME NEW k \in Handlers PROVE Decided(k)'
  <2>1. CASE k = g
    BY <2>1
  <2>2. CASE k # g
    BY <2>2 DEF DecisionInv, Decided
  <2> QED
    BY <2>1, <2>2
<1> QED
  BY <1>1 DEF DecisionInv

LEMMA FinishDecided ==
  ASSUME TypeOK, NEW g \in Handlers, Finish(g)
  PROVE  Decided(g)' /\ \A k \in Handlers \ {g} : proc'[k] = proc[k]
<1>1. Idle.pc = "idle"
  BY DEF Idle
<1>2. proc'[g] = Idle /\ \A k \in Handlers \ {g} : proc'[k] = proc[k]
  BY DEF Finish, TypeOK
<1> QED
  BY <1>1, <1>2 DEF Decided

(* The steps that write the status of a payment, or its document.          *)
LEMMA WriteDecided ==
  ASSUME TypeOK, DecisionInv, NEW g \in Handlers,
         GatewayOpened(g) \/ GatewayRejected(g) \/ WriteStatus(g) \/ RefundCommit(g)
  PROVE  DecisionInv'
<1> DEFINE p == proc[g].pay
<1>1. proc[g] \in ProcStates /\ p \in Payments
  BY DEF TypeOK, ProcStates
<1>2. PICK ds : TxDoc(p) \in ds /\ stale' \in {Written(ds), Written(ds) \ {g}}
  BY DEF GatewayOpened, GatewayRejected, WriteStatus, RefundCommit, RefundDocs
<1>3. \A q \in Payments \ {p} : status'[q] = status[q]
  BY <1>1 DEF GatewayOpened, GatewayRejected, WriteStatus, RefundCommit, TypeOK
<1>4. Decided(g)' /\ \A k \in Handlers \ {g} : proc'[k] = proc[k]
  <2>1. CASE Finish(g)
    BY <2>1, FinishDecided
  <2>2. CASE Goto(g, "begin")
    <3>1. /\ proc'[g].pc = "begin"
          /\ \A k \in Handlers \ {g} : proc'[k] = proc[k]
      BY <1>1, <2>2 DEF Goto, TypeOK, ProcStates
    <3> QED
      BY <3>1 DEF Decided
  <2> QED
    BY <2>1, <2>2 DEF GatewayOpened, GatewayRejected, WriteStatus, RefundCommit
<1>5. ASSUME NEW k \in Handlers \ {g}, proc[k].pc = "refund_commit", k \notin stale'
      PROVE  k \notin stale /\ status'[proc[k].pay] = status[proc[k].pay]
  <2>1. k \notin Written(ds)
    BY <1>2, <1>5
  <2>2. proc[k].pay # p /\ k \notin stale
    BY <1>1, <1>2, <1>5, <2>1, WrittenRefund
  <2>3. proc[k].pay \in Payments
    BY DEF TypeOK, ProcStates
  <2> QED
    BY <1>3, <2>2, <2>3
<1> QED
  BY <1>4, <1>5, KeepDecisions

LEMMA StepDecided ==
  ASSUME TypeOK, DecisionInv, NEW g \in Handlers, Step(g)
  PROVE  DecisionInv'
<1>1. proc[g] \in ProcStates
  BY DEF TypeOK
<1>2. CASE GatewayOpened(g) \/ GatewayRejected(g) \/ WriteStatus(g) \/ RefundCommit(g)
  BY <1>2, WriteDecided
<1>3. CASE VerifyAnswer(g) \/ ConsumerAbort(g) \/ ConsumerCommit(g)
  <2>1. /\ UNCHANGED status
        /\ \A k \in Handlers \ {g} : k \notin stale' => k \notin stale
    BY <1>3 DEF VerifyAnswer, ConsumerAbort, ConsumerAborted, ConsumerCommit,
                docs, Written
  <2>2. PICK s \in ProcStates : /\ proc' = [proc EXCEPT ![g] = s]
                                /\ s.pc \in {"idle", "read", "begin"}
    BY <1>3, VerifyAnswerStep, NextAttemptType, IdlePc
       DEF ConsumerAbort, ConsumerCommit
  <2>3. proc'[g] = s /\ \A k \in Handlers \ {g} : proc'[k] = proc[k]
    BY <2>2 DEF TypeOK
  <2>4. Decided(g)'
    BY <2>2, <2>3 DEF Decided
  <2> QED
    BY <2>1, <2>3, <2>4, KeepDecisions
<1>4. CASE \/ ReconcileAnswer(g) \/ ReadStatus(g) \/ ConsumerBegin(g)
           \/ RefundCall(g) \/ RefundBegin(g) \/ RefundAbort(g)
  <2>1. /\ UNCHANGED status
        /\ \A k \in Handlers \ {g} : k \notin stale' => k \notin stale
    BY <1>4 DEF ReconcileAnswer, ReadStatus, ConsumerBegin, RefundCall,
                RefundBegin, RefundAbort, docs
  <2>2. CASE Finish(g)
    BY <2>1, <2>2, FinishDecided, KeepDecisions
  <2>3. CASE ~Finish(g)
    <3>1. \A k \in Handlers \ {g} : proc'[k] = proc[k]
      BY <1>4, <2>3 DEF ReconcileAnswer, ReadStatus, ConsumerBegin,
                  RefundCall, RefundBegin, RefundAbort, Goto, TypeOK
    <3>2. CASE ReconcileAnswer(g)
      <4>1. \A t \in Statuses : \A d \in BOOLEAN :
              Update(proc[g].pay, t, "RECONCILIATION_JOB", d).pc = "read"
        BY IdleType DEF Update, ProcStates
      <4>2. proc'[g].pc = "read"
        BY <2>3, <3>2, <4>1 DEF ReconcileAnswer, TypeOK, ReconcileTargets, Statuses
      <4> QED
        BY <2>1, <3>1, <4>2, KeepDecisions DEF Decided
    <3>3. CASE ReadStatus(g)
      <4>1. /\ NeedsWrite(status[proc[g].pay], proc[g])
            /\ proc' = [proc EXCEPT ![g].pc = "write", ![g].seen = status[proc[g].pay]]
        BY <2>3, <3>3 DEF ReadStatus
      <4>2. /\ proc'[g].pc = "write" /\ proc'[g].seen = status[proc[g].pay]
            /\ proc'[g].target = proc[g].target
        BY <1>1, <4>1 DEF TypeOK, ProcStates
      <4>3. Decided(g)'
        BY <4>1, <4>2 DEF Decided, NeedsWrite, CanTransition
      <4> QED
        BY <2>1, <3>1, <4>3, KeepDecisions
    <3>4. CASE ConsumerBegin(g)
      <4>1. proc'[g].pc = "commit"
        BY <1>1, <2>3, <3>4 DEF ConsumerBegin, TypeOK, ProcStates
      <4> QED
        BY <2>1, <3>1, <4>1, KeepDecisions DEF Decided
    <3>6. CASE RefundCall(g)
      <4>1. proc'[g].pc = "refund_begin"
        BY <1>1, <2>3, <3>6 DEF RefundCall, Goto, TypeOK, ProcStates
      <4> QED
        BY <2>1, <3>1, <4>1, KeepDecisions DEF Decided
    <3>7. CASE RefundBegin(g)
      <4>1. /\ CanTransition(status[proc[g].pay], "refunded")
            /\ proc'[g].pc = "refund_commit" /\ proc'[g].pay = proc[g].pay
        BY <1>1, <2>3, <3>7 DEF RefundBegin, TypeOK, ProcStates
      <4>2. Decided(g)'
        BY <2>1, <4>1 DEF Decided, CanTransition
      <4> QED
        BY <2>1, <3>1, <4>2, KeepDecisions
    <3> QED
      BY <1>4, <2>3, <3>2, <3>3, <3>4, <3>6, <3>7 DEF RefundAbort
  <2> QED
    BY <2>2, <2>3
<1> QED
  BY <1>2, <1>3, <1>4 DEF Step

LEMMA NextDecided == TypeOK /\ DecisionInv /\ [Next]_vars => DecisionInv'
<1> SUFFICES ASSUME TypeOK, DecisionInv, [Next]_vars PROVE DecisionInv'
  OBVIOUS
<1>1. CASE UNCHANGED vars \/ \E p \in Payments : CustomerPays(p) \/ ChargeDeclined(p) \/ FiringPasses(p)
  BY <1>1 DEF vars, docs, CustomerPays, ChargeDeclined, FiringPasses, DecisionInv, Decided,
              CanTransition
<1>2. ASSUME NEW g \in Handlers, Step(g)
      PROVE  DecisionInv'
  BY <1>2, StepDecided
<1>3. ASSUME NEW g \in Handlers, Crash(g)
      PROVE  DecisionInv'
  BY <1>3, FinishDecided, KeepDecisions DEF Crash, docs
<1>4. ASSUME NEW g \in Handlers, NEW p \in Payments, InitiatePayment(g, p)
      PROVE  DecisionInv'
  <2>1. /\ proc' = [proc EXCEPT ![g] = [Idle EXCEPT !.pc = "initiate", !.pay = p]]
        /\ status[p] = "none" /\ UNCHANGED stale
        /\ status' = [status EXCEPT ![p] = "pending"]
    BY <1>4 DEF InitiatePayment, Start
  <2>2. /\ proc'[g].pc = "initiate"
        /\ \A k \in Handlers \ {g} : proc'[k] = proc[k]
    BY <2>1, IdleType DEF TypeOK, ProcStates
  <2>3. ASSUME NEW k \in Handlers \ {g}, proc[k].pc = "refund_commit", k \notin stale
        PROVE  status'[proc[k].pay] = status[proc[k].pay]
    <3>1. CanTransition(status[proc[k].pay], "refunded")
      BY <2>3 DEF DecisionInv, Decided
    <3>2. proc[k].pay # p /\ proc[k].pay \in Payments
      BY <2>1, <3>1 DEF CanTransition, Statuses, TypeOK, ProcStates
    <3> QED
      BY <2>1, <3>2 DEF TypeOK
  <2> QED
    BY <2>1, <2>2, <2>3, KeepDecisions DEF Decided
<1>5. ASSUME NEW g \in Handlers, NEW p \in Payments,
             \/ \E details \in BOOLEAN : Webhook(g, p, details)
             \/ PaymentRedirect(g, p)
             \/ \E target \in AdminTargets : UpdatePayment(g, p, target)
             \/ VerifyStart(g, p)
             \/ RefundStart(g, p)
             \/ ReconcileStart(g, p)
             \/ RetryStart(g, p)
      PROVE  DecisionInv'
  <2>1. PICK s \in ProcStates : s.pc \in EntryPcs /\ Start(g, s)
    BY <1>5, EntryStart
  <2>2. UNCHANGED <<status, stale>>
    BY <1>5, EntryStart DEF docs
  <2>3. proc'[g] = s /\ \A k \in Handlers \ {g} : proc'[k] = proc[k]
    BY <2>1 DEF Start, TypeOK
  <2>4. Decided(g)'
    BY <2>1, <2>3 DEF Decided, EntryPcs
  <2> QED
    BY <2>2, <2>3, <2>4, KeepDecisions
<1> QED
  BY <1>1, <1>2, <1>3, <1>4, <1>5 DEF Next, Request

(* Who writes the status of a payment. *)
LEMMA StatusStep ==
  ASSUME TypeOK, [Next]_vars, NEW p \in Payments, status'[p] # status[p]
  PROVE  \E g \in Handlers :
           \/ InitiatePayment(g, p)
           \/ /\ proc[g].pay = p
              /\ GatewayRejected(g) \/ WriteStatus(g) \/ RefundCommit(g)
<1>1. ~UNCHANGED status
  OBVIOUS
<1>2. ASSUME NEW g \in Handlers, Step(g)
      PROVE  GatewayRejected(g) \/ WriteStatus(g) \/ RefundCommit(g)
  <2>1. CASE GatewayOpened(g) \/ ConsumerCommit(g)
    BY <1>1, <2>1 DEF GatewayOpened, ConsumerCommit
  <2>2. CASE VerifyAnswer(g) \/ ReconcileAnswer(g) \/ ReadStatus(g)
               \/ ConsumerBegin(g) \/ ConsumerAbort(g) \/ RefundCall(g)
               \/ RefundBegin(g) \/ RefundAbort(g)
    BY <1>1, <2>2 DEF VerifyAnswer, ReconcileAnswer, ReadStatus, ConsumerBegin,
                ConsumerAbort, ConsumerAborted, RefundCall, RefundBegin, RefundAbort, docs
  <2> QED
    BY <1>2, <2>1, <2>2 DEF Step
<1>3. ASSUME NEW g \in Handlers, NEW q \in Payments,
             Request(g, q) \/ ReconcileStart(g, q) \/ RetryStart(g, q)
      PROVE  InitiatePayment(g, q)
  BY <1>1, <1>3 DEF Request, Webhook, PaymentRedirect, UpdatePayment,
              VerifyStart, RefundStart, ReconcileStart, RetryStart, docs
<1>4. ASSUME NEW g \in Handlers, NEW q \in Payments, InitiatePayment(g, q)
      PROVE  q = p
  BY <1>4 DEF InitiatePayment, TypeOK
<1>5. ASSUME NEW g \in Handlers,
             GatewayRejected(g) \/ WriteStatus(g) \/ RefundCommit(g)
      PROVE  proc[g].pay = p
  BY <1>5 DEF GatewayRejected, WriteStatus, RefundCommit, TypeOK
<1>6. ~\E q \in Payments : CustomerPays(q) \/ ChargeDeclined(q)
                        \/ FiringPasses(q)
  BY <1>1 DEF CustomerPays, ChargeDeclined,
              FiringPasses, docs
<1>7. ~\E g \in Handlers : Crash(g)
  BY <1>1 DEF Crash, docs
<1>8. ~UNCHANGED vars
  BY <1>1 DEF vars, docs
<1> QED
  BY <1>2, <1>3, <1>4, <1>5, <1>6, <1>7, <1>8 DEF Next

(* A stored status leaves the transitions of PaymentStateMachine only by   *)
(* the write of a handler that decided from a status which somebody has    *)
(* replaced since; a refund never does.                                    *)
THEOREM LegalUnlessStale == Spec => IllegalOnlyIfStale
<1>1. Init => DecisionInv
  BY DEF Init, DecisionInv, Decided, Idle
<1>2. Spec => [](TypeOK /\ DecisionInv)
  BY <1>1, InitType, NextType, NextDecided, PTL DEF Spec
<1>3. ASSUME TypeOK, DecisionInv, [Next]_vars
      PROVE  [\A p \in Payments :
                status[p] \in Statuses /\ ~CanTransition(status[p], status'[p]) =>
                  \E g \in Handlers : /\ proc[g].pc \in {"initiate", "write"}
                                      /\ proc[g].pay = p
                                      /\ DecidedFrom(g) # status[p]]_vars
  <2>1. ASSUME NEW p \in Payments, status[p] \in Statuses,
               ~CanTransition(status[p], status'[p])
        PROVE  \E g \in Handlers : /\ proc[g].pc \in {"initiate", "write"}
                                   /\ proc[g].pay = p
                                   /\ DecidedFrom(g) # status[p]
    <3>1. status'[p] # status[p]
      BY <2>1 DEF CanTransition
    <3>2. PICK g \in Handlers :
            \/ InitiatePayment(g, p)
            \/ /\ proc[g].pay = p
               /\ GatewayRejected(g) \/ WriteStatus(g) \/ RefundCommit(g)
      BY <1>3, <3>1, StatusStep
    <3>3. ~InitiatePayment(g, p)
      BY <2>1 DEF InitiatePayment, Statuses
    <3>4. CASE GatewayRejected(g) /\ proc[g].pay = p
      <4>1. proc[g].pc = "initiate" /\ status'[p] = "failed"
        BY <1>3, <3>4 DEF GatewayRejected, TypeOK
      <4>2. status[p] # "pending"
        BY <2>1, <4>1 DEF CanTransition, transitions, Statuses
      <4> QED
        BY <3>4, <4>1, <4>2 DEF DecidedFrom
    <3>5. CASE WriteStatus(g) /\ proc[g].pay = p
      <4>1. proc[g].pc = "write" /\ status'[p] = proc[g].target
        BY <1>3, <3>5 DEF WriteStatus, TypeOK
      <4>2. CanTransition(proc[g].seen, proc[g].target)
        BY <1>3, <4>1 DEF DecisionInv, Decided
      <4>3. proc[g].seen # status[p]
        BY <2>1, <4>1, <4>2
      <4> QED
        BY <3>5, <4>1, <4>3 DEF DecidedFrom
    <3>6. CASE RefundCommit(g) /\ proc[g].pay = p
      <4>1. /\ proc[g].pc = "refund_commit" /\ g \notin stale
            /\ status'[p] = "refunded"
        BY <1>3, <3>6 DEF RefundCommit, TypeOK
      <4> QED
        BY <1>3, <2>1, <3>6, <4>1 DEF DecisionInv, Decided
    <3> QED
      BY <3>2, <3>3, <3>4, <3>5, <3>6
  <2> QED
    BY <2>1
<1> QED
  BY <1>2, <1>3, PTL DEF Spec, IllegalOnlyIfStale

-----------------------------------------------------------------------------
(* Payments that use a coupon. *)

LEMMA CouponNextIsNext ==
  [CouponNext]_<<vars, couponVars>> => [Next]_vars
BY DEF CouponNext, PaymentStep, ValidateCoupon, vars

(* The coupon's check is in nobody's way: the payments behave as without it. *)
THEOREM CouponsArePayments == CouponSpec => Spec
<1>1. CouponInit => Init
  BY DEF CouponInit
<1> QED
  BY <1>1, CouponNextIsNext, PTL DEF CouponSpec, Spec

(* Payments of one user that use a coupon leave one active subscription.   *)
THEOREM CouponsOneSubscription == CouponSpec => []OneActiveSubscription
BY CouponsArePayments, SingleSubscription, PTL

(* And they move the wallet as Settlement allows.                          *)
THEOREM CouponsSettle == CouponSpec => SettlesLedger
BY CouponsArePayments, ImplementsSettlement, PTL

-----------------------------------------------------------------------------
(* The limit.  A coupon is compared with a count that is behind: what       *)
(* bounds the payments validated one after another is that each of them    *)
(* found all earlier ones credited, and so counted.                        *)
Ordered == validated \ overlapped

CouponInv ==
  /\ overlapped \subseteq validated /\ validated \subseteq Discounted
  /\ \A p \in Discounted : status[p] # "none" => p \in validated
  /\ Credited \subseteq validated
  /\ Cardinality(Credited) <= usage_count
  /\ UsageLimit > 0 => Cardinality(Ordered) <= UsageLimit

LEMMA Finite ==
  ASSUME NEW S, S \subseteq Discounted
  PROVE  IsFiniteSet(S) /\ Cardinality(S) \in Nat
BY LimitAssumption, FS_Subset, FS_CardinalityType

LEMMA InitCoupon == CouponInit => CouponInv
<1> SUFFICES ASSUME CouponInit PROVE CouponInv
  OBVIOUS
<1>1. Credited = {} /\ Ordered = {} /\ Discounted \subseteq Payments
  BY SetsAssumption DEF CouponInit, Init, Credited, Ordered
<1> QED
  BY <1>1, FS_EmptySet, LimitAssumption DEF CouponInit, Init, CouponInv

(* A payment that is credited was inserted, and so validated; and the      *)
(* commit that credits it counts it.                                       *)
LEMMA CommitCoupon ==
  ASSUME TypeOK, SettleInv, CouponInv, NEW g \in Handlers, ConsumerCommit(g),
         validated' = validated
  PROVE  /\ Credited' \subseteq validated
         /\ Cardinality(Credited') <= usage_count'
<1> DEFINE p == proc[g].pay
<1>1. p \in Payments /\ status[p] = "success"
  BY DEF TypeOK, ProcStates, ConsumerCommit, SettleInv, SnapshotsCurrent, SnapshotCurrent
<1>2. \/ ledger' = ledger
      \/ ledger' = [ledger EXCEPT ![p] = @ + 1]
  BY DEF ConsumerCommit, AssignPackage
<1>3. Credited' \subseteq Credited \cup ({p} \cap Discounted)
  BY <1>2, SetsAssumption DEF Credited, TypeOK
<1>4. Credited' \subseteq validated
  BY <1>1, <1>3 DEF CouponInv
<1>5. IsFiniteSet(Credited) /\ Cardinality(Credited) \in Nat /\ usage_count \in Nat
  BY Finite DEF Credited, TypeOK
<1>6. CASE p \in Discounted
  <2>1. usage_count' = usage_count + 1
    BY <1>6 DEF ConsumerCommit
  <2>2. IsFiniteSet(Credited \cup {p})
         /\ Cardinality(Credited \cup {p}) <= Cardinality(Credited) + 1
    <3>1. IsFiniteSet(Credited \cup {p})
           /\ Cardinality(Credited \cup {p}) =
                IF p \in Credited THEN Cardinality(Credited)
                ELSE Cardinality(Credited) + 1
      BY <1>5, FS_AddElement
    <3> QED
      BY <1>5, <3>1
  <2>3. Cardinality(Credited') <= Cardinality(Credited \cup {p})
    BY <1>3, <2>2, FS_Subset
  <2>4. Cardinality(Credited') \in Nat /\ Cardinality(Credited \cup {p}) \in Nat
    BY <1>4, <2>2, Finite, FS_CardinalityType DEF CouponInv
  <2> QED
    BY <1>4, <1>5, <2>1, <2>2, <2>3, <2>4 DEF CouponInv
<1>7. CASE p \notin Discounted
  <2>1. usage_count' = usage_count
    BY <1>7 DEF ConsumerCommit
  <2>2. Credited' \subseteq Credited
    BY <1>3, <1>7
  <2>3. Cardinality(Credited') <= Cardinality(Credited) /\ Cardinality(Credited') \in Nat
    BY <1>4, <1>5, <2>2, FS_Subset, Finite DEF CouponInv
  <2> QED
    BY <1>4, <1>5, <2>1, <2>3 DEF CouponInv
<1> QED
  BY <1>6, <1>7

(* Every other step leaves the credits and the count alone.                *)
LEMMA CountStep ==
  ASSUME [Next]_vars
  PROVE  \/ UNCHANGED <<ledger, usage_count>>
         \/ \E g \in Handlers : ConsumerCommit(g)
<1>1. CASE UNCHANGED vars \/ \E q \in Payments : CustomerPays(q) \/ ChargeDeclined(q)
                        \/ FiringPasses(q)
  BY <1>1 DEF CustomerPays, ChargeDeclined,
              FiringPasses, docs, vars
<1>2. ASSUME NEW g \in Handlers, Crash(g)
      PROVE  UNCHANGED <<ledger, usage_count>>
  BY <1>2 DEF Crash, docs
<1>3. ASSUME NEW g \in Handlers, NEW q \in Payments,
             Request(g, q) \/ ReconcileStart(g, q) \/ RetryStart(g, q)
      PROVE  UNCHANGED <<ledger, usage_count>>
  BY <1>3 DEF Request, InitiatePayment, Webhook, PaymentRedirect, UpdatePayment,
              VerifyStart, RefundStart, ReconcileStart, RetryStart, docs
<1>4. ASSUME NEW g \in Handlers, Step(g)
      PROVE  UNCHANGED <<ledger, usage_count>> \/ ConsumerCommit(g)
  <2>1. CASE GatewayOpened(g) \/ GatewayRejected(g) \/ WriteStatus(g) \/ RefundCommit(g)
    BY <2>1 DEF GatewayOpened, GatewayRejected, WriteStatus, RefundCommit
  <2>2. CASE VerifyAnswer(g) \/ ReconcileAnswer(g) \/ ReadStatus(g)
               \/ ConsumerBegin(g) \/ ConsumerAbort(g) \/ RefundCall(g)
               \/ RefundBegin(g) \/ RefundAbort(g)
    BY <2>2 DEF VerifyAnswer, ReconcileAnswer, ReadStatus, ConsumerBegin,
                ConsumerAbort, ConsumerAborted, RefundCall, RefundBegin, RefundAbort, docs
  <2> QED
    BY <1>4, <2>1, <2>2 DEF Step
<1> QED
  BY <1>1, <1>2, <1>3, <1>4 DEF Next

LEMMA PaymentStepCoupon ==
  ASSUME TypeOK, SettleInv, CouponInv, PaymentStep
  PROVE  CouponInv'
<1>1. validated' = validated /\ overlapped' = overlapped
  BY DEF PaymentStep
<1>2. ASSUME NEW p \in Discounted, status'[p] # "none"
      PROVE  p \in validated
  BY <1>2 DEF PaymentStep, Initiates, CouponInv
<1>3. Credited' \subseteq validated /\ Cardinality(Credited') <= usage_count'
  <2>1. CASE UNCHANGED <<ledger, usage_count>>
    BY <2>1 DEF Credited, CouponInv
  <2>2. ASSUME NEW g \in Handlers, ConsumerCommit(g)
        PROVE  Credited' \subseteq validated /\ Cardinality(Credited') <= usage_count'
    BY <1>1, <2>2, CommitCoupon
  <2> QED
    BY <2>1, <2>2, CountStep DEF PaymentStep
<1> QED
  BY <1>1, <1>2, <1>3 DEF CouponInv, Ordered

(* A payment validated after all others were counted found the count below *)
(* the limit, and with it the number of payments validated before.         *)
LEMMA ValidateStepCoupon ==
  ASSUME TypeOK, CouponInv, NEW p \in Discounted, ValidateCoupon(p)
  PROVE  CouponInv'
<1>1. validated' = validated \cup {p} /\ UNCHANGED <<status, ledger, usage_count>>
  BY DEF ValidateCoupon, vars, docs
<1>2. UsageLimit > 0 => Cardinality(Ordered') <= UsageLimit
  <2> SUFFICES ASSUME UsageLimit > 0 PROVE Cardinality(Ordered') <= UsageLimit
    OBVIOUS
  <2>1. CASE \E q \in validated : ledger[q] = 0
    <3>1. Ordered' \subseteq Ordered
      BY <1>1, <2>1 DEF ValidateCoupon, Ordered
    <3>2. IsFiniteSet(Ordered) /\ Cardinality(Ordered) \in Nat
      BY Finite DEF Ordered, CouponInv
    <3>3. Cardinality(Ordered') <= Cardinality(Ordered) /\ Cardinality(Ordered') \in Nat
      BY <3>1, <3>2, FS_Subset, FS_CardinalityType
    <3> QED
      BY <3>2, <3>3, LimitAssumption DEF CouponInv
  <2>2. CASE ~ \E q \in validated : ledger[q] = 0
    <3>1. validated \subseteq Credited
      BY <2>2, SetsAssumption DEF Credited, CouponInv, TypeOK
    <3>2. IsFiniteSet(Credited) /\ Cardinality(Credited) \in Nat
      BY Finite DEF Credited
    <3>3. Cardinality(validated) <= Cardinality(Credited) /\ IsFiniteSet(validated)
            /\ Cardinality(validated) \in Nat
      BY <3>1, <3>2, FS_Subset, FS_CardinalityType
    <3>4. usage_count < UsageLimit /\ usage_count \in Nat
      BY LimitAssumption DEF ValidateCoupon, WithinLimit, TypeOK
    <3>5. Cardinality(validated) + 1 <= UsageLimit
      BY <3>2, <3>3, <3>4, LimitAssumption DEF CouponInv
    <3>6. IsFiniteSet(validated \cup {p})
            /\ Cardinality(validated \cup {p}) <= Cardinality(validated) + 1
            /\ Cardinality(validated \cup {p}) \in Nat
      <4>1. IsFiniteSet(validated \cup {p})
             /\ Cardinality(validated \cup {p}) =
                  IF p \in validated THEN Cardinality(validated)
                  ELSE Cardinality(validated) + 1
        BY <3>3, FS_AddElement
      <4> QED
        BY <3>3, <4>1
    <3>7. Ordered' \subseteq validated \cup {p}
      BY <1>1 DEF Ordered
    <3>8. Cardinality(Ordered') <= Cardinality(validated \cup {p})
            /\ Cardinality(Ordered') \in Nat
      BY <3>6, <3>7, FS_Subset, FS_CardinalityType
    <3> QED
      BY <3>3, <3>5, <3>6, <3>8, LimitAssumption
  <2> QED
    BY <2>1, <2>2
<1>3. overlapped' \subseteq validated'
  BY <1>1 DEF ValidateCoupon, CouponInv
<1>4. Credited' = Credited /\ usage_count' = usage_count
  BY <1>1 DEF Credited
<1> QED
  BY <1>1, <1>2, <1>3, <1>4 DEF CouponInv

LEMMA NextCoupon ==
  TypeOK /\ SettleInv /\ CouponInv /\ [CouponNext]_<<vars, couponVars>> => CouponInv'
<1> SUFFICES ASSUME TypeOK, SettleInv, CouponInv, [CouponNext]_<<vars, couponVars>>
             PROVE  CouponInv'
  OBVIOUS
<1>1. CASE UNCHANGED <<vars, couponVars>>
  BY <1>1 DEF CouponInv, Credited, Ordered, vars, docs, couponVars
<1> QED
  BY <1>1, PaymentStepCoupon, ValidateStepCoupon DEF CouponNext

LEMMA CouponInvariant == CouponSpec => []CouponInv
<1>1. CouponSpec => [](TypeOK /\ SettleInv)
  BY CouponsArePayments, SettleInvariant, PTL
<1> QED
  BY <1>1, InitCoupon, NextCoupon, PTL DEF CouponSpec

(* More payments than the limit use a coupon only when some of them were   *)
(* validated before an earlier one was counted.                            *)
THEOREM OverusedByOverlap == CouponSpec => []OverusedOnlyByOverlap
<1>1. CouponInv => OverusedOnlyByOverlap
  <2> SUFFICES ASSUME CouponInv, UsageLimit > 0
               PROVE  Cardinality(Credited) <= UsageLimit + Cardinality(overlapped)
    BY DEF OverusedOnlyByOverlap
  <2>1. IsFiniteSet(Ordered) /\ Cardinality(Ordered) \in Nat
    BY Finite DEF Ordered, CouponInv
  <2>2. IsFiniteSet(overlapped) /\ Cardinality(overlapped) \in Nat
    BY Finite DEF CouponInv
  <2>3. IsFiniteSet(Ordered \cup overlapped)
          /\ Cardinality(Ordered \cup overlapped)
               = Cardinality(Ordered) + Cardinality(overlapped)
    <3>1. Ordered \cap overlapped = {}
      BY DEF Ordered
    <3> QED
      BY <2>1, <2>2, <3>1, FS_Union, FS_EmptySet
  <2>4. Credited \subseteq Ordered \cup overlapped
    BY DEF CouponInv, Ordered
  <2>5. Cardinality(Credited) <= Cardinality(Ordered \cup overlapped)
          /\ Cardinality(Credited) \in Nat
    BY <2>3, <2>4, FS_Subset, FS_CardinalityType
  <2> QED
    BY <2>1, <2>2, <2>3, <2>5, LimitAssumption DEF CouponInv
<1> QED
  BY <1>1, CouponInvariant, PTL

-----------------------------------------------------------------------------
(* The count.  Each start of the consumer, and each repetition after a     *)
(* commit whose answer was lost, pays for at most one increment.           *)

Consuming == {"begin", "commit"}
Running == {g \in Handlers : proc[g].pc \in Consuming /\ proc[g].pay \in Discounted}

PaidFor == SumFunctionOnSet(runs, Discounted) + recounted

RunInv ==
  /\ runs \in [Payments -> Nat] /\ recounted \in Nat
  /\ IsFiniteSet(Running)
  /\ usage_count + Cardinality(Running) <= PaidFor

(* What a step of a handler is to the consumer: its start, one of its      *)
(* steps, the commit that counts, the commit that counts and is repeated,  *)
(* or none of its business.                                                *)
Counted(g) ==
  usage_count' = IF proc[g].pay \in Discounted THEN usage_count + 1 ELSE usage_count

Enters(g) ==
  /\ proc[g].pc \in {"idle", "write"} /\ proc'[g].pc = "begin"
  /\ usage_count' = usage_count
Stays(g) ==
  /\ proc[g].pc \in Consuming /\ proc'[g].pc \in Consuming
  /\ proc'[g].pay = proc[g].pay /\ usage_count' = usage_count
  /\ ~ConsumerCommit(g)
Counts(g) ==
  /\ proc[g].pc \in Consuming /\ proc'[g].pc \notin Consuming
  /\ Counted(g)
CountsAgain(g) ==
  /\ ConsumerCommit(g) /\ proc'[g].pc = "begin" /\ proc'[g].pay = proc[g].pay
  /\ Counted(g)
IsAway(g) == proc'[g].pc \notin Consuming /\ usage_count' = usage_count

ByOne(g) == \A k \in Handlers \ {g} : proc'[k] = proc[k]

LEMMA FinishAway ==
  ASSUME TypeOK, NEW g \in Handlers, Finish(g)
  PROVE  ByOne(g) /\ proc'[g].pc \notin Consuming
BY IdlePc DEF TypeOK, Finish, ByOne, Consuming

LEMMA GotoOne ==
  ASSUME TypeOK, NEW g \in Handlers, NEW pc, Goto(g, pc)
  PROVE  ByOne(g) /\ proc'[g].pc = pc /\ proc'[g].pay = proc[g].pay
<1>1. proc[g] \in ProcStates
  BY DEF TypeOK
<1> QED
  BY <1>1 DEF TypeOK, Goto, ByOne, ProcStates

LEMMA StartOne ==
  ASSUME TypeOK, NEW g \in Handlers, NEW s, Start(g, s)
  PROVE  ByOne(g) /\ proc'[g] = s /\ proc[g].pc = "idle"
BY DEF TypeOK, Start, ByOne

LEMMA RequestStep ==
  ASSUME TypeOK, NEW g \in Handlers, NEW p \in Payments,
         Request(g, p) \/ ReconcileStart(g, p) \/ RetryStart(g, p)
  PROVE  ByOne(g) /\ (Enters(g) \/ IsAway(g))
<1>1. CASE InitiatePayment(g, p)
  <2> DEFINE s == [Idle EXCEPT !.pc = "initiate", !.pay = p]
  <2>1. s.pc = "initiate"
    BY IdleType DEF ProcStates
  <2>2. Start(g, s) /\ usage_count' = usage_count
    BY <1>1 DEF InitiatePayment
  <2> HIDE DEF s
  <2> QED
    BY <2>1, <2>2, StartOne DEF IsAway, Consuming
<1>2. CASE ~InitiatePayment(g, p)
  <2>1. PICK s \in ProcStates : s.pc \in EntryPcs /\ Start(g, s)
    BY <1>2, EntryStart DEF Request
  <2>2. usage_count' = usage_count
    BY <1>2, EntryStart DEF Request, docs
  <2> QED
    BY <2>1, <2>2, StartOne DEF Enters, IsAway, Consuming, EntryPcs
<1> QED
  BY <1>1, <1>2

LEMMA ConsumerStep ==
  ASSUME TypeOK, NEW g \in Handlers, Step(g)
  PROVE  ByOne(g) /\ (Enters(g) \/ Stays(g) \/ Counts(g) \/ CountsAgain(g) \/ IsAway(g))
<1>0. proc[g] \in ProcStates /\ proc \in [Handlers -> ProcStates]
  BY DEF TypeOK
<1>1. ASSUME Finish(g), usage_count' = usage_count PROVE ByOne(g) /\ IsAway(g)
  BY <1>1, FinishAway DEF IsAway
<1>2. ASSUME NEW pc, pc \notin Consuming, Goto(g, pc), usage_count' = usage_count
      PROVE  ByOne(g) /\ IsAway(g)
  BY <1>2, GotoOne DEF IsAway
<1>3. ASSUME NEW s, s.pc \notin Consuming, proc' = [proc EXCEPT ![g] = s],
             usage_count' = usage_count
      PROVE  ByOne(g) /\ IsAway(g)
  BY <1>0, <1>3 DEF IsAway, ByOne
<1>4. \A p, target, source, details : Update(p, target, source, details).pc = "read"
  BY IdleType DEF Update, ProcStates
<1>c. ASSUME proc[g].pc # "commit" PROVE ~ConsumerCommit(g)
  BY <1>c DEF ConsumerCommit
<1>5. CASE GatewayOpened(g) \/ GatewayRejected(g) \/ RefundCommit(g) \/ RefundAbort(g)
  BY <1>1, <1>5 DEF GatewayOpened, GatewayRejected, RefundCommit, RefundAbort, docs
<1>6. CASE VerifyAnswer(g)
  <2>1. usage_count' = usage_count
    BY <1>6 DEF VerifyAnswer
  <2>2. PICK s \in ProcStates : /\ proc' = [proc EXCEPT ![g] = s]
                                /\ s = Idle \/ s.pc = "read"
    BY <1>6, VerifyAnswerStep
  <2> QED
    BY <1>3, IdlePc, <2>1, <2>2 DEF Consuming
<1>7. CASE ReconcileAnswer(g)
  <2>1. usage_count' = usage_count
    BY <1>7 DEF ReconcileAnswer, docs
  <2>2. Finish(g) \/ \E p, target, source, details :
                       proc' = [proc EXCEPT ![g] = Update(p, target, source, details)]
    BY <1>7 DEF ReconcileAnswer
  <2> QED
    BY <1>1, <1>3, <1>4, <2>1, <2>2 DEF Consuming
<1>8. CASE ReadStatus(g)
  <2>1. usage_count' = usage_count
    BY <1>8 DEF ReadStatus, docs
  <2>2. Finish(g) \/ proc' = [proc EXCEPT ![g].pc = "write",
                                ![g].seen = status[proc[g].pay]]
    BY <1>8 DEF ReadStatus
  <2>3. [proc[g] EXCEPT !.pc = "write", !.seen = status[proc[g].pay]].pc = "write"
    BY <1>0 DEF ProcStates
  <2>4. CASE proc' = [proc EXCEPT ![g].pc = "write", ![g].seen = status[proc[g].pay]]
    BY <1>0, <2>1, <2>3, <2>4 DEF IsAway, ByOne, Consuming
  <2> QED
    BY <1>1, <2>1, <2>2, <2>4
<1>9. CASE WriteStatus(g)
  <2>1. usage_count' = usage_count /\ proc[g].pc = "write"
    BY <1>9 DEF WriteStatus
  <2>2. CASE Goto(g, "begin")
    BY <2>1, <2>2, GotoOne DEF Enters
  <2> QED
    BY <1>1, <1>9, <2>1, <2>2 DEF WriteStatus
<1>10. CASE ConsumerBegin(g)
  <2>1. usage_count' = usage_count /\ proc[g].pc = "begin"
    BY <1>10 DEF ConsumerBegin, docs
  <2>2. CASE Finish(g)
    BY <1>1, <2>1, <2>2
  <2>3. CASE ~Finish(g)
    <3>1. proc' = [proc EXCEPT ![g].pc = "commit",
                     ![g].credited = AlreadyAssigned(proc[g].pay),
                     ![g].subs = active[Owner[proc[g].pay]]]
      BY <1>10, <2>3 DEF ConsumerBegin
    <3> QED
      BY <1>0, <1>c, <2>1, <3>1 DEF Stays, ByOne, Consuming, ProcStates
  <2> QED
    BY <2>2, <2>3
<1>11. CASE ConsumerCommit(g) \/ ConsumerAbort(g)
  <2>1. PICK s \in ProcStates :
          /\ proc'[g] = s /\ \A k \in Handlers \ {g} : proc'[k] = proc[k]
          /\ s.pc = "idle" \/ (s.pc = "begin" /\ s.pay = proc[g].pay)
    BY <1>11, NextAttemptType, IdlePc DEF ConsumerCommit, ConsumerAbort
  <2>2. CASE ConsumerCommit(g)
    <3>1. proc[g].pc = "commit" /\ Counted(g)
      BY <2>2 DEF ConsumerCommit, Counted
    <3> QED
      BY <2>1, <2>2, <3>1 DEF ByOne, Counts, CountsAgain, Consuming
  <2>3. CASE ConsumerAbort(g) /\ ~ConsumerCommit(g)
    <3>1. usage_count' = usage_count /\ proc[g].pc = "commit"
      BY <2>3 DEF ConsumerAbort, ConsumerAborted, docs
    <3> QED
      BY <2>1, <2>3, <3>1 DEF ByOne, Stays, IsAway, Consuming
  <2> QED
    BY <1>11, <2>2, <2>3
<1>13. CASE RefundCall(g)
  BY <1>1, <1>2, <1>13 DEF RefundCall, docs, Consuming
<1>14. CASE RefundBegin(g)
  <2>1. usage_count' = usage_count
    BY <1>14 DEF RefundBegin, docs
  <2>2. CASE proc' = [proc EXCEPT ![g].pc = "refund_commit",
                        ![g].seen = status[proc[g].pay]]
    <3>1. [proc[g] EXCEPT !.pc = "refund_commit",
             !.seen = status[proc[g].pay]].pc = "refund_commit"
      BY <1>0 DEF ProcStates
    <3> QED
      BY <1>0, <2>1, <2>2, <3>1 DEF IsAway, ByOne, Consuming
  <2> QED
    BY <1>1, <1>14, <2>1, <2>2 DEF RefundBegin
<1> QED
  BY <1>5, <1>6, <1>7, <1>8, <1>9, <1>10, <1>11, <1>13, <1>14 DEF Step

(* A step of Payment is one handler's, or no handler's. *)
LEMMA NextByOne ==
  ASSUME TypeOK, Next
  PROVE  \/ UNCHANGED <<proc, usage_count>>
         \/ \E g \in Handlers :
              ByOne(g) /\ (Enters(g) \/ Stays(g) \/ Counts(g) \/ CountsAgain(g) \/ IsAway(g))
<1>1. ASSUME NEW p \in Payments,
         CustomerPays(p) \/ ChargeDeclined(p) \/ FiringPasses(p)
      PROVE  UNCHANGED <<proc, usage_count>>
  BY <1>1 DEF CustomerPays, ChargeDeclined,
              FiringPasses, docs
<1>2. ASSUME NEW g \in Handlers, Crash(g) PROVE ByOne(g) /\ IsAway(g)
  BY <1>2, FinishAway DEF Crash, IsAway, docs
<1> QED
  BY <1>1, <1>2, ConsumerStep, RequestStep DEF Next

(* The consumer is started for, or repeats a commit of, one payment at a time. *)
LEMMA RunsStep ==
  ASSUME TypeOK, RunInv, PaymentStep, NEW g \in Handlers, ByOne(g)
  PROVE  /\ runs' \in [Payments -> Nat] /\ recounted' \in Nat
         /\ Enters(g) => /\ runs' = [runs EXCEPT ![proc'[g].pay] = @ + 1]
                         /\ recounted' = recounted
         /\ Stays(g) \/ Counts(g) \/ CountsAgain(g) \/ IsAway(g) => runs' = runs
         /\ CountsAgain(g) /\ proc[g].pay \in Discounted =>
              recounted' = recounted + 1
         /\ CountsAgain(g) /\ proc[g].pay \notin Discounted =>
              recounted' = recounted
         /\ Stays(g) \/ Counts(g) \/ IsAway(g) => recounted' = recounted
<1>1. ASSUME NEW k \in Handlers, NEW p \in Payments, StartsConsumer(k, p)
      PROVE  k = g
  BY <1>1 DEF StartsConsumer, ByOne
<1>2. \A p \in Payments : (\E k \in Handlers : StartsConsumer(k, p))
                            <=> StartsConsumer(g, p)
  BY <1>1
<1>3. runs \in [Payments -> Nat]
      /\ runs' = [p \in Payments |-> IF StartsConsumer(g, p) THEN runs[p] + 1
                                     ELSE runs[p]]
  BY <1>2 DEF PaymentStep, RunInv
<1>4. runs' \in [Payments -> Nat]
  BY <1>3
<1>5. Enters(g) => runs' = [runs EXCEPT ![proc'[g].pay] = @ + 1]
  <2> SUFFICES ASSUME Enters(g)
               PROVE  runs' = [runs EXCEPT ![proc'[g].pay] = @ + 1]
    OBVIOUS
  <2>1. \A p \in Payments : StartsConsumer(g, p) <=> p = proc'[g].pay
    BY DEF Enters, StartsConsumer
  <2> QED
    BY <1>3, <2>1
<1>6. Stays(g) \/ Counts(g) \/ CountsAgain(g) \/ IsAway(g) => runs' = runs
  <2> SUFFICES ASSUME Stays(g) \/ Counts(g) \/ CountsAgain(g) \/ IsAway(g)
               PROVE  runs' = runs
    OBVIOUS
  <2>1. \A p \in Payments : ~StartsConsumer(g, p)
    BY DEF Stays, Counts, CountsAgain, IsAway, StartsConsumer, Consuming,
           ConsumerCommit
  <2> QED
    BY <1>3, <2>1
<1>7. ASSUME NEW k \in Handlers, Recounts(k)
      PROVE  k = g
  BY <1>7 DEF Recounts, ConsumerCommit, ByOne
<1>8. recounted' = IF Recounts(g) THEN recounted + 1 ELSE recounted
  BY <1>7 DEF PaymentStep
<1>9. recounted \in Nat /\ recounted' \in Nat
  BY <1>8 DEF RunInv
<1>10. Enters(g) \/ Stays(g) \/ Counts(g) \/ IsAway(g) => ~Recounts(g)
  BY DEF Enters, Stays, Counts, IsAway, Recounts, ConsumerCommit, Consuming
<1>11. CountsAgain(g) => (Recounts(g) <=> proc[g].pay \in Discounted)
  BY DEF CountsAgain, Recounts
<1> QED
  BY <1>4, <1>5, <1>6, <1>8, <1>9, <1>10, <1>11

LEMMA SumRuns ==
  ASSUME RunInv
  PROVE  /\ SumFunctionOnSet(runs, Discounted) \in Int
         /\ PaidFor \in Int
<1>1. \A p \in Discounted : runs[p] \in Int
  BY SetsAssumption DEF RunInv
<1>2. SumFunctionOnSet(runs, Discounted) \in Int
  BY <1>1, LimitAssumption, SumType
<1> QED
  BY <1>2 DEF RunInv, PaidFor

LEMMA StepRun ==
  ASSUME TypeOK, TypeOK', RunInv, PaymentStep, NEW g \in Handlers, ByOne(g),
         Enters(g) \/ Stays(g) \/ Counts(g) \/ CountsAgain(g) \/ IsAway(g)
  PROVE  RunInv'
<1> DEFINE n == Cardinality(Running)
           sum == SumFunctionOnSet(runs, Discounted)
<1>0. /\ n \in Nat /\ sum \in Int /\ usage_count \in Nat
      /\ recounted \in Nat /\ recounted' \in Nat
      /\ usage_count + n <= sum + recounted /\ IsFiniteSet(Running)
      /\ runs' \in [Payments -> Nat] /\ runs \in [Payments -> Nat]
  BY SumRuns, RunsStep, FS_CardinalityType DEF RunInv, TypeOK, PaidFor
<1>1. ASSUME NEW k \in Handlers, k # g
      PROVE  k \in Running' <=> k \in Running
  BY <1>1 DEF ByOne, Running
<1>2. ASSUME runs' = runs, recounted' = recounted, Running' \subseteq Running,
             usage_count' = usage_count
      PROVE  RunInv'
  <2>1. /\ IsFiniteSet(Running') /\ Cardinality(Running') <= n
        /\ Cardinality(Running') \in Nat
    BY <1>0, <1>2, FS_Subset, FS_CardinalityType
  <2> QED
    BY <1>0, <1>2, <2>1 DEF RunInv, PaidFor
<1>3. CASE IsAway(g)
  <2>1. Running' \subseteq Running
    BY <1>1, <1>3 DEF IsAway, Running
  <2> QED
    BY <1>2, <1>3, <2>1, RunsStep DEF IsAway
<1>4. CASE Stays(g)
  <2>1. Running' \subseteq Running
    BY <1>1, <1>4 DEF Stays, Running
  <2> QED
    BY <1>2, <1>4, <2>1, RunsStep DEF Stays
<1>5. CASE Counts(g)
  <2>1. Running' \subseteq Running \ {g} /\ runs' = runs /\ recounted' = recounted
    BY <1>1, <1>5, RunsStep DEF Counts, Running
  <2>2. CASE proc[g].pay \in Discounted
    <3>1. g \in Running /\ usage_count' = usage_count + 1
      BY <1>5, <2>2 DEF Counts, Counted, Running
    <3>2. IsFiniteSet(Running \ {g}) /\ Cardinality(Running \ {g}) = n - 1
      BY <1>0, <3>1, FS_RemoveElement
    <3>3. /\ IsFiniteSet(Running') /\ Cardinality(Running') <= n - 1
          /\ Cardinality(Running') \in Nat
      BY <2>1, <3>2, FS_Subset, FS_CardinalityType
    <3> QED
      BY <1>0, <2>1, <3>1, <3>3 DEF RunInv, PaidFor
  <2>3. CASE proc[g].pay \notin Discounted
    BY <1>2, <1>5, <2>1, <2>3 DEF Counts, Counted
  <2> QED
    BY <2>2, <2>3
<1>6. CASE Enters(g)
  <2> DEFINE p == proc'[g].pay
  <2>1. /\ p \in Payments /\ runs' = [runs EXCEPT ![p] = @ + 1]
        /\ usage_count' = usage_count /\ g \notin Running /\ recounted' = recounted
    BY <1>6, RunsStep DEF Enters, Running, Consuming, TypeOK, ProcStates
  <2> HIDE DEF p
  <2>2. \A q \in Discounted : /\ runs[q] \in Int /\ runs'[q] \in Int
                              /\ q # p => runs'[q] = runs[q]
    BY <1>0, <2>1, SetsAssumption
  <2>3. CASE p \notin Discounted
    <3>1. Running' \subseteq Running
      BY <1>1, <2>3 DEF Running, p
    <3>2. SumFunctionOnSet(runs', Discounted) = sum
      BY <2>2, <2>3, LimitAssumption, SumSame
    <3>3. /\ IsFiniteSet(Running') /\ Cardinality(Running') <= n
          /\ Cardinality(Running') \in Nat
      BY <1>0, <3>1, FS_Subset, FS_CardinalityType
    <3> QED
      BY <1>0, <2>1, <3>2, <3>3 DEF RunInv, PaidFor
  <2>4. CASE p \in Discounted
    <3> DEFINE others == Discounted \ {p}
    <3>1. IsFiniteSet(others) /\ \A q \in others : runs[q] \in Int /\ runs'[q] = runs[q]
      BY <2>2, LimitAssumption, FS_Subset
    <3>2. SumFunctionOnSet(runs', others) = SumFunctionOnSet(runs, others)
          /\ SumFunctionOnSet(runs, others) \in Int
      <4> HIDE DEF others
      <4> QED
        BY <3>1, SumSame, SumType
    <3>3. /\ sum = runs[p] + SumFunctionOnSet(runs, others)
          /\ SumFunctionOnSet(runs', Discounted)
               = runs'[p] + SumFunctionOnSet(runs', others)
      BY <2>2, <2>4, LimitAssumption, SumTake
    <3>4. runs[p] \in Int /\ runs'[p] = runs[p] + 1
      BY <1>0, <2>1
    <3> HIDE DEF others
    <3>5. SumFunctionOnSet(runs', Discounted) = sum + 1
      BY <3>2, <3>3, <3>4
    <3>6. Running' \subseteq Running \cup {g}
      BY <1>1 DEF Running
    <3>7. IsFiniteSet(Running \cup {g}) /\ Cardinality(Running \cup {g}) = n + 1
      BY <1>0, <2>1, FS_AddElement
    <3>8. /\ IsFiniteSet(Running') /\ Cardinality(Running') <= n + 1
          /\ Cardinality(Running') \in Nat
      BY <3>6, <3>7, FS_Subset, FS_CardinalityType
    <3> HIDE DEF sum, n
    <3> QED
      BY <1>0, <2>1, <3>5, <3>8 DEF RunInv, PaidFor
  <2> QED
    BY <2>3, <2>4
<1>7. CASE CountsAgain(g)
  <2>1. Running' \subseteq Running /\ runs' = runs
    BY <1>1, <1>7, RunsStep DEF CountsAgain, Running, Consuming, ConsumerCommit
  <2>2. /\ IsFiniteSet(Running') /\ Cardinality(Running') <= n
        /\ Cardinality(Running') \in Nat
    BY <1>0, <2>1, FS_Subset, FS_CardinalityType
  <2>3. usage_count' + Cardinality(Running') <= sum + recounted'
    BY <1>0, <1>7, <2>2, RunsStep DEF CountsAgain, Counted
  <2> QED
    BY <1>0, <2>1, <2>2, <2>3 DEF RunInv, PaidFor
<1> QED
  BY <1>3, <1>4, <1>5, <1>6, <1>7

LEMMA NextRun ==
  ASSUME TypeOK, TypeOK', RunInv, [CouponNext]_<<vars, couponVars>>
  PROVE  RunInv'
<1>1. ASSUME UNCHANGED <<proc, usage_count, runs, recounted>> PROVE RunInv'
  BY <1>1 DEF RunInv, Running, PaidFor
<1>2. CASE UNCHANGED <<vars, couponVars>>
  BY <1>1, <1>2 DEF vars, docs, couponVars
<1>3. ASSUME NEW p \in Discounted, ValidateCoupon(p) PROVE RunInv'
  BY <1>1, <1>3 DEF ValidateCoupon, vars, docs
<1>4. CASE PaymentStep
  <2>1. CASE UNCHANGED <<proc, usage_count>>
    <3>1. \A g \in Handlers, p \in Payments : ~StartsConsumer(g, p)
      BY <2>1 DEF StartsConsumer
    <3>2. runs' = runs
      BY <1>4, <3>1 DEF PaymentStep, RunInv
    <3>3. \A g \in Handlers : ~Recounts(g)
      BY <2>1 DEF Recounts, ConsumerCommit
    <3>4. recounted' = recounted
      BY <1>4, <3>3 DEF PaymentStep
    <3> QED
      BY <1>1, <2>1, <3>2, <3>4
  <2>2. ASSUME NEW g \in Handlers, ByOne(g),
               Enters(g) \/ Stays(g) \/ Counts(g) \/ CountsAgain(g) \/ IsAway(g)
        PROVE  RunInv'
    BY <1>4, <2>2, StepRun
  <2> QED
    BY <1>4, <2>1, <2>2, NextByOne DEF PaymentStep
<1> QED
  BY <1>2, <1>3, <1>4 DEF CouponNext

LEMMA InitRun == CouponInit => RunInv
<1> SUFFICES ASSUME CouponInit PROVE RunInv
  OBVIOUS
<1>1. Running = {}
  BY IdlePc DEF CouponInit, Init, Running, Consuming
<1>2. runs \in [Payments -> Nat] /\ \A p \in Discounted : runs[p] = 0
  BY SetsAssumption DEF CouponInit
<1>3. 0 <= SumFunctionOnSet(runs, Discounted)
  BY <1>2, LimitAssumption, SumZero
<1>4. usage_count = 0 /\ recounted = 0
  BY DEF CouponInit, Init
<1> QED
  BY <1>1, <1>2, <1>3, <1>4, FS_EmptySet, LimitAssumption, SumType DEF RunInv, PaidFor

(* The count of a coupon is at least the number of payments it was used    *)
(* for, and at most the number of times their consumer was started plus    *)
(* the repetitions of an attempt whose commit had no answer: attempts that *)
(* fail or conflict count nothing (handlePaymentCompleted increments       *)
(* inside its transaction).                                                *)
THEOREM CountedByRuns == CouponSpec => []CountedOncePerRun
<1>1. CouponSpec => []TypeOK
  BY CouponsArePayments, TypeCorrect, PTL
<1>2. TypeOK /\ TypeOK' /\ RunInv /\ [CouponNext]_<<vars, couponVars>> => RunInv'
  BY NextRun
<1>3. TypeOK /\ CouponInv /\ RunInv => CountedOncePerRun
  <2> SUFFICES ASSUME TypeOK, CouponInv, RunInv PROVE CountedOncePerRun
    OBVIOUS
  <2>1. Cardinality(Running) \in Nat /\ usage_count \in Nat
    BY FS_CardinalityType DEF RunInv, TypeOK
  <2>2. SumFunctionOnSet(runs, Discounted) \in Int
    BY SumRuns
  <2>3. usage_count <= SumFunctionOnSet(runs, Discounted) + recounted
    BY <2>1, <2>2 DEF RunInv, PaidFor
  <2> QED
    BY <2>3 DEF CouponInv, CountedOncePerRun
<1> QED
  BY <1>1, <1>2, <1>3, InitRun, CouponInvariant, PTL DEF CouponSpec
=============================================================================
