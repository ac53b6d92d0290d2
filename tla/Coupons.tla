------------------------------- MODULE Coupons -------------------------------
(***************************************************************************)
(* Payment with the limit of its coupon: initiatePayment asks              *)
(* validateCoupon before it inserts the payment, and the count is the one  *)
(* that the consumer of an earlier payment has left.  Nothing is reserved  *)
(* in between.                                                             *)
(***************************************************************************)
EXTENDS Payment, Functions

CONSTANT UsageLimit   \* Coupon.usage_limit; 0 is none
ASSUME LimitAssumption == UsageLimit \in Nat /\ IsFiniteSet(Discounted)

VARIABLES
  validated,   \* payments whose coupon was found valid
  overlapped,  \* of those, the ones validated while another was not counted
  runs,        \* times the consumer was started for a payment
  recounted    \* attempts on a coupon repeated after a commit whose answer
               \* was lost

couponVars == <<validated, overlapped, runs, recounted>>

CouponTypeOK ==
  /\ TypeOK
  /\ overlapped \subseteq validated /\ validated \subseteq Discounted
  /\ runs \in [Payments -> Nat]
  /\ recounted \in Nat

CouponInit ==
  /\ Init
  /\ validated = {} /\ overlapped = {}
  /\ runs = [p \in Payments |-> 0] /\ recounted = 0

WithinLimitInclusive ==      \* mutant: the last use is not counted
  UsageLimit = 0 \/ usage_count <= UsageLimit
WithinLimit == UsageLimit = 0 \/ usage_count < UsageLimit

(* That the coupon is active, in time, for the package and the amount is   *)
(* not up to this module: a payment that is refused is never validated.    *)
ValidateCoupon(p) ==
  /\ p \in Discounted \ validated
  /\ WithinLimit
  /\ validated' = validated \cup {p}
  /\ overlapped' = IF \E q \in validated : ledger[q] = 0
                   THEN overlapped \cup {p} ELSE overlapped
  /\ UNCHANGED <<vars, runs, recounted>>

Initiates(p) == status[p] = "none" /\ status'[p] # "none"

(* The consumer is started by the write of a success and by its cron.      *)
StartsConsumer(g, p) ==
  /\ proc[g].pc \in {"idle", "write"}
  /\ proc'[g].pc = "begin" /\ proc'[g].pay = p

(* A commit that counted and is repeated, because its answer was lost. *)
Recounts(g) ==
  proc[g].pay \in Discounted /\ ConsumerCommit(g) /\ proc'[g].pc = "begin"

PaymentStep ==
  /\ Next
  /\ \A p \in Discounted : Initiates(p) => p \in validated
  /\ runs' = [p \in Payments |->
                IF \E g \in Handlers : StartsConsumer(g, p) THEN runs[p] + 1
                ELSE runs[p]]
  /\ recounted' = IF \E g \in Handlers : Recounts(g) THEN recounted + 1
                  ELSE recounted
  /\ UNCHANGED <<validated, overlapped>>

CouponNext == PaymentStep \/ \E p \in Discounted : ValidateCoupon(p)

CouponSpec == CouponInit /\ [][CouponNext]_<<vars, couponVars>>

-----------------------------------------------------------------------------
(* Properties *)

Credited == {p \in Discounted : ledger[p] > 0}

(* More payments than the limit use a coupon only when some were validated *)
(* before an earlier one was counted (validateCoupon compares, the         *)
(* consumer counts, and the customer pays in between).                     *)
OverusedOnlyByOverlap ==
  UsageLimit > 0 => Cardinality(Credited) <= UsageLimit + Cardinality(overlapped)

(* The count is never below the payments that used the coupon, and what is *)
(* above comes from the consumer being started again for a payment it has  *)
(* settled, or repeated after a commit whose answer was lost: an attempt   *)
(* that is rolled back and repeated, or conflicts with another payment on  *)
(* the coupon, counts nothing (handlePaymentCompleted increments inside    *)
(* its transaction and has no check of its own).                           *)
CountedOncePerRun ==
  /\ Cardinality(Credited) <= usage_count
  /\ usage_count <= SumFunctionOnSet(runs, Discounted) + recounted
=============================================================================
