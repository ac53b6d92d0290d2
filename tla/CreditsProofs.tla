---------------------------- MODULE CreditsProofs ----------------------------
(***************************************************************************)
(* Theorems about CreditsBatch: for any number of usages, users, workers,  *)
(* batches, deliveries and failures.                                       *)
(***************************************************************************)
EXTENDS CreditsBatch, FiniteSetTheorems, TLAPS

(* Nobody's flush, delivery, publish and message have the type of one.     *)
LEMMA Nobody ==
  /\ NoFlush \in FlushStates /\ NoDelivery \in DeliveryStates
  /\ NoPublish \in PublishStates /\ NoMessage \in MessageStates
<1>1. (CHOOSE w \in Workers : TRUE) \in Workers
  BY JobsAssumption
<1>2. (CHOOSE j \in Jobs : TRUE) \in Jobs
  BY JobsAssumption
<1>3. (CHOOSE e \in Envelopes : TRUE) \in Envelopes
  BY JobsAssumption
<1> QED
  BY <1>1, <1>2, <1>3 DEF NoFlush, FlushStates, NoDelivery, DeliveryStates,
     NoPublish, PublishStates, NoMessage, MessageStates

(* Who awaits a flush as a message is one of the end queue.                *)
Answerable == \A e \in Envelopes : flush[e].caller = "message" => flush[e].job \in QueueJobs
TypeInv == TypeOK /\ Answerable

LEMMA InitTypes == Init => TypeInv
<1> SUFFICES ASSUME Init PROVE TypeInv
  OBVIOUS
<1>1. TypeOK
  BY Nobody DEF Init, TypeOK, Jobs
<1>2. NoFlush.caller = "timer"
  BY DEF NoFlush
<1> QED
  BY <1>1, <1>2 DEF Init, TypeInv, Answerable

(* The Mongo transaction of a batch. *)
LEMMA ChargeTypes ==
  ASSUME TypeOK, NEW t, NEW jobs \in SUBSET Jobs, NEW rowless, ChargeBatch(t, jobs, rowless)
  PROVE  /\ deducted' \in [Jobs -> Nat] /\ rows' \in [Jobs -> Nat] /\ passed' \subseteq Jobs
         /\ stale' \subseteq Executions
         /\ charging' \in [Executions -> SUBSET Jobs]
<1>1. deducted' \in [Jobs -> Nat] /\ rows' \in [Jobs -> Nat]
  BY DEF TypeOK, ChargeBatch
<1>2. charging' \in [Executions -> SUBSET Jobs]
  BY DEF TypeOK, ChargeBatch
<1>3. passed' \subseteq Jobs /\ stale' \subseteq Executions
  BY DEF TypeOK, ChargeBatch, Conflicts
<1> QED
  BY <1>1, <1>2, <1>3

LEMMA HalfTypes ==
  ASSUME TypeOK, NEW rowless, HalfCharged(rowless)
  PROVE  faults' \in Nat
BY DEF TypeOK, HalfCharged, Fault

LEMMA BeginTypes ==
  ASSUME TypeOK, NEW t, NEW jobs \in SUBSET Jobs, BeginCharging(t, jobs)
  PROVE  charging' \in [Executions -> SUBSET Jobs] /\ faults' \in Nat
<1>1. faults' \in Nat
  BY DEF TypeOK, BeginCharging, Fault
<1>2. PICK charged \in SUBSET Jobs : charging' = [charging EXCEPT ![t] = charged]
  BY DEF BeginCharging, Chargeable
<1>3. charging' \in [Executions -> SUBSET Jobs]
  BY <1>2 DEF TypeOK
<1> QED
  BY <1>1, <1>3

LEMMA CopiesTypes ==
  ASSUME TypeOK, NEW end, NEW batches \in SUBSET Envelopes, NEW late \in SUBSET Envelopes
  PROVE  CopiesAfter(end, batches, late) \in [Jobs -> Nat]
<1>1. ASSUME NEW S \in SUBSET Envelopes
      PROVE  Cardinality(S) \in Nat
  BY <1>1, BoundsAssumption, FS_Subset, FS_CardinalityType
<1>2. ASSUME NEW j \in Jobs
      PROVE  /\ Cardinality({e \in batches : j \in message[e].jobs}) \in Nat
             /\ Cardinality({e \in late : j \in publish[e].jobs}) \in Nat
  BY <1>1
<1> QED
  BY <1>2 DEF CopiesAfter, TypeOK

LEMMA UsagesTypes ==
  ASSUME TypeOK, NEW S \in SUBSET Envelopes
  PROVE  UsagesOf(S) \subseteq Jobs
<1>1. \A e \in S : flush[e].jobs \subseteq Jobs
  BY DEF TypeOK, FlushStates
<1> QED
  BY <1>1 DEF UsagesOf

LEMMA AfterLossTypes ==
  ASSUME TypeOK, NEW w \in Workers, NEW arrived \in SUBSET Envelopes
  PROVE  /\ QueueAfterLoss(w, arrived) \in [Envelopes -> MessageStates]
         /\ PublishesWithout(w) \in [Envelopes -> PublishStates]
<1>1. ASSUME NEW e \in Envelopes
      PROVE  QueueAfterLoss(w, arrived)[e] \in MessageStates
  <2>1. publish[e].jobs \in SUBSET Jobs /\ message[e] \in MessageStates
    BY DEF TypeOK, PublishStates
  <2> QED
    BY <2>1 DEF QueueAfterLoss, MessageStates
<1>2. QueueAfterLoss(w, arrived) = [e \in Envelopes |-> QueueAfterLoss(w, arrived)[e]]
  BY DEF QueueAfterLoss
<1>3. PublishesWithout(w) \in [Envelopes -> PublishStates]
  BY Nobody DEF TypeOK, PublishesWithout
<1> QED
  BY <1>1, <1>2, <1>3

LEMMA UnackedTypes ==
  ASSUME TypeInv, NEW w \in Workers
  PROVE  UnackedJobs(w) \subseteq QueueJobs /\ UnackedBatches(w) \subseteq Envelopes
BY DEF TypeInv, Answerable, TypeOK, UnackedJobs, UnackedBatches, FlushesOf, DeliveriesOf,
       FlushStates, DeliveryStates

LEMMA BreakerTypes ==
  ASSUME TypeOK, NEW w \in Workers
  PROVE  /\ AfterSuccess(w) \in [Workers -> {"closed", "open", "half_open", "probing"}]
         /\ AfterFailure(w) \subseteq [Workers -> {"closed", "open", "half_open", "probing"}]
BY DEF TypeOK, AfterSuccess, AfterFailure

(* A worker that goes down leaves all but requests, books and faults.      *)
LEMMA DownTypes ==
  ASSUME TypeInv, NEW w \in Workers, WorkerDown(w), requests' = requests,
         deducted' \in [Jobs -> Nat], rows' \in [Jobs -> Nat], faults' \in Nat,
         passed' \subseteq Jobs
  PROVE  TypeInv'
<1>1. PICK arrived \in SUBSET Sending(w), rejected \in SUBSET UnackedBatches(w) :
    /\ message' = [e \in Envelopes |->
                     IF e \in rejected THEN NoMessage
                     ELSE QueueAfterLoss(w, arrived)[e]]
    /\ dead' = dead \cup UNION {message[e].jobs : e \in rejected}
    /\ dropped' = dropped \cup (InMemory(w, arrived) \ UnackedJobs(w))
    /\ copies' = CopiesAfter(UnackedJobs(w), UnackedBatches(w) \ rejected,
                             {e \in arrived : flush[e].pc # "publish"})
  BY DEF WorkerDown
<1>2. arrived \in SUBSET Envelopes /\ rejected \in SUBSET Envelopes
  BY UnackedTypes DEF Sending, Publishing
<1>3. message' \in [Envelopes -> MessageStates]
  BY <1>1, <1>2, AfterLossTypes, Nobody DEF TypeInv
<1>4. publish' \in [Envelopes -> PublishStates]
  <2>1. publish' = PublishesWithout(w)
    BY DEF WorkerDown
  <2> QED
    BY <1>2, <2>1, AfterLossTypes DEF TypeInv
<1>5. dead' \subseteq Jobs
  BY <1>1, <1>2 DEF TypeInv, TypeOK, MessageStates
<1>6. flush' \in [Envelopes -> FlushStates] /\ Answerable'
  <2>1. NoFlush.caller = "timer"
    BY DEF NoFlush
  <2>2. flush' = [e \in Envelopes |-> IF e \in FlushesOf(w) THEN NoFlush ELSE flush[e]]
    BY DEF WorkerDown
  <2> QED
    BY <2>1, <2>2, Nobody DEF TypeInv, TypeOK, Answerable
<1>7. delivery' \in [Deliveries -> DeliveryStates]
  BY Nobody DEF WorkerDown, TypeInv, TypeOK
<1>8. queue' \subseteq QueueJobs
  BY UnackedTypes DEF WorkerDown, TypeInv, TypeOK
<1>9. /\ batch' \in [Workers -> SUBSET Jobs] /\ batchTimer' \subseteq Workers
      /\ online' \subseteq Workers
      /\ breaker' \in [Workers -> {"closed", "open", "half_open", "probing"}]
      /\ stale' \subseteq Executions
      /\ requests' \subseteq HttpJobs
  BY DEF WorkerDown, TypeInv, TypeOK
<1>10. charging' \in [Executions -> SUBSET Jobs]
  BY DEF WorkerDown, TypeInv, TypeOK
<1>11. dropped' \subseteq Jobs
  <2>1. Pending(w) \ arrived \subseteq Envelopes
    BY DEF Pending, FlushesOf
  <2>2. InMemory(w, arrived) \subseteq Jobs
    BY <2>1, UsagesTypes DEF InMemory, TypeInv, TypeOK
  <2> QED
    BY <1>1, <2>2 DEF TypeInv, TypeOK
<1>12. copies' \in [Jobs -> Nat]
  <2> DEFINE late == {e \in arrived : flush[e].pc # "publish"}
  <2>1. late \in SUBSET Envelopes /\ UnackedBatches(w) \ rejected \in SUBSET Envelopes
    BY <1>2, UnackedTypes
  <2> HIDE DEF late
  <2> QED
    BY <1>1, <2>1, CopiesTypes DEF TypeInv, late
<1> QED
  BY <1>3, <1>4, <1>5, <1>6, <1>7, <1>8, <1>9, <1>10, <1>11, <1>12 DEF TypeInv, TypeOK

(* What a flush is after its worker lost the connection.                   *)
LEMMA LostFlush ==
  ASSUME NEW w \in Workers, NEW e \in Envelopes, flush[e] \in FlushStates
  PROVE  /\ FlushesAfterLoss(w)[e] \in FlushStates
         /\ FlushesAfterLoss(w)[e].caller = "message" => FlushesAfterLoss(w)[e] = flush[e]
         /\ FlushesAfterLoss(w)[e].jobs = flush[e].jobs
         /\ FlushesAfterLoss(w)[e].pc =
              IF e \in FlushesOf(w) /\ e \in Swallowed(w) THEN "resolved" ELSE flush[e].pc
         /\ FlushesAfterLoss(w)[e].worker = flush[e].worker
<1> DEFINE pc == IF e \in Swallowed(w) THEN "resolved" ELSE flush[e].pc
           caller == IF flush[e].caller = "message" THEN "orphan" ELSE flush[e].caller
<1>1. FlushesAfterLoss(w)[e] =
        IF e \in FlushesOf(w) THEN [flush[e] EXCEPT !.pc = pc, !.caller = caller] ELSE flush[e]
  BY Zenon DEF FlushesAfterLoss
<1>2. pc \in {"idle", "publish", "direct", "commit", "resolved", "rejected"}
  BY DEF FlushStates
<1>3. caller \in {"timer", "request", "orphan"}
  BY DEF FlushStates
<1>4. (e \notin Swallowed(w) => pc = flush[e].pc) /\ (e \in Swallowed(w) => pc = "resolved")
  OBVIOUS
<1> HIDE DEF pc, caller
<1> QED
  BY <1>1, <1>2, <1>3, <1>4 DEF FlushStates

LEMMA ConnectionLostTypes ==
  ASSUME TypeInv, NEW w \in Workers, ConnectionLost(w)
  PROVE  TypeInv'
<1>1. PICK arrived \in SUBSET Sending(w) :
        /\ message' = QueueAfterLoss(w, arrived)
        /\ copies' = CopiesAfter(UnackedJobs(w), UnackedBatches(w), arrived)
  BY DEF ConnectionLost
<1>2. arrived \in SUBSET Envelopes
  BY DEF Sending, Publishing
<1>3. message' \in [Envelopes -> MessageStates] /\ publish' \in [Envelopes -> PublishStates]
  BY <1>1, <1>2, AfterLossTypes DEF ConnectionLost, TypeInv
<1>0. flush' = FlushesAfterLoss(w)
  BY DEF ConnectionLost
<1>4. /\ Swallowed(w) \subseteq Envelopes
      /\ breaker' = IF Swallowed(w) # {} THEN AfterSuccess(w) ELSE breaker
      /\ dropped' = dropped \cup UsagesOf(Swallowed(w))
  BY DEF ConnectionLost, Swallowed, Publishing
<1>5. flush' \in [Envelopes -> FlushStates] /\ Answerable'
  <2>1. ASSUME NEW e \in Envelopes
        PROVE  /\ flush'[e] \in FlushStates
               /\ flush'[e].caller = "message" => flush'[e].job \in QueueJobs
    <3>1. flush[e] \in FlushStates /\ (flush[e].caller = "message" => flush[e].job \in QueueJobs)
      BY DEF TypeInv, TypeOK, Answerable
    <3> QED
      BY <1>0, <3>1, LostFlush
  <2>2. DOMAIN flush' = Envelopes /\ flush' = [e \in Envelopes |-> flush'[e]]
    BY <1>0, Zenon DEF FlushesAfterLoss
  <2> QED
    BY <2>1, <2>2 DEF Answerable
<1>6. breaker' \in [Workers -> {"closed", "open", "half_open", "probing"}]
  BY <1>4, BreakerTypes DEF TypeInv, TypeOK
<1>7. delivery' \in [Deliveries -> DeliveryStates]
  <2>1. delivery' = [d \in Deliveries |->
                      IF d \in DeliveriesOf(w)
                      THEN [delivery[d] EXCEPT !.orphan = TRUE] ELSE delivery[d]]
    BY DEF ConnectionLost
  <2>2. delivery \in [Deliveries -> DeliveryStates]
    BY DEF TypeInv, TypeOK
  <2> QED
    BY <2>1, <2>2 DEF DeliveryStates
<1>8. queue' \subseteq QueueJobs /\ online' \subseteq Workers /\ faults' \in Nat
  <2>1. queue' = queue \cup UnackedJobs(w) /\ online' = online \ {w} /\ faults' = faults + 1
    BY DEF ConnectionLost, Fault
  <2> QED
    BY <2>1, UnackedTypes DEF TypeInv, TypeOK
<1>9. dropped' \subseteq Jobs
  BY <1>4, UsagesTypes DEF TypeInv, TypeOK
<1>10. copies' \in [Jobs -> Nat]
  BY <1>1, <1>2, UnackedTypes, CopiesTypes DEF TypeInv
<1> QED
  BY <1>3, <1>5, <1>6, <1>7, <1>8, <1>9, <1>10 DEF ConnectionLost, books, TypeInv, TypeOK

-----------------------------------------------------------------------------
(* Batches and their timers *)

LEMMA FlushTypes ==
  ASSUME TypeInv, NEW e \in Envelopes, NEW w \in Workers, NEW jobs \in SUBSET Jobs,
         NEW caller \in {"timer", "request", "message"}, NEW j \in Jobs,
         caller = "message" => j \in QueueJobs, Flush(e, w, jobs, caller, j)
  PROVE  /\ batch' \in [Workers -> SUBSET Jobs] /\ batchTimer' \subseteq Workers
         /\ flush' \in [Envelopes -> FlushStates] /\ Answerable'
         /\ publish' \in [Envelopes -> PublishStates]
         /\ breaker' \in [Workers -> {"closed", "open", "half_open", "probing"}]
         /\ dropped' \subseteq Jobs
<1> DEFINE f == [NoFlush EXCEPT !.worker = w, !.jobs = jobs, !.caller = caller, !.job = j]
<1>1. batch' \in [Workers -> SUBSET Jobs] /\ batchTimer' \subseteq Workers
  BY DEF Flush, RemainingBatch, TypeInv, TypeOK
<1>2. \A pc \in {"publish", "resolved", "direct"} :
        /\ [f EXCEPT !.pc = pc] \in FlushStates
        /\ [f EXCEPT !.pc = pc].caller = caller /\ [f EXCEPT !.pc = pc].job = j
  BY Nobody DEF FlushStates
<1>3. \E pc \in {"publish", "resolved", "direct"} :
        flush' = [flush EXCEPT ![e] = [f EXCEPT !.pc = pc]]
  BY DEF Flush
<1> HIDE DEF f
<1>4. flush' \in [Envelopes -> FlushStates] /\ Answerable'
  <2>1. PICK pc \in {"publish", "resolved", "direct"} :
          flush' = [flush EXCEPT ![e] = [f EXCEPT !.pc = pc]]
    BY <1>3
  <2> DEFINE g == [f EXCEPT !.pc = pc]
  <2>2. g \in FlushStates /\ g.caller = caller /\ g.job = j
    BY <1>2
  <2>3. flush' = [flush EXCEPT ![e] = g]
    BY <2>1
  <2> HIDE DEF g
  <2> QED
    BY <2>2, <2>3 DEF TypeInv, TypeOK, Answerable
<1>5. publish' \in [Envelopes -> PublishStates]
  <2>1. \/ publish' = publish
        \/ publish' = [publish EXCEPT ![e] = [pc |-> "asserting", worker |-> w, jobs |-> jobs]]
    BY DEF Flush
  <2> QED
    BY <2>1 DEF TypeInv, TypeOK, PublishStates
<1>6. breaker' \in [Workers -> {"closed", "open", "half_open", "probing"}]
  <2>1. \/ breaker' = breaker \/ breaker' = AfterSuccess(w)
        \/ breaker' = [breaker EXCEPT ![w] = "probing"]
    BY DEF Flush
  <2> QED
    BY <2>1, BreakerTypes DEF TypeInv, TypeOK
<1>7. dropped' \subseteq Jobs
  BY DEF Flush, TypeInv, TypeOK
<1> QED
  BY <1>1, <1>4, <1>5, <1>6, <1>7

LEMMA AddTypes ==
  ASSUME TypeInv, NEW w \in Workers, NEW caller \in {"request", "message"}, NEW j \in Jobs,
         caller = "message" => j \in QueueJobs, AddToBatch(w, j, caller)
  PROVE  /\ batch' \in [Workers -> SUBSET Jobs] /\ batchTimer' \subseteq Workers
         /\ flush' \in [Envelopes -> FlushStates] /\ Answerable'
         /\ publish' \in [Envelopes -> PublishStates]
         /\ breaker' \in [Workers -> {"closed", "open", "half_open", "probing"}]
         /\ dropped' \subseteq Jobs
<1> DEFINE jobs == batch[w] \cup {j}
           own == IF caller = "message" THEN j ELSE NoFlush.job
<1>1. jobs \in SUBSET Jobs
  BY DEF TypeInv, TypeOK
<1>2. own \in Jobs /\ (caller = "message" => own \in QueueJobs)
  BY Nobody DEF FlushStates
<1>3. CASE \E e \in Envelopes : Flush(e, w, jobs, caller, own)
  <2> HIDE DEF jobs, own
  <2> QED
    BY <1>1, <1>2, <1>3, FlushTypes
<1>4. CASE /\ batch' = [batch EXCEPT ![w] = jobs]
           /\ batchTimer' = batchTimer \cup {w}
           /\ UNCHANGED <<flush, publish, breaker, dropped>>
  <2> HIDE DEF jobs
  <2> QED
    BY <1>1, <1>4 DEF TypeInv, TypeOK, Answerable
<1> QED
  BY <1>3, <1>4 DEF AddToBatch, TimerWanted

LEMMA WorkerStepTypes ==
  ASSUME TypeInv, NEW w \in Workers, WorkerStep(w)
  PROVE  TypeInv'
<1>1. CASE TimerFires(w)
  <2>1. PICK e \in Envelopes : Flush(e, w, batch[w], "timer", NoFlush.job)
    BY <1>1 DEF TimerFires
  <2>2. batch[w] \in SUBSET Jobs /\ NoFlush.job \in Jobs
    BY Nobody DEF TypeInv, TypeOK, FlushStates
  <2>3. /\ batch' \in [Workers -> SUBSET Jobs] /\ batchTimer' \subseteq Workers
        /\ flush' \in [Envelopes -> FlushStates] /\ Answerable'
        /\ publish' \in [Envelopes -> PublishStates]
        /\ breaker' \in [Workers -> {"closed", "open", "half_open", "probing"}]
        /\ dropped' \subseteq Jobs
    BY <2>1, <2>2, FlushTypes
  <2> QED
    BY <1>1, <2>3 DEF TimerFires, books, TypeInv, TypeOK
<1>2. ASSUME NEW j \in Jobs, EndMessage(w, j)
      PROVE  TypeInv'
  <2>1. j \in QueueJobs /\ AddToBatch(w, j, "message")
    BY <1>2 DEF EndMessage, TypeInv, TypeOK
  <2>2. /\ batch' \in [Workers -> SUBSET Jobs] /\ batchTimer' \subseteq Workers
        /\ flush' \in [Envelopes -> FlushStates] /\ Answerable'
        /\ publish' \in [Envelopes -> PublishStates]
        /\ breaker' \in [Workers -> {"closed", "open", "half_open", "probing"}]
        /\ dropped' \subseteq Jobs
    BY <2>1, AddTypes
  <2> QED
    BY <1>2, <2>2 DEF EndMessage, books, TypeInv, TypeOK
<1>3. ASSUME NEW j \in Jobs, EndRequest(w, j)
      PROVE  TypeInv'
  <2>1. AddToBatch(w, j, "request")
    BY <1>3 DEF EndRequest
  <2>2. /\ batch' \in [Workers -> SUBSET Jobs] /\ batchTimer' \subseteq Workers
        /\ flush' \in [Envelopes -> FlushStates] /\ Answerable'
        /\ publish' \in [Envelopes -> PublishStates]
        /\ breaker' \in [Workers -> {"closed", "open", "half_open", "probing"}]
        /\ dropped' \subseteq Jobs
    BY <2>1, AddTypes
  <2> QED
    BY <1>3, <2>2 DEF EndRequest, books, TypeInv, TypeOK
<1>4. CASE Reconnect(w) \/ BreakerReset(w)
  <2>1. breaker' \in [Workers -> {"closed", "open", "half_open", "probing"}]
        /\ online' \subseteq Workers
    BY <1>4 DEF Reconnect, BreakerReset, TypeInv, TypeOK
  <2>2. UNCHANGED <<queue, requests, batch, batchTimer, flush, publish, message, delivery,
                    charging, deducted, rows, passed, dropped, copies, dead, stale, faults>>
    BY <1>4 DEF Reconnect, BreakerReset, books, astray
  <2> QED
    BY <2>1, <2>2 DEF TypeInv, TypeOK, Answerable
<1>5. ASSUME NEW d \in Deliveries, NEW e \in Envelopes, BatchDelivered(d, e, w)
      PROVE  TypeInv'
  <2>1. message' \in [Envelopes -> MessageStates] /\ message[e].jobs \in SUBSET Jobs
    BY <1>5 DEF BatchDelivered, TypeInv, TypeOK, MessageStates
  <2>2. delivery' \in [Deliveries -> DeliveryStates]
    BY <1>5, <2>1 DEF BatchDelivered, TypeInv, TypeOK, DeliveryStates
  <2>3. charging' \in [Executions -> SUBSET Jobs] /\ faults' \in Nat
    BY <1>5, <2>1, BeginTypes DEF BatchDelivered, TypeInv
  <2> QED
    BY <1>5, <2>1, <2>2, <2>3 DEF BatchDelivered, books, astray, TypeInv, TypeOK, Answerable
<1> QED
  BY <1>1, <1>2, <1>3, <1>4, <1>5 DEF WorkerStep

-----------------------------------------------------------------------------
(* The steps of a flush and of a delivery *)

(* A step that changes where one flush stands.                             *)
LEMMA OneFlush ==
  ASSUME TypeInv, NEW e \in Envelopes, NEW g \in FlushStates,
         (g.caller = flush[e].caller /\ g.job = flush[e].job) \/ g.caller = "timer",
         flush' = [flush EXCEPT ![e] = g]
  PROVE  flush' \in [Envelopes -> FlushStates] /\ Answerable'
BY DEF TypeInv, TypeOK, Answerable

LEMMA FlushStepTypes ==
  ASSUME TypeInv, NEW e \in Envelopes, FlushStep(e) \/ PublishNacked(e)
  PROVE  TypeInv'
<1>1. flush[e] \in FlushStates /\ flush[e].worker \in Workers /\ flush[e].jobs \in SUBSET Jobs
      /\ publish[e] \in PublishStates /\ publish[e].jobs \in SUBSET Jobs
  BY DEF TypeInv, TypeOK, FlushStates, PublishStates
<1>2. \A pc \in {"idle", "publish", "direct", "commit", "resolved", "rejected"} :
        /\ [flush[e] EXCEPT !.pc = pc] \in FlushStates
        /\ [flush[e] EXCEPT !.pc = pc].caller = flush[e].caller
        /\ [flush[e] EXCEPT !.pc = pc].job = flush[e].job
  BY <1>1 DEF FlushStates
<1>3. /\ AfterSuccess(flush[e].worker) \in [Workers -> {"closed", "open", "half_open", "probing"}]
      /\ AfterFailure(flush[e].worker) \subseteq [Workers -> {"closed", "open", "half_open", "probing"}]
  BY <1>1, BreakerTypes DEF TypeInv
<1>4. CASE QueueAsserted(e)
  <2>1. publish' \in [Envelopes -> PublishStates]
    <3>1. publish \in [Envelopes -> PublishStates]
      BY DEF TypeInv, TypeOK
    <3> QED
      BY <1>4, <3>1 DEF QueueAsserted, PublishStates
  <2> QED
    BY <1>4, <2>1 DEF QueueAsserted, books, astray, TypeInv, TypeOK, Answerable
<1>5. CASE PublishConfirmed(e)
  <2>1. publish' \in [Envelopes -> PublishStates]
    BY <1>5, Nobody DEF PublishConfirmed, TypeInv, TypeOK
  <2>2. message' \in [Envelopes -> MessageStates]
    BY <1>1, <1>5 DEF PublishConfirmed, TypeInv, TypeOK, MessageStates
  <2>3. flush' \in [Envelopes -> FlushStates] /\ Answerable'
    <3>1. flush' = flush \/ flush' = [flush EXCEPT ![e] = [flush[e] EXCEPT !.pc = "resolved"]]
      BY <1>5 DEF PublishConfirmed
    <3> QED
      BY <1>2, <3>1, OneFlush DEF TypeInv, TypeOK, Answerable
  <2>4. breaker' \in [Workers -> {"closed", "open", "half_open", "probing"}]
    BY <1>3, <1>5 DEF PublishConfirmed, TypeInv, TypeOK
  <2>5. copies' \in [Jobs -> Nat]
    <3>1. copies' = copies \/ copies' = CopiesAfter({}, {}, {e})
      BY <1>5 DEF PublishConfirmed
    <3>2. {} \in SUBSET Envelopes /\ {e} \in SUBSET Envelopes
      OBVIOUS
    <3>3. TypeOK
      BY DEF TypeInv
    <3>4. CopiesAfter({}, {}, {e}) \in [Jobs -> Nat]
      BY <3>2, <3>3, CopiesTypes
    <3>5. copies \in [Jobs -> Nat]
      BY <3>3 DEF TypeOK
    <3> QED
      BY <3>1, <3>4, <3>5
  <2> QED
    BY <1>5, <2>1, <2>2, <2>3, <2>4, <2>5 DEF PublishConfirmed, books, TypeInv, TypeOK
<1>6. CASE PublishNacked(e)
  <2>1. publish' \in [Envelopes -> PublishStates]
    BY <1>6, Nobody DEF PublishNacked, TypeInv, TypeOK
  <2>2. flush' \in [Envelopes -> FlushStates] /\ Answerable'
    <3>1. flush' = flush \/ flush' = [flush EXCEPT ![e] = [flush[e] EXCEPT !.pc = "direct"]]
      BY <1>6 DEF PublishNacked
    <3> QED
      BY <1>2, <3>1, OneFlush DEF TypeInv, TypeOK, Answerable
  <2>3. breaker' \in [Workers -> {"closed", "open", "half_open", "probing"}] /\ faults' \in Nat
    BY <1>3, <1>6 DEF PublishNacked, Fault, TypeInv, TypeOK
  <2> QED
    BY <1>6, <2>1, <2>2, <2>3 DEF PublishNacked, books, astray, TypeInv, TypeOK
<1>7. CASE BreakerTimeout(e)
  <2>1. flush' \in [Envelopes -> FlushStates] /\ Answerable'
    <3>1. flush' = [flush EXCEPT ![e] = [flush[e] EXCEPT !.pc = "direct"]]
      BY <1>7 DEF BreakerTimeout
    <3> QED
      BY <1>2, <3>1, OneFlush
  <2>2. breaker' \in [Workers -> {"closed", "open", "half_open", "probing"}] /\ faults' \in Nat
    BY <1>3, <1>7 DEF BreakerTimeout, Fault, TypeInv, TypeOK
  <2> QED
    BY <1>7, <2>1, <2>2 DEF BreakerTimeout, books, astray, TypeInv, TypeOK
<1>8. CASE DirectBegin(e)
  <2>1. flush' \in [Envelopes -> FlushStates] /\ Answerable'
    <3>1. flush' = [flush EXCEPT ![e] = [flush[e] EXCEPT !.pc = "commit"]]
      BY <1>8 DEF DirectBegin
    <3> QED
      BY <1>2, <3>1, OneFlush
  <2> QED
    BY <1>1, <1>8, <2>1, BeginTypes DEF DirectBegin, books, astray, TypeInv, TypeOK
<1>9. /\ NextAttempt(e) \in [Envelopes -> FlushStates]
      /\ flush' = NextAttempt(e) => Answerable'
  <2>1. PICK pc \in {"direct", "rejected"} :
          NextAttempt(e) = [flush EXCEPT ![e] = [flush[e] EXCEPT !.pc = pc, !.attempt = 2]]
    BY DEF NextAttempt
  <2>2. [flush[e] EXCEPT !.pc = pc, !.attempt = 2] =
          [[flush[e] EXCEPT !.pc = pc] EXCEPT !.attempt = 2]
    OBVIOUS
  <2>3. \A g \in FlushStates : /\ [g EXCEPT !.attempt = 2] \in FlushStates
                               /\ [g EXCEPT !.attempt = 2].caller = g.caller
                               /\ [g EXCEPT !.attempt = 2].job = g.job
    BY DEF FlushStates
  <2> DEFINE g == [[flush[e] EXCEPT !.pc = pc] EXCEPT !.attempt = 2]
  <2>4. g \in FlushStates /\ g.caller = flush[e].caller /\ g.job = flush[e].job
    BY <1>2, <2>3
  <2>5. NextAttempt(e) = [flush EXCEPT ![e] = g]
    BY <2>1, <2>2
  <2> HIDE DEF g
  <2>6. NextAttempt(e) \in [Envelopes -> FlushStates]
    BY <2>4, <2>5 DEF TypeInv, TypeOK
  <2>7. flush' = NextAttempt(e) => Answerable'
    BY <2>4, <2>5, OneFlush
  <2> QED
    BY <2>6, <2>7
<1>10. CASE DirectCommit(e)
  <2>1. flush' \in [Envelopes -> FlushStates] /\ Answerable'
    <3>1. CASE flush' = [flush EXCEPT ![e].pc = "resolved"]
      <4>1. flush' = [flush EXCEPT ![e] = [flush[e] EXCEPT !.pc = "resolved"]]
        BY <3>1
      <4> QED
        BY <1>2, <4>1, OneFlush
    <3> QED
      BY <1>9, <1>10, <3>1 DEF DirectCommit
  <2>2. PICK rowless : ChargeBatch(e, flush[e].jobs, rowless)
    BY <1>10 DEF DirectCommit
  <2>3. /\ deducted' \in [Jobs -> Nat] /\ rows' \in [Jobs -> Nat] /\ passed' \subseteq Jobs
        /\ stale' \subseteq Executions
        /\ charging' \in [Executions -> SUBSET Jobs]
    BY <1>1, <2>2, ChargeTypes DEF TypeInv
  <2>4. faults' \in Nat
    BY <1>10, HalfTypes DEF DirectCommit, Fault, TypeInv, TypeOK
  <2>5. copies' \in [Jobs -> Nat]
    <3>1. copies' = copies \/ copies' = CopiesAfter(flush[e].jobs, {}, {})
      BY <1>10 DEF DirectCommit
    <3>2. {} \in SUBSET Envelopes
      OBVIOUS
    <3>3. TypeOK
      BY DEF TypeInv
    <3>4. CopiesAfter(flush[e].jobs, {}, {}) \in [Jobs -> Nat]
      BY <3>2, <3>3, CopiesTypes
    <3>5. copies \in [Jobs -> Nat]
      BY <3>3 DEF TypeOK
    <3> QED
      BY <3>1, <3>4, <3>5
  <2> QED
    BY <1>10, <2>1, <2>3, <2>4, <2>5 DEF DirectCommit, TypeInv, TypeOK
<1>11. CASE DirectAbort(e)
  BY <1>9, <1>11 DEF DirectAbort, RowsAfterAbort, astray, TypeInv, TypeOK
<1>12. CASE FlushResolved(e)
  <2>1. CASE WorkerDown(flush[e].worker)
    BY <1>1, <1>12, <2>1, DownTypes DEF FlushResolved, books, astray, TypeInv, TypeOK
  <2>2. CASE flush' = Ended(e) /\ UNCHANGED <<queue, batch, batchTimer, online, breaker,
                                              publish, message, delivery, charging, astray,
                                              dead, stale>>
    <3>1. flush' \in [Envelopes -> FlushStates] /\ Answerable'
      <4>1. NoFlush.caller = "timer"
        BY DEF NoFlush
      <4> QED
        BY <2>2, <4>1, Nobody, OneFlush DEF Ended
    <3> QED
      BY <1>12, <2>2, <3>1 DEF FlushResolved, books, astray, TypeInv, TypeOK
  <2> QED
    BY <1>12, <2>1, <2>2 DEF FlushResolved
<1>13. CASE FlushRejected(e)
  <2>1. CASE WorkerDown(flush[e].worker)
    BY <1>1, <1>13, <2>1, DownTypes DEF FlushRejected, books, astray, TypeInv, TypeOK
  <2>2. CASE /\ \E refused \in SUBSET {flush[e].job} :
                  /\ dead' = dead \cup refused
                  /\ dropped' = dropped \cup (flush[e].jobs \ refused)
             /\ flush' = Ended(e)
             /\ UNCHANGED <<queue, batch, batchTimer, online, breaker, publish,
                            message, delivery, charging, copies, stale>>
    <3>1. flush' \in [Envelopes -> FlushStates] /\ Answerable'
      <4>1. NoFlush.caller = "timer"
        BY DEF NoFlush
      <4> QED
        BY <2>2, <4>1, Nobody, OneFlush DEF Ended
    <3>2. dead' \subseteq Jobs /\ dropped' \subseteq Jobs
      BY <1>1, <2>2 DEF TypeInv, TypeOK, FlushStates
    <3> QED
      BY <1>13, <2>2, <3>1, <3>2 DEF FlushRejected, books, astray, TypeInv, TypeOK
  <2> QED
    BY <1>13, <2>1, <2>2 DEF FlushRejected
<1> QED
  BY <1>4, <1>5, <1>6, <1>7, <1>8, <1>10, <1>11, <1>12, <1>13 DEF FlushStep

LEMMA DeliveryStepTypes ==
  ASSUME TypeInv, NEW d \in Deliveries, DeliveryStep(d)
  PROVE  TypeInv'
<1>1. delivery[d] \in DeliveryStates /\ delivery[d].worker \in Workers
      /\ delivery[d].envelope \in Envelopes /\ delivery[d].jobs \in SUBSET Jobs
  BY DEF TypeInv, TypeOK, DeliveryStates
<1>2. CASE BatchCommit(d)
  <2>1. PICK rowless : ChargeBatch(d, delivery[d].jobs, rowless)
    BY <1>2 DEF BatchCommit
  <2>2. /\ deducted' \in [Jobs -> Nat] /\ rows' \in [Jobs -> Nat] /\ passed' \subseteq Jobs
        /\ stale' \subseteq Executions
        /\ charging' \in [Executions -> SUBSET Jobs]
    BY <1>1, <2>1, ChargeTypes DEF TypeInv
  <2>3. delivery' \in [Deliveries -> DeliveryStates]
    <3>1. PICK pc \in {"ack", "nack"} : delivery' = [delivery EXCEPT ![d].pc = pc]
      BY <1>2 DEF BatchCommit
    <3>2. delivery \in [Deliveries -> DeliveryStates]
      BY DEF TypeInv, TypeOK
    <3> QED
      BY <3>1, <3>2 DEF DeliveryStates
  <2>4. faults' \in Nat
    BY <1>2, HalfTypes DEF BatchCommit, Fault, TypeInv, TypeOK
  <2> QED
    BY <1>2, <2>2, <2>3, <2>4 DEF BatchCommit, astray, TypeInv, TypeOK, Answerable
<1>3. CASE BatchAck(d)
  <2>1. CASE WorkerDown(delivery[d].worker)
    BY <1>1, <1>3, <2>1, DownTypes DEF BatchAck, books, astray, TypeInv, TypeOK
  <2>2. CASE /\ message' = [message EXCEPT ![delivery[d].envelope] = NoMessage]
             /\ delivery' = [delivery EXCEPT ![d] = NoDelivery]
             /\ UNCHANGED <<queue, batch, batchTimer, online, breaker, flush,
                            publish, charging, astray, dead, stale>>
    <3>1. message' \in [Envelopes -> MessageStates] /\ delivery' \in [Deliveries -> DeliveryStates]
      BY <2>2, Nobody DEF TypeInv, TypeOK
    <3> QED
      BY <1>3, <2>2, <3>1 DEF BatchAck, books, astray, TypeInv, TypeOK, Answerable
  <2> QED
    BY <1>3, <2>1, <2>2 DEF BatchAck
<1>4. CASE BatchAbort(d)
  <2>1. /\ rows' = rows /\ deducted' = deducted /\ passed' = passed
        /\ faults' = faults /\ requests' = requests
    BY <1>4 DEF BatchAbort, RowsAfterAbort
  <2>2. CASE WorkerDown(delivery[d].worker)
    BY <1>1, <2>1, <2>2, DownTypes DEF TypeInv, TypeOK
  <2>3. CASE /\ message' = [message EXCEPT ![delivery[d].envelope] = NoMessage]
             /\ dead' = dead \cup DeadLettered(delivery[d].jobs)
             /\ delivery' = [delivery EXCEPT ![d] = NoDelivery]
             /\ charging' = [charging EXCEPT ![d] = {}]
             /\ stale' = stale \ {d}
             /\ UNCHANGED <<queue, batch, batchTimer, online, breaker, flush, publish, astray>>
    <3>1. message' \in [Envelopes -> MessageStates] /\ delivery' \in [Deliveries -> DeliveryStates]
      BY <2>3, Nobody DEF TypeInv, TypeOK
    <3>2. dead' \subseteq Jobs
      BY <1>1, <2>3 DEF DeadLettered, TypeInv, TypeOK
    <3> QED
      BY <2>1, <2>3, <3>1, <3>2 DEF astray, TypeInv, TypeOK, Answerable
  <2> QED
    BY <1>4, <2>2, <2>3 DEF BatchAbort
<1> QED
  BY <1>2, <1>3, <1>4 DEF DeliveryStep

LEMMA NextTypes == TypeInv /\ [Next]_vars => TypeInv'
<1> SUFFICES ASSUME TypeInv, [Next]_vars PROVE TypeInv'
  OBVIOUS
<1>1. ASSUME NEW w \in Workers, Crash(w)
      PROVE  TypeInv'
  <2>1. faults' \in Nat /\ WorkerDown(w) /\ UNCHANGED <<requests, books>>
    BY <1>1 DEF Crash, Fault, TypeInv, TypeOK
  <2> QED
    BY <2>1, DownTypes DEF books, TypeInv, TypeOK
<1>2. CASE UNCHANGED vars
  BY <1>2 DEF vars, TypeInv, TypeOK, Answerable
<1> QED
  BY <1>1, <1>2, FlushStepTypes, DeliveryStepTypes, WorkerStepTypes, ConnectionLostTypes
  DEF Next

(* Every variable keeps its type.                                          *)
THEOREM TypeCorrect == Spec => []TypeOK
<1>1. TypeInv => TypeOK
  BY DEF TypeInv
<1> QED
  BY <1>1, InitTypes, NextTypes, PTL DEF Spec

-----------------------------------------------------------------------------
(* Rows and charges *)

(* No row without a charge; a charge without a row needs an operation that *)
(* fails between the two (processBatchForUser swallows its error).         *)
RowsHaveCharges == \A j \in Jobs : rows[j] <= deducted[j]

LEMMA NextBooks ==
  ASSUME TypeInv, [Next]_vars
  PROVE  UNCHANGED books \/ \E t, jobs, rowless : ChargeBatch(t, jobs, rowless)
<1>1. ASSUME NEW w \in Workers, WorkerStep(w) \/ ConnectionLost(w) \/ Crash(w)
      PROVE  UNCHANGED books
  BY <1>1 DEF WorkerStep, TimerFires, Reconnect, BreakerReset, EndMessage, EndRequest,
              BatchDelivered, ConnectionLost, Crash
<1>2. ASSUME NEW e \in Envelopes, FlushStep(e) \/ PublishNacked(e)
      PROVE  UNCHANGED books \/ \E t, jobs, rowless : ChargeBatch(t, jobs, rowless)
  <2>1. CASE DirectCommit(e)
    BY <2>1 DEF DirectCommit
  <2>2. CASE DirectAbort(e)
    BY <2>2 DEF DirectAbort, RowsAfterAbort, books
  <2> QED
    BY <1>2, <2>1, <2>2 DEF FlushStep, PublishNacked, QueueAsserted, PublishConfirmed,
       BreakerTimeout, DirectBegin, FlushResolved, FlushRejected
<1>3. ASSUME NEW d \in Deliveries, DeliveryStep(d)
      PROVE  UNCHANGED books \/ \E t, jobs, rowless : ChargeBatch(t, jobs, rowless)
  <2>1. CASE BatchCommit(d)
    BY <2>1 DEF BatchCommit
  <2>2. CASE BatchAbort(d)
    BY <2>2 DEF BatchAbort, RowsAfterAbort, books
  <2> QED
    BY <1>3, <2>1, <2>2 DEF DeliveryStep, BatchAck
<1> QED
  BY <1>1, <1>2, <1>3 DEF Next, vars, books

(* No row is written without its charge, whatever aborts or is repeated:   *)
(* both are written by one Mongo transaction.                              *)
THEOREM RowsAreCharged == Spec => []RowsHaveCharges
<1>1. Init => RowsHaveCharges
  BY DEF Init, RowsHaveCharges
<1>2. TypeInv /\ RowsHaveCharges /\ [Next]_vars => RowsHaveCharges'
  <2> SUFFICES ASSUME TypeInv, RowsHaveCharges, [Next]_vars, NEW j \in Jobs
               PROVE  rows'[j] <= deducted'[j]
    BY DEF RowsHaveCharges
  <2>1. deducted[j] \in Nat /\ rows[j] \in Nat /\ rows[j] <= deducted[j]
    BY DEF TypeInv, TypeOK, RowsHaveCharges
  <2>2. CASE UNCHANGED books
    BY <2>1, <2>2 DEF books
  <2>3. CASE \E t, jobs, rowless : ChargeBatch(t, jobs, rowless)
    <3>0. PICK t, jobs, rowless : ChargeBatch(t, jobs, rowless)
      BY <2>3
    <3>1.   /\ deducted' = [i \in Jobs |-> IF i \in charging[t]
                                           THEN deducted[i] + 1 ELSE deducted[i]]
            /\ rows' = [i \in Jobs |-> IF i \in charging[t] \ rowless
                                       THEN rows[i] + 1 ELSE rows[i]]
      BY <3>0 DEF ChargeBatch
    <3> QED
      BY <2>1, <3>1
  <2> QED
    BY <2>2, <2>3, NextBooks
<1>3. Spec => []TypeInv
  BY InitTypes, NextTypes, PTL DEF Spec
<1> QED
  BY <1>1, <1>2, <1>3, PTL DEF Spec

-----------------------------------------------------------------------------
(* While nothing has failed *)

(* Every worker is connected, every flush publishes, and its publish ends  *)
(* as a message.                                                           *)
Calm ==
  /\ online = Workers
  /\ \A w \in Workers : breaker[w] = "closed"
  /\ \A e \in Envelopes :
       /\ flush[e].pc \in {"idle", "publish", "resolved"} /\ flush[e].caller # "orphan"
       /\ flush[e].pc = "publish" <=> publish[e].pc # "none"
       /\ publish[e].pc = "none" => publish[e].jobs = {}
       /\ message[e].pc = "none" => message[e].jobs = {}
       /\ publish[e].pc # "none" => message[e].pc = "none"
  /\ \A d \in Deliveries : ~delivery[d].orphan /\ delivery[d].pc # "nack"
  /\ dropped = {}

(* A usage is in one place, and a charged one at most in the message that  *)
(* a delivery is about to acknowledge.                                     *)
InOnePlace ==
  \A j \in Jobs :
    /\ deducted[j] <= 1
    /\ j \in queue \cup requests =>
         /\ deducted[j] = 0 /\ \A w \in Workers : j \notin batch[w]
         /\ \A e \in Envelopes : j \notin publish[e].jobs /\ j \notin message[e].jobs
    /\ \A w \in Workers : j \in batch[w] =>
         /\ deducted[j] = 0 /\ \A v \in Workers \ {w} : j \notin batch[v]
         /\ \A e \in Envelopes : j \notin publish[e].jobs /\ j \notin message[e].jobs
    /\ \A e \in Envelopes : j \in publish[e].jobs =>
         /\ deducted[j] = 0 /\ \A f \in Envelopes \ {e} : j \notin publish[f].jobs
         /\ \A f \in Envelopes : j \notin message[f].jobs
    /\ \A e \in Envelopes : j \in message[e].jobs =>
         /\ \A f \in Envelopes \ {e} : j \notin message[f].jobs
         /\ deducted[j] > 0 =>
              \E d \in Deliveries : delivery[d].pc = "ack" /\ delivery[d].envelope = e

(* A message is delivered once at a time, and its transaction charges no   *)
(* usage of another.                                                       *)
DeliveredOnce ==
  \A d \in Deliveries : delivery[d].pc # "idle" =>
    /\ message[delivery[d].envelope].pc = "unacked"
    /\ message[delivery[d].envelope].jobs = delivery[d].jobs
    /\ \A c \in Deliveries \ {d} :
         delivery[c].pc # "idle" => delivery[c].envelope # delivery[d].envelope
    /\ delivery[d].pc = "commit" => charging[d] \subseteq delivery[d].jobs

Undisturbed == Calm /\ InOnePlace /\ DeliveredOnce
UndisturbedInv == faults = 0 => Undisturbed

LEMMA InitUndisturbed == Init => UndisturbedInv
<1> SUFFICES ASSUME Init PROVE Undisturbed
  BY DEF UndisturbedInv
<1>1. /\ NoFlush.pc = "idle" /\ NoFlush.caller = "timer"
      /\ NoPublish.pc = "none" /\ NoPublish.jobs = {}
      /\ NoMessage.pc = "none" /\ NoMessage.jobs = {}
      /\ NoDelivery.pc = "idle" /\ ~NoDelivery.orphan
  BY DEF NoFlush, NoPublish, NoMessage, NoDelivery
<1>2. Calm
  BY <1>1 DEF Init, Calm
<1>3. InOnePlace
  BY <1>1 DEF Init, InOnePlace
<1>4. DeliveredOnce
  BY <1>1 DEF Init, DeliveredOnce
<1> QED
  BY <1>2, <1>3, <1>4 DEF Undisturbed

LEMMA FaultsGrow ==
  ASSUME TypeInv, [Next]_vars, faults' = 0
  PROVE  faults = 0
<1>1. faults \in Nat
  BY DEF TypeInv, TypeOK
<1>2. faults' = faults \/ faults' = faults + 1
  <2>1. ASSUME NEW w \in Workers, WorkerStep(w) \/ ConnectionLost(w) \/ Crash(w)
        PROVE  faults' = faults \/ faults' = faults + 1
    BY <2>1 DEF WorkerStep, TimerFires, Reconnect, BreakerReset, EndMessage, EndRequest,
                BatchDelivered, BeginCharging, ConnectionLost, Crash, Fault
  <2>2. ASSUME NEW e \in Envelopes, FlushStep(e) \/ PublishNacked(e)
        PROVE  faults' = faults \/ faults' = faults + 1
    BY <2>2 DEF FlushStep, PublishNacked, QueueAsserted, PublishConfirmed, DirectCommit,
       HalfCharged, BeginCharging, DirectAbort, BreakerTimeout, DirectBegin, FlushResolved, FlushRejected, Fault
  <2>3. ASSUME NEW d \in Deliveries, DeliveryStep(d)
        PROVE  faults' = faults \/ faults' = faults + 1
    BY <2>3 DEF DeliveryStep, BatchAck, BatchCommit, HalfCharged, BatchAbort, Fault
  <2> QED
    BY <2>1, <2>2, <2>3 DEF Next, vars
<1> QED
  BY <1>1, <1>2

(* A flush begins: its usages, which were nowhere else, are published.      *)
LEMMA FlushUndisturbed ==
  ASSUME TypeInv, Undisturbed, NEW e \in Envelopes, NEW w \in Workers,
         NEW jobs \in SUBSET Jobs, NEW caller \in {"timer", "request", "message"},
         NEW i \in Jobs,
         Flush(e, w, jobs, caller, i), UNCHANGED <<online, message, delivery>>
  PROVE  /\ batch' = [batch EXCEPT ![w] = {}]
         /\ publish' = [publish EXCEPT ![e] = [pc |-> "asserting", worker |-> w, jobs |-> jobs]]
         /\ publish[e].pc = "none" /\ message[e].pc = "none"
         /\ Calm'
<1> DEFINE g == [NoFlush EXCEPT !.worker = w, !.jobs = jobs, !.caller = caller, !.job = i]
<1>1. breaker[w] = "closed" /\ w \in online
  BY DEF Undisturbed, Calm
<1>2. flush' = [flush EXCEPT ![e] = [g EXCEPT !.pc = "publish"]]
      /\ publish' = [publish EXCEPT ![e] = [pc |-> "asserting", worker |-> w, jobs |-> jobs]]
      /\ breaker' = breaker /\ dropped' = dropped
  BY <1>1 DEF Flush
<1>3. [g EXCEPT !.pc = "publish"].pc = "publish" /\ [g EXCEPT !.pc = "publish"].caller = caller
  BY DEF NoFlush
<1> HIDE DEF g
<1>4. /\ batch' = [batch EXCEPT ![w] = {}]
      /\ publish[e].pc = "none" /\ message[e].pc = "none"
  BY DEF Flush, Free, RemainingBatch
<1>5. /\ flush'[e].pc = "publish" /\ flush'[e].caller = caller
      /\ \A f \in Envelopes \ {e} : flush'[f] = flush[f]
  BY <1>2, <1>3 DEF TypeInv, TypeOK
<1>6. publish'[e].pc = "asserting" /\ \A f \in Envelopes \ {e} : publish'[f] = publish[f]
  BY <1>2 DEF TypeInv, TypeOK
<1>7. Calm'
  BY <1>2, <1>4, <1>5, <1>6 DEF Undisturbed, Calm
<1> QED
  BY <1>2, <1>4, <1>7

(* A usage j that was reported, or that is in a batch already, moves to    *)
(* the batch of w or with it to a publish.                                 *)
LEMMA AddUndisturbed ==
  ASSUME TypeInv, Undisturbed, NEW w \in Workers, NEW caller \in {"request", "message"},
         NEW j \in queue \cup requests, AddToBatch(w, j, caller),
         queue' \cup requests' = (queue \cup requests) \ {j},
         UNCHANGED <<online, message, delivery, charging, deducted>>
  PROVE  Undisturbed'
<1> DEFINE jobs == batch[w] \cup {j}
           own == IF caller = "message" THEN j ELSE NoFlush.job
<1>0. jobs \in SUBSET Jobs /\ j \in Jobs /\ own \in Jobs
  BY JobsAssumption DEF TypeInv, TypeOK, Jobs, NoFlush
<1>1. CASE \E e \in Envelopes : Flush(e, w, jobs, caller, own)
  <2>1. PICK e \in Envelopes : Flush(e, w, jobs, caller, own)
    BY <1>1
  <2>0. caller \in {"timer", "request", "message"}
    OBVIOUS
  <2> HIDE DEF own, jobs
  <2>3. /\ batch' = [batch EXCEPT ![w] = {}]
        /\ publish' = [publish EXCEPT ![e] = [pc |-> "asserting", worker |-> w, jobs |-> jobs]]
        /\ publish[e].pc = "none" /\ message[e].pc = "none"
        /\ Calm'
    BY <1>0, <2>0, <2>1, FlushUndisturbed
  <2>2. Calm'
    BY <2>3
  <2>4. /\ batch'[w] = {} /\ \A v \in Workers \ {w} : batch'[v] = batch[v]
        /\ publish'[e].jobs = jobs /\ \A f \in Envelopes \ {e} : publish'[f] = publish[f]
        /\ publish[e].jobs = {} /\ message[e].jobs = {}
    BY <2>3 DEF TypeInv, TypeOK, Undisturbed, Calm
  <2>5. InOnePlace'
    BY <1>0, <2>4 DEF InOnePlace, Undisturbed, jobs
  <2>6. DeliveredOnce'
    BY DEF DeliveredOnce, Undisturbed
  <2> QED
    BY <2>2, <2>5, <2>6 DEF Undisturbed
<1>2. CASE /\ batch' = [batch EXCEPT ![w] = jobs]
           /\ batchTimer' = batchTimer \cup {w}
           /\ UNCHANGED <<flush, publish, breaker, dropped>>
  <2>1. batch'[w] = batch[w] \cup {j} /\ \A v \in Workers \ {w} : batch'[v] = batch[v]
    BY <1>2 DEF TypeInv, TypeOK
  <2>2. Calm'
    BY <1>2 DEF Undisturbed, Calm
  <2>3. InOnePlace'
    BY <1>0, <1>2, <2>1 DEF InOnePlace, Undisturbed
  <2>4. DeliveredOnce'
    BY DEF DeliveredOnce, Undisturbed
  <2> QED
    BY <2>2, <2>3, <2>4 DEF Undisturbed
<1> QED
  BY <1>1, <1>2 DEF AddToBatch, TimerWanted

LEMMA WorkerStepUndisturbed ==
  ASSUME TypeInv, Undisturbed, NEW w \in Workers, WorkerStep(w)
  PROVE  Undisturbed'
<1>1. CASE TimerFires(w)
  <2>1. PICK e \in Envelopes : Flush(e, w, batch[w], "timer", NoFlush.job)
    BY <1>1 DEF TimerFires
  <2>2. batch[w] \in SUBSET Jobs /\ NoFlush.job \in Jobs
    BY JobsAssumption DEF TypeInv, TypeOK, NoFlush
  <2>3. UNCHANGED <<online, queue, requests, message, delivery, charging, deducted>>
    BY <1>1 DEF TimerFires, books
  <2>4. /\ batch' = [batch EXCEPT ![w] = {}]
        /\ publish' = [publish EXCEPT ![e] = [pc |-> "asserting", worker |-> w, jobs |-> batch[w]]]
        /\ publish[e].pc = "none" /\ message[e].pc = "none"
        /\ Calm'
    BY <2>1, <2>2, <2>3, FlushUndisturbed
  <2>5. /\ batch'[w] = {} /\ \A v \in Workers \ {w} : batch'[v] = batch[v]
        /\ publish'[e].jobs = batch[w] /\ \A f \in Envelopes \ {e} : publish'[f] = publish[f]
        /\ publish[e].jobs = {} /\ message[e].jobs = {}
    BY <2>4 DEF TypeInv, TypeOK, Undisturbed, Calm
  <2>6. InOnePlace'
    BY <2>5, <2>3 DEF InOnePlace, Undisturbed
  <2>7. DeliveredOnce'
    BY <2>3 DEF DeliveredOnce, Undisturbed
  <2> QED
    BY <2>4, <2>6, <2>7 DEF Undisturbed
<1>2. ASSUME NEW j \in Jobs, EndMessage(w, j)
      PROVE  Undisturbed'
  <2>1. j \notin requests
    BY <1>2, JobsAssumption DEF EndMessage, TypeInv, TypeOK
  <2>2. queue' \cup requests' = (queue \cup requests) \ {j} /\ j \in queue
    BY <1>2, <2>1 DEF EndMessage
  <2> QED
    BY <1>2, <2>2, AddUndisturbed DEF EndMessage, books
<1>3. ASSUME NEW j \in Jobs, EndRequest(w, j)
      PROVE  Undisturbed'
  <2>1. j \notin queue
    BY <1>3, JobsAssumption DEF EndRequest, TypeInv, TypeOK
  <2>2. queue' \cup requests' = (queue \cup requests) \ {j} /\ j \in requests
    BY <1>3, <2>1 DEF EndRequest
  <2> QED
    BY <1>3, <2>2, AddUndisturbed DEF EndRequest, books
<1>4. ~Reconnect(w) /\ ~BreakerReset(w)
  BY DEF Reconnect, BreakerReset, Undisturbed, Calm
<1>5. ASSUME NEW d \in Deliveries, NEW e \in Envelopes, BatchDelivered(d, e, w)
      PROVE  Undisturbed'
  <2>1. /\ delivery'[d] = [pc |-> "commit", worker |-> w, envelope |-> e,
                           jobs |-> message[e].jobs, orphan |-> FALSE]
        /\ \A c \in Deliveries \ {d} : delivery'[c] = delivery[c]
        /\ delivery[d].pc = "idle" /\ message[e].pc = "ready"
    BY <1>5 DEF BatchDelivered, TypeInv, TypeOK
  <2>2. /\ message'[e].pc = "unacked" /\ message'[e].jobs = message[e].jobs
        /\ \A f \in Envelopes \ {e} : message'[f] = message[f]
    BY <1>5 DEF BatchDelivered, TypeInv, TypeOK, MessageStates
  <2>3. UNCHANGED <<queue, requests, batch, online, breaker, flush, publish, deducted, dropped>>
    BY <1>5 DEF BatchDelivered, books, astray
  <2>9. /\ charging'[d] \subseteq message[e].jobs
        /\ \A c \in Deliveries \ {d} : charging'[c] = charging[c]
    <3>1. PICK charged \in SUBSET message[e].jobs : charging' = [charging EXCEPT ![d] = charged]
      BY <1>5 DEF BatchDelivered, BeginCharging, Chargeable
    <3>2. charging \in [Executions -> SUBSET Jobs] /\ d \in Executions
      BY DEF TypeInv, TypeOK, Executions
    <3> QED
      BY <3>1, <3>2
  <2>4. Calm'
    BY <2>1, <2>2, <2>3 DEF Calm, Undisturbed
  <2>5. \A f \in Envelopes : message'[f].jobs = message[f].jobs
    BY <2>2
  <2>6. InOnePlace'
    BY <2>1, <2>3, <2>5 DEF InOnePlace, Undisturbed
  <2>7. DeliveredOnce'
    BY <2>1, <2>2, <2>3, <2>9 DEF DeliveredOnce, Undisturbed, TypeInv, TypeOK, DeliveryStates
  <2> QED
    BY <2>4, <2>6, <2>7 DEF Undisturbed
<1> QED
  BY <1>1, <1>2, <1>3, <1>4, <1>5 DEF WorkerStep

LEMMA FlushStepUndisturbed ==
  ASSUME TypeInv, Undisturbed, NEW e \in Envelopes, FlushStep(e), faults = 0, faults' = 0
  PROVE  Undisturbed'
<1>1. CASE QueueAsserted(e)
  <2>1. /\ publish'[e].pc = "sent" /\ publish'[e].jobs = publish[e].jobs
        /\ \A f \in Envelopes \ {e} : publish'[f] = publish[f]
        /\ publish[e].pc = "asserting"
    BY <1>1 DEF QueueAsserted, TypeInv, TypeOK, PublishStates
  <2>2. UNCHANGED <<queue, requests, batch, online, breaker, flush, message, delivery,
                    charging, deducted, dropped>>
    BY <1>1 DEF QueueAsserted, books, astray
  <2>3. Calm'
    BY <2>1, <2>2 DEF Undisturbed, Calm
  <2>4. \A f \in Envelopes : publish'[f].jobs = publish[f].jobs
    BY <2>1
  <2>5. InOnePlace' /\ DeliveredOnce'
    BY <2>2, <2>4 DEF Undisturbed, InOnePlace, DeliveredOnce
  <2> QED
    BY <2>3, <2>5 DEF Undisturbed
<1>2. CASE PublishConfirmed(e)
  <2>1. flush[e].pc = "publish" /\ message[e].pc = "none" /\ message[e].jobs = {}
    BY <1>2 DEF PublishConfirmed, Undisturbed, Calm
  <2>2. /\ publish' = [publish EXCEPT ![e] = NoPublish]
        /\ message' = [message EXCEPT ![e] = [pc |-> "ready", jobs |-> publish[e].jobs]]
        /\ flush' = [flush EXCEPT ![e].pc = "resolved"]
        /\ UNCHANGED <<queue, requests, batch, online, delivery, charging, deducted, dropped>>
    BY <1>2, <2>1 DEF PublishConfirmed, books
  <2>3. breaker' = breaker
    BY <1>2, <2>1 DEF PublishConfirmed, AfterSuccess, Undisturbed, Calm, TypeInv, TypeOK,
                      FlushStates
  <2>4. /\ publish'[e].pc = "none" /\ publish'[e].jobs = {}
        /\ \A f \in Envelopes \ {e} : publish'[f] = publish[f]
    BY <2>2 DEF NoPublish, TypeInv, TypeOK
  <2>5. /\ message'[e].pc = "ready" /\ message'[e].jobs = publish[e].jobs
        /\ \A f \in Envelopes \ {e} : message'[f] = message[f]
    BY <2>2 DEF TypeInv, TypeOK
  <2>6. /\ flush'[e].pc = "resolved" /\ flush'[e].caller = flush[e].caller
        /\ \A f \in Envelopes \ {e} : flush'[f] = flush[f]
    BY <2>2 DEF TypeInv, TypeOK, FlushStates
  <2>7. Calm'
    BY <2>2, <2>3, <2>4, <2>5, <2>6 DEF Undisturbed, Calm
  <2>8. InOnePlace'
    BY <2>1, <2>2, <2>4, <2>5 DEF Undisturbed, InOnePlace, TypeInv, TypeOK
  <2>9. DeliveredOnce'
    BY <2>1, <2>2, <2>5 DEF Undisturbed, DeliveredOnce
  <2> QED
    BY <2>7, <2>8, <2>9 DEF Undisturbed
<1>3. ~BreakerTimeout(e)
  BY DEF BreakerTimeout, Fault, Undisturbed, Calm
<1>4. ~DirectBegin(e) /\ ~DirectCommit(e) /\ ~DirectAbort(e) /\ ~FlushRejected(e)
  BY DEF DirectBegin, DirectCommit, DirectAbort, FlushRejected, Undisturbed, Calm
<1>5. CASE FlushResolved(e)
  <2>1. flush[e].pc = "resolved" /\ flush[e].caller # "orphan" /\ publish[e].pc = "none"
    BY <1>5 DEF FlushResolved, Undisturbed, Calm
  <2>2. /\ flush' = [flush EXCEPT ![e] = NoFlush]
        /\ UNCHANGED <<queue, requests, batch, online, breaker, publish, message, delivery,
                       charging, deducted, dropped>>
    BY <1>5, <2>1 DEF FlushResolved, Ended, books, astray
  <2>3. /\ flush'[e].pc = "idle" /\ flush'[e].caller = "timer"
        /\ \A f \in Envelopes \ {e} : flush'[f] = flush[f]
    BY <2>2 DEF NoFlush, TypeInv, TypeOK
  <2>4. Calm'
    BY <2>1, <2>2, <2>3 DEF Undisturbed, Calm
  <2>5. InOnePlace' /\ DeliveredOnce'
    BY <2>2 DEF Undisturbed, InOnePlace, DeliveredOnce
  <2> QED
    BY <2>4, <2>5 DEF Undisturbed
<1> QED
  BY <1>1, <1>2, <1>3, <1>4, <1>5 DEF FlushStep

(* A delivery in commit has charged none of its usages yet. *)
LEMMA DeliveryUncharged ==
  ASSUME TypeInv, Undisturbed, NEW d \in Deliveries, delivery[d].pc = "commit",
         NEW j \in delivery[d].jobs
  PROVE  /\ deducted[j] = 0 /\ j \notin queue \cup requests
         /\ \A w \in Workers : j \notin batch[w]
         /\ \A e \in Envelopes : j \notin publish[e].jobs
<1>1. /\ delivery[d].envelope \in Envelopes /\ j \in Jobs /\ deducted[j] \in Nat
      /\ \A c \in Deliveries : delivery[c].pc \in {"idle", "commit", "ack"}
  <2>1. delivery \in [Deliveries -> DeliveryStates] /\ deducted \in [Jobs -> Nat]
    BY DEF TypeInv, TypeOK
  <2>2. \A c \in Deliveries : delivery[c].pc # "nack"
    BY DEF Undisturbed, Calm
  <2> QED
    BY <2>1, <2>2 DEF DeliveryStates
<1>2. j \in message[delivery[d].envelope].jobs
  BY DEF Undisturbed, DeliveredOnce
<1>3. ~\E c \in Deliveries : delivery[c].pc = "ack"
                             /\ delivery[c].envelope = delivery[d].envelope
  BY DEF Undisturbed, DeliveredOnce
<1>4. ~(deducted[j] > 0)
  BY <1>1, <1>2, <1>3 DEF Undisturbed, InOnePlace
<1> QED
  BY <1>1, <1>2, <1>4 DEF Undisturbed, InOnePlace

LEMMA DeliveryStepUndisturbed ==
  ASSUME TypeInv, Undisturbed, NEW d \in Deliveries, DeliveryStep(d), faults = 0, faults' = 0
  PROVE  Undisturbed'
<1> DEFINE e == delivery[d].envelope
<1>1. /\ e \in Envelopes
      /\ \A c \in Deliveries : delivery[c].pc \in {"idle", "commit", "ack"}
  <2>1. delivery \in [Deliveries -> DeliveryStates] /\ deducted \in [Jobs -> Nat]
    BY DEF TypeInv, TypeOK
  <2>2. \A c \in Deliveries : delivery[c].pc # "nack"
    BY DEF Undisturbed, Calm
  <2> QED
    BY <2>1, <2>2 DEF DeliveryStates
<1> HIDE DEF e
<1>2. CASE BatchCommit(d)
  <2> DEFINE charged == charging[d]
  <2>1. /\ deducted' = [j \in Jobs |-> IF j \in charged THEN deducted[j] + 1 ELSE deducted[j]]
        /\ charging' = [charging EXCEPT ![d] = {}]
    BY <1>2 DEF BatchCommit, ChargeBatch
  <2>2. /\ delivery'[d].pc = "ack" /\ delivery'[d].envelope = e
        /\ delivery'[d].jobs = delivery[d].jobs /\ delivery'[d].orphan = delivery[d].orphan
        /\ \A c \in Deliveries \ {d} : delivery'[c] = delivery[c]
        /\ delivery[d].pc = "commit"
    BY <1>2 DEF BatchCommit, Fault, TypeInv, TypeOK, DeliveryStates, e
  <2>3. UNCHANGED <<queue, requests, batch, online, breaker, flush, publish, message, dropped>>
    BY <1>2 DEF BatchCommit, astray
  <2>19. charged \subseteq delivery[d].jobs
    BY <2>2 DEF Undisturbed, DeliveredOnce
  <2>4. Calm'
    BY <2>2, <2>3 DEF Undisturbed, Calm
  <2>5. \A j \in charged :
          /\ deducted[j] = 0 /\ j \notin queue \cup requests
          /\ \A w \in Workers : j \notin batch[w]
          /\ \A f \in Envelopes : j \notin publish[f].jobs
    BY <2>2, <2>19, DeliveryUncharged
  <2>6. /\ \A j \in Jobs : deducted[j] \in Nat
        /\ charged \subseteq Jobs
    BY <2>19 DEF TypeInv, TypeOK, DeliveryStates
  <2>7. \A j \in Jobs \ charged : deducted'[j] = deducted[j]
    BY <2>1
  <2>8. \A j \in charged : deducted'[j] = 1
    BY <2>1, <2>5, <2>6
  <2>9. message[e].jobs = delivery[d].jobs
    BY <2>2 DEF Undisturbed, DeliveredOnce, e
  <2> HIDE DEF charged
  <2>10. \A j \in Jobs, f \in Envelopes :
           /\ j \in message[f].jobs
           /\ \E c \in Deliveries : delivery[c].pc = "ack" /\ delivery[c].envelope = f
           => \E c \in Deliveries : delivery'[c].pc = "ack" /\ delivery'[c].envelope = f
    BY <2>2
  <2>11. \A j \in charged : j \in message[e].jobs
    BY <2>9, <2>19
  <2>12. \A j \in charged, f \in Envelopes : j \in message[f].jobs => f = e
    BY <1>1, <2>6, <2>11 DEF Undisturbed, InOnePlace
  <2>13. ASSUME NEW j \in Jobs
         PROVE  InOnePlace!(j)'
    <3>1. CASE j \in charged
      BY <1>1, <2>2, <2>3, <2>5, <2>8, <2>12, <3>1
    <3>2. CASE j \notin charged
      BY <2>3, <2>7, <2>10, <3>2 DEF Undisturbed, InOnePlace
    <3> QED
      BY <3>1, <3>2
  <2>14. InOnePlace'
    BY <2>13 DEF InOnePlace
  <2>15. \A c \in Deliveries \ {d} : charging'[c] = charging[c]
    BY <2>1 DEF TypeInv, TypeOK
  <2>16. DeliveredOnce'
    BY <1>1, <2>2, <2>3, <2>15 DEF Undisturbed, DeliveredOnce, e
  <2> QED
    BY <2>4, <2>14, <2>16 DEF Undisturbed
<1>3. CASE BatchAck(d) \/ BatchAbort(d)
  <2>1. /\ message' = [message EXCEPT ![e] = NoMessage]
        /\ delivery' = [delivery EXCEPT ![d] = NoDelivery]
        /\ UNCHANGED <<queue, requests, batch, online, breaker, flush, publish, deducted,
                       dropped>>
        /\ \A c \in Deliveries \ {d} : charging'[c] = charging[c]
        /\ delivery[d].pc # "idle"
    <3>1. ~delivery[d].orphan
      BY DEF Undisturbed, Calm
    <3>2. charging \in [Executions -> SUBSET Jobs] /\ Deliveries \subseteq Executions
      BY DEF TypeInv, TypeOK, Executions
    <3>3. CASE BatchAck(d)
      BY <3>1, <3>3 DEF BatchAck, books, astray, e
    <3>4. CASE BatchAbort(d)
      BY <3>1, <3>2, <3>4 DEF BatchAbort, books, astray, e
    <3> QED
      BY <1>3, <3>3, <3>4
  <2>2. /\ message'[e].pc = "none" /\ message'[e].jobs = {}
        /\ \A f \in Envelopes \ {e} : message'[f] = message[f]
    BY <1>1, <2>1 DEF NoMessage, TypeInv, TypeOK
  <2>3. /\ delivery'[d].pc = "idle" /\ ~delivery'[d].orphan
        /\ \A c \in Deliveries \ {d} : delivery'[c] = delivery[c]
    BY <2>1 DEF NoDelivery, TypeInv, TypeOK
  <2>4. Calm'
    BY <2>1, <2>2, <2>3 DEF Undisturbed, Calm
  <2>5. DeliveredOnce'
    BY <1>1, <2>1, <2>2, <2>3 DEF Undisturbed, DeliveredOnce, e, TypeInv, TypeOK, DeliveryStates
  <2>6. InOnePlace'
    BY <1>1, <2>1, <2>2, <2>3 DEF Undisturbed, InOnePlace, e
  <2> QED
    BY <2>4, <2>5, <2>6 DEF Undisturbed
<1> QED
  BY <1>2, <1>3 DEF DeliveryStep

LEMMA NextUndisturbed == TypeInv /\ UndisturbedInv /\ [Next]_vars => UndisturbedInv'
<1> SUFFICES ASSUME TypeInv, UndisturbedInv, [Next]_vars, faults' = 0
             PROVE  Undisturbed'
  BY DEF UndisturbedInv
<1>1. faults = 0 /\ Undisturbed
  BY FaultsGrow DEF UndisturbedInv
<1>2. ASSUME NEW e \in Envelopes, FlushStep(e) PROVE Undisturbed'
  BY <1>1, <1>2, FlushStepUndisturbed
<1>3. ASSUME NEW d \in Deliveries, DeliveryStep(d) PROVE Undisturbed'
  BY <1>1, <1>3, DeliveryStepUndisturbed
<1>4. ASSUME NEW w \in Workers, WorkerStep(w) PROVE Undisturbed'
  BY <1>1, <1>4, WorkerStepUndisturbed
<1>5. /\ \A e \in Envelopes : ~PublishNacked(e)
      /\ \A w \in Workers : ~ConnectionLost(w) /\ ~Crash(w)
  BY <1>1 DEF PublishNacked, ConnectionLost, Crash, Fault
<1>6. CASE UNCHANGED vars
  BY <1>1, <1>6 DEF vars, books, astray, Undisturbed, Calm, InOnePlace, DeliveredOnce
<1> QED
  BY <1>2, <1>3, <1>4, <1>5, <1>6 DEF Next

LEMMA AlwaysUndisturbed == Spec => []UndisturbedInv
<1>1. Spec => []TypeInv
  BY InitTypes, NextTypes, PTL DEF Spec
<1> QED
  BY <1>1, InitUndisturbed, NextUndisturbed, PTL DEF Spec

(* Whatever the workers batch, flush, publish, deliver and reject at the   *)
(* same time, a usage is charged twice only after a nack, a timeout, a     *)
(* lost connection or answer, or a crash.                                  *)
THEOREM ChargedOnceWithoutFault == Spec => []ChargedTwiceOnlyAfterFault
<1>1. UndisturbedInv => ChargedTwiceOnlyAfterFault
  BY DEF UndisturbedInv, Undisturbed, InOnePlace, ChargedTwiceOnlyAfterFault, ChargedAtMostOnce
<1> QED
  BY <1>1, AlwaysUndisturbed, PTL

-----------------------------------------------------------------------------
(* Nothing is lost unseen *)

(* What is on its way to the broker is what its flush holds, what waits    *)
(* for an acknowledgement is in the queue, and what is to be acknowledged  *)
(* or rejected after its commit has been charged or passed over.           *)
Wires ==
  /\ \A e \in Envelopes :
       /\ publish[e].pc # "none" =>
            message[e].pc = "none" /\ (flush[e].pc # "idle" => flush[e].jobs = publish[e].jobs)
       /\ message[e].pc = "none" => message[e].jobs = {}
  /\ \A d \in Deliveries : delivery[d].pc # "idle" /\ ~delivery[d].orphan =>
       /\ message[delivery[d].envelope].pc = "unacked"
       /\ message[delivery[d].envelope].jobs = delivery[d].jobs
       /\ \A c \in Deliveries \ {d} :
            delivery[c].pc # "idle" /\ ~delivery[c].orphan
              => delivery[c].envelope # delivery[d].envelope
  /\ \A d \in Deliveries : delivery[d].pc \in {"ack", "nack"} =>
       \A j \in delivery[d].jobs : deducted[j] > 0 \/ j \in passed

Kept(j) == deducted[j] > 0 \/ Carried(j) \/ j \in passed \cup dropped
Custody == Wires /\ \A j \in Jobs : Kept(j)

LEMMA InitCustody == Init => Custody
<1> SUFFICES ASSUME Init PROVE Custody
  OBVIOUS
<1>1. NoFlush.pc = "idle" /\ NoPublish.pc = "none" /\ NoDelivery.pc = "idle"
      /\ NoMessage.pc = "none" /\ NoMessage.jobs = {}
  BY DEF NoFlush, NoPublish, NoDelivery, NoMessage
<1>2. Wires
  BY <1>1 DEF Init, Wires
<1>3. \A j \in Jobs : Kept(j)
  BY DEF Init, Kept, Carried, Jobs
<1> QED
  BY <1>2, <1>3 DEF Custody

(* What charges and passes over only adds. *)
LEMMA BooksGrow ==
  ASSUME TypeInv, NEW t, NEW jobs, NEW rowless, ChargeBatch(t, jobs, rowless)
  PROVE  /\ \A j \in Jobs : deducted[j] > 0 => deducted'[j] > 0
         /\ passed \subseteq passed'
         /\ \A j \in Jobs : j \in jobs => deducted'[j] > 0 \/ j \in passed'
BY DEF ChargeBatch, TypeInv, TypeOK

(* A worker that goes down. *)
LEMMA DownCustody ==
  ASSUME TypeInv, Custody, NEW w \in Workers, WorkerDown(w),
         UNCHANGED <<requests, deducted, passed>>
  PROVE  Custody'
<1>1. PICK arrived \in SUBSET Sending(w), rejected \in SUBSET UnackedBatches(w) :
    /\ message' = [e \in Envelopes |->
                     IF e \in rejected THEN NoMessage
                     ELSE QueueAfterLoss(w, arrived)[e]]
    /\ dead' = dead \cup UNION {message[e].jobs : e \in rejected}
    /\ dropped' = dropped \cup (InMemory(w, arrived) \ UnackedJobs(w))
  BY DEF WorkerDown
<1>2. /\ \A e \in arrived : e \in Envelopes /\ publish[e].pc = "sent" /\ publish[e].worker = w
      /\ \A e \in UnackedBatches(w) : \E d \in Deliveries :
           /\ delivery[d].pc # "idle" /\ delivery[d].worker = w /\ ~delivery[d].orphan
           /\ delivery[d].envelope = e
  BY DEF Sending, Publishing, UnackedBatches, DeliveriesOf
<1>3. \A e \in UnackedBatches(w) : e \in Envelopes /\ message[e].pc = "unacked"
  BY <1>2, UnackedTypes DEF Custody, Wires
<1>4. /\ \A e \in rejected : message'[e].pc = "none" /\ message'[e].jobs = {}
      /\ \A e \in arrived : message'[e].pc = "ready" /\ message'[e].jobs = publish[e].jobs
      /\ \A e \in Envelopes \ (rejected \cup arrived) :
           /\ message'[e].jobs = message[e].jobs
           /\ message'[e].pc = IF e \in UnackedBatches(w) THEN "ready" ELSE message[e].pc
  <2>1. NoMessage.pc = "none" /\ NoMessage.jobs = {}
    BY DEF NoMessage
  <2>2. \A e \in arrived : e \notin rejected
    BY <1>2, <1>3 DEF Custody, Wires
  <2>3. \A e \in Envelopes : message[e] \in MessageStates
    BY DEF TypeInv, TypeOK
  <2> QED
    BY <1>1, <1>2, <1>3, <2>1, <2>2, <2>3 DEF QueueAfterLoss, MessageStates
<1>5. /\ \A e \in Envelopes : flush'[e] = IF e \in FlushesOf(w) THEN NoFlush ELSE flush[e]
      /\ \A e \in Envelopes : publish'[e] = IF e \in Publishing(w) THEN NoPublish ELSE publish[e]
      /\ \A d \in Deliveries :
           delivery'[d] = IF d \in DeliveriesOf(w) THEN NoDelivery ELSE delivery[d]
      /\ \A v \in Workers \ {w} : batch'[v] = batch[v]
      /\ queue' = queue \cup UnackedJobs(w)
  BY DEF WorkerDown, PublishesWithout, TypeInv, TypeOK
<1>6. NoFlush.pc = "idle" /\ NoPublish.pc = "none" /\ NoDelivery.pc = "idle"
  BY DEF NoFlush, NoPublish, NoDelivery
<1>7. Wires'
  <2>1. ASSUME NEW e \in Envelopes
        PROVE  /\ publish'[e].pc # "none" =>
                    /\ message'[e].pc = "none"
                    /\ flush'[e].pc # "idle" => flush'[e].jobs = publish'[e].jobs
               /\ message'[e].pc = "none" => message'[e].jobs = {}
    <3>1. message'[e].pc = "none" => message'[e].jobs = {}
      BY <1>2, <1>3, <1>4 DEF Custody, Wires
    <3>2. ASSUME publish'[e].pc # "none"
          PROVE  /\ message'[e].pc = "none"
                 /\ flush'[e].pc # "idle" => flush'[e].jobs = publish'[e].jobs
      <4>1. publish'[e] = publish[e] /\ e \notin Publishing(w)
        BY <1>5, <1>6, <3>2
      <4>2. e \notin arrived
        BY <4>1 DEF Sending
      <4>3. message[e].pc = "none"
        BY <3>2, <4>1 DEF Custody, Wires
      <4>4. e \notin UnackedBatches(w)
        BY <1>3, <4>3
      <4>5. message'[e].pc = "none"
        BY <1>4, <4>2, <4>3, <4>4
      <4> QED
        BY <1>5, <1>6, <3>2, <4>1, <4>5 DEF Custody, Wires
    <3> QED
      BY <3>1, <3>2
  <2>2. ASSUME NEW d \in Deliveries, delivery'[d].pc # "idle"
        PROVE  /\ delivery'[d] = delivery[d] /\ d \notin DeliveriesOf(w)
               /\ delivery[d].envelope \in Envelopes
    BY <1>5, <1>6, <2>2 DEF TypeInv, TypeOK, DeliveryStates
  <2>3. ASSUME NEW d \in Deliveries, delivery'[d].pc # "idle", ~delivery'[d].orphan
        PROVE  /\ message'[delivery'[d].envelope].pc = "unacked"
               /\ message'[delivery'[d].envelope].jobs = delivery'[d].jobs
    <3> DEFINE e == delivery[d].envelope
    <3>1. /\ delivery'[d] = delivery[d] /\ e \in Envelopes /\ d \notin DeliveriesOf(w)
          /\ message[e].pc = "unacked" /\ message[e].jobs = delivery[d].jobs
      BY <2>2, <2>3 DEF Custody, Wires
    <3>2. e \notin UnackedBatches(w)
      BY <2>3, <3>1 DEF UnackedBatches, DeliveriesOf, Custody, Wires
    <3>3. e \notin arrived
      BY <1>2, <3>1 DEF Custody, Wires
    <3> QED
      BY <1>4, <3>1, <3>2, <3>3
  <2> QED
    BY <2>1, <2>2, <2>3 DEF Custody, Wires
<1>8. ASSUME NEW j \in Jobs
      PROVE  Kept(j)'
  <2>1. ASSUME NEW e \in FlushesOf(w), j \in flush[e].jobs,
               flush[e].pc \in {"publish", "direct", "commit", "rejected"}
        PROVE  j \in queue' \cup dropped' \/ \E f \in Envelopes : j \in message'[f].jobs
    <3>0. e \in Envelopes /\ e \in Pending(w)
      BY <2>1 DEF Pending, FlushesOf
    <3>1. CASE e \in arrived
      BY <1>2, <1>4, <2>1, <3>0, <3>1 DEF Custody, Wires
    <3>2. CASE e \notin arrived
      <4>1. j \in UsagesOf(Pending(w) \ arrived)
        BY <2>1, <3>0, <3>2 DEF UsagesOf
      <4> QED
        BY <1>1, <1>5, <4>1 DEF InMemory
    <3> QED
      BY <3>1, <3>2
  <2>2. ASSUME j \in batch[w]
        PROVE  j \in queue' \cup dropped'
    BY <1>1, <1>5, <2>2 DEF InMemory
  <2>3. ASSUME NEW e \in Envelopes, j \in message[e].jobs
        PROVE  j \in dead' \/ j \in message'[e].jobs
    <3>1. e \notin arrived
      BY <1>2, <2>3 DEF Custody, Wires
    <3> QED
      BY <1>1, <1>4, <2>3, <3>1
  <2>4. Kept(j)
    BY DEF Custody
  <2>5. queue \subseteq queue' /\ dead \subseteq dead' /\ dropped \subseteq dropped'
    BY <1>1, <1>5
  <2> QED
    BY <1>5, <2>1, <2>2, <2>3, <2>4, <2>5 DEF Kept, Carried
<1> QED
  BY <1>7, <1>8 DEF Custody

LEMMA LossCustody ==
  ASSUME TypeInv, Custody, NEW w \in Workers, ConnectionLost(w)
  PROVE  Custody'
<1>1. PICK arrived \in SUBSET Sending(w) : message' = QueueAfterLoss(w, arrived)
  BY DEF ConnectionLost
<1>2. /\ \A e \in arrived : e \in Envelopes /\ publish[e].pc = "sent" /\ publish[e].worker = w
      /\ \A e \in UnackedBatches(w) : \E d \in Deliveries :
           /\ delivery[d].pc # "idle" /\ delivery[d].worker = w /\ ~delivery[d].orphan
           /\ delivery[d].envelope = e
  BY DEF Sending, Publishing, UnackedBatches, DeliveriesOf
<1>3. \A e \in UnackedBatches(w) : e \in Envelopes /\ message[e].pc = "unacked"
  BY <1>2, UnackedTypes DEF Custody, Wires
<1>4. /\ \A e \in arrived : message'[e].pc = "ready" /\ message'[e].jobs = publish[e].jobs
      /\ \A e \in Envelopes \ arrived :
           /\ message'[e].jobs = message[e].jobs
           /\ message'[e].pc = IF e \in UnackedBatches(w) THEN "ready" ELSE message[e].pc
  <2>1. \A e \in Envelopes : message[e] \in MessageStates
    BY DEF TypeInv, TypeOK
  <2> QED
    BY <1>1, <1>2, <1>3, <2>1 DEF QueueAfterLoss, MessageStates
<1>0. flush' = FlushesAfterLoss(w)
  BY DEF ConnectionLost
<1>5. dropped' = dropped \cup UsagesOf(Swallowed(w))
  BY DEF ConnectionLost
<1>6. \A e \in Envelopes :
        /\ flush'[e].jobs = flush[e].jobs
        /\ flush'[e].pc = flush[e].pc \/ e \in Swallowed(w)
        /\ flush'[e].pc = "idle" <=> flush[e].pc = "idle"
  <2>1. ASSUME NEW e \in Envelopes
        PROVE  /\ flush'[e].jobs = flush[e].jobs
               /\ flush'[e].pc = IF e \in FlushesOf(w) /\ e \in Swallowed(w)
                                 THEN "resolved" ELSE flush[e].pc
    <3>1. flush[e] \in FlushStates
      BY DEF TypeInv, TypeOK
    <3> QED
      BY <1>0, <3>1, LostFlush
  <2>2. \A e \in FlushesOf(w) : flush[e].pc # "idle"
    BY DEF FlushesOf
  <2> QED
    BY <2>1, <2>2
<1>7. /\ \A e \in Envelopes : publish'[e] = IF e \in Publishing(w) THEN NoPublish ELSE publish[e]
      /\ queue' = queue \cup UnackedJobs(w)
      /\ UNCHANGED <<requests, batch, deducted, passed, dead>>
      /\ NoPublish.pc = "none"
  BY DEF ConnectionLost, PublishesWithout, books, NoPublish
<1>8. \A d \in Deliveries :
        /\ delivery'[d].pc = delivery[d].pc /\ delivery'[d].jobs = delivery[d].jobs
        /\ delivery'[d].envelope = delivery[d].envelope
        /\ delivery'[d].orphan = (delivery[d].orphan \/ d \in DeliveriesOf(w))
        /\ delivery[d].envelope \in Envelopes
  BY DEF ConnectionLost, TypeInv, TypeOK, DeliveryStates
<1>9. Wires'
  <2>1. ASSUME NEW e \in Envelopes
        PROVE  /\ publish'[e].pc # "none" =>
                    /\ message'[e].pc = "none"
                    /\ flush'[e].pc # "idle" => flush'[e].jobs = publish'[e].jobs
               /\ message'[e].pc = "none" => message'[e].jobs = {}
    <3>1. message'[e].pc = "none" => message'[e].jobs = {}
      BY <1>3, <1>4 DEF Custody, Wires
    <3>2. ASSUME publish'[e].pc # "none"
          PROVE  /\ message'[e].pc = "none"
                 /\ flush'[e].pc # "idle" => flush'[e].jobs = publish'[e].jobs
      <4>1. publish'[e] = publish[e] /\ e \notin Publishing(w)
        BY <1>7, <3>2
      <4>2. e \notin arrived
        BY <4>1 DEF Sending
      <4>3. message[e].pc = "none"
        BY <3>2, <4>1 DEF Custody, Wires
      <4>4. message'[e].pc = "none"
        BY <1>3, <1>4, <4>2, <4>3
      <4> QED
        BY <1>6, <3>2, <4>1, <4>4 DEF Custody, Wires
    <3> QED
      BY <3>1, <3>2
  <2>2. ASSUME NEW d \in Deliveries, delivery'[d].pc # "idle", ~delivery'[d].orphan
        PROVE  /\ message'[delivery'[d].envelope].pc = "unacked"
               /\ message'[delivery'[d].envelope].jobs = delivery'[d].jobs
    <3> DEFINE e == delivery[d].envelope
    <3>0. /\ e \in Envelopes /\ d \notin DeliveriesOf(w) /\ delivery[d].pc # "idle"
          /\ ~delivery[d].orphan
      BY <1>8, <2>2
    <3>1. /\ e \in Envelopes /\ d \notin DeliveriesOf(w) /\ delivery[d].pc # "idle"
          /\ ~delivery[d].orphan
          /\ message[e].pc = "unacked" /\ message[e].jobs = delivery[d].jobs
      BY <3>0 DEF Custody, Wires
    <3>2. e \notin UnackedBatches(w)
      BY <3>1 DEF UnackedBatches, DeliveriesOf, Custody, Wires
    <3>3. e \notin arrived
      BY <1>2, <3>1 DEF Custody, Wires
    <3> QED
      BY <1>4, <1>8, <3>1, <3>2, <3>3
  <2>3. \A d \in Deliveries : delivery'[d].pc \in {"ack", "nack"} =>
          \A j \in delivery'[d].jobs : deducted'[j] > 0 \/ j \in passed'
    BY <1>7, <1>8 DEF Custody, Wires
  <2>4. \A d \in Deliveries, c \in Deliveries :
          /\ c # d /\ delivery'[d].pc # "idle" /\ ~delivery'[d].orphan
          /\ delivery'[c].pc # "idle" /\ ~delivery'[c].orphan
          => delivery'[c].envelope # delivery'[d].envelope
    <3> SUFFICES ASSUME NEW d \in Deliveries, NEW c \in Deliveries, c # d,
                        delivery'[d].pc # "idle", ~delivery'[d].orphan,
                        delivery'[c].pc # "idle", ~delivery'[c].orphan
                 PROVE  delivery'[c].envelope # delivery'[d].envelope
      OBVIOUS
    <3>1. /\ delivery[d].pc # "idle" /\ ~delivery[d].orphan
          /\ delivery[c].pc # "idle" /\ ~delivery[c].orphan
      BY <1>8
    <3>2. delivery[c].envelope # delivery[d].envelope
      BY <3>1 DEF Custody, Wires
    <3> QED
      BY <1>8, <3>2
  <2> QED
    BY <2>1, <2>2, <2>3, <2>4 DEF Wires
<1>10. ASSUME NEW j \in Jobs
       PROVE  Kept(j)'
  <2>1. ASSUME NEW e \in Envelopes, j \in flush[e].jobs,
               flush[e].pc \in {"publish", "direct", "commit", "rejected"}
        PROVE  j \in dropped' \/ (flush'[e].pc = flush[e].pc /\ j \in flush'[e].jobs)
    <3>1. e \in Swallowed(w) => j \in UsagesOf(Swallowed(w))
      BY <2>1 DEF UsagesOf
    <3> QED
      BY <1>5, <1>6, <2>1, <3>1
  <2>2. ASSUME NEW e \in Envelopes, j \in message[e].jobs
        PROVE  j \in message'[e].jobs
    BY <1>2, <1>4, <2>2 DEF Custody, Wires
  <2>3. Kept(j)
    BY DEF Custody
  <2>4. queue \subseteq queue' /\ dropped \subseteq dropped'
    BY <1>5, <1>7
  <2> QED
    BY <1>7, <2>1, <2>2, <2>3, <2>4 DEF Kept, Carried
<1> QED
  BY <1>9, <1>10 DEF Custody

(* A flush that begins takes over what its worker's batch held. *)
LEMMA FlushCustody ==
  ASSUME TypeInv, Custody, NEW e \in Envelopes, NEW w \in Workers, NEW jobs \in SUBSET Jobs,
         NEW caller, NEW i, Flush(e, w, jobs, caller, i),
         UNCHANGED <<message, delivery, deducted, passed>>
  PROVE  /\ Wires'
         /\ \A f \in Envelopes \ {e} : flush'[f] = flush[f]
         /\ flush[e].pc = "idle" /\ dropped \subseteq dropped'
         /\ \A v \in Workers \ {w} : batch'[v] = batch[v]
         /\ jobs \subseteq dropped'
            \/ (flush'[e].pc \in {"publish", "direct"} /\ flush'[e].jobs = jobs)
<1> DEFINE g == [NoFlush EXCEPT !.worker = w, !.jobs = jobs, !.caller = caller, !.job = i]
<1>1. PICK pc \in {"publish", "resolved", "direct"} :
        /\ flush' = [flush EXCEPT ![e] = [g EXCEPT !.pc = pc]]
        /\ pc = "publish" => publish' = [publish EXCEPT ![e] =
                               [pc |-> "asserting", worker |-> w, jobs |-> jobs]]
        /\ pc # "publish" => publish' = publish
        /\ pc = "resolved" => dropped' = dropped \cup jobs
        /\ pc # "resolved" => dropped' = dropped
  BY DEF Flush
<1>2. [g EXCEPT !.pc = pc].pc = pc /\ [g EXCEPT !.pc = pc].jobs = jobs
  BY DEF NoFlush
<1> HIDE DEF g
<1>3. /\ flush'[e].pc = pc /\ flush'[e].jobs = jobs
      /\ \A f \in Envelopes \ {e} : flush'[f] = flush[f]
  BY <1>1, <1>2 DEF TypeInv, TypeOK
<1>4. flush[e].pc = "idle" /\ publish[e].pc = "none" /\ message[e].pc = "none"
  BY DEF Flush, Free
<1>5. /\ \A f \in Envelopes \ {e} : publish'[f] = publish[f]
      /\ publish'[e].pc # "none" => publish'[e].jobs = jobs
  BY <1>1, <1>4 DEF TypeInv, TypeOK
<1>6. Wires'
  BY <1>3, <1>4, <1>5 DEF Custody, Wires
<1>7. \A v \in Workers \ {w} : batch'[v] = batch[v]
  BY DEF Flush, TypeInv, TypeOK
<1> QED
  BY <1>1, <1>3, <1>4, <1>6, <1>7

LEMMA AddCustody ==
  ASSUME TypeInv, Custody, NEW w \in Workers, NEW caller, NEW j \in Jobs,
         AddToBatch(w, j, caller), queue \cup requests \subseteq queue' \cup requests' \cup {j},
         UNCHANGED <<message, delivery, deducted, passed, dead>>
  PROVE  Custody'
<1> DEFINE jobs == batch[w] \cup {j}
           own == IF caller = "message" THEN j ELSE NoFlush.job
<1>1. jobs \in SUBSET Jobs
  BY DEF TypeInv, TypeOK
<1>2. CASE \E e \in Envelopes : Flush(e, w, jobs, caller, own)
  <2>1. PICK e \in Envelopes : Flush(e, w, jobs, caller, own)
    BY <1>2
  <2> HIDE DEF own
  <2>2. /\ Wires'
        /\ \A f \in Envelopes \ {e} : flush'[f] = flush[f]
        /\ flush[e].pc = "idle" /\ dropped \subseteq dropped'
        /\ \A v \in Workers \ {w} : batch'[v] = batch[v]
        /\ jobs \subseteq dropped'
           \/ (flush'[e].pc \in {"publish", "direct"} /\ flush'[e].jobs = jobs)
    <3> HIDE DEF jobs
    <3> QED
      BY <1>1, <2>1, FlushCustody
  <2>3. ASSUME NEW i \in Jobs
        PROVE  Kept(i)'
    <3>1. Kept(i)
      BY DEF Custody
    <3>2. i \in jobs => Kept(i)'
      BY <2>2 DEF Kept, Carried
    <3>3. i \notin jobs => Kept(i)'
      BY <2>2, <3>1 DEF Kept, Carried
    <3> QED
      BY <3>2, <3>3
  <2> QED
    BY <2>2, <2>3 DEF Custody
<1>3. CASE /\ batch' = [batch EXCEPT ![w] = jobs]
           /\ batchTimer' = batchTimer \cup {w}
           /\ UNCHANGED <<flush, publish, breaker, dropped>>
  <2>1. batch'[w] = jobs /\ \A v \in Workers \ {w} : batch'[v] = batch[v]
    BY <1>3 DEF TypeInv, TypeOK
  <2>2. Wires'
    BY <1>3 DEF Custody, Wires
  <2>3. \A i \in Jobs : Kept(i)'
    BY <1>3, <2>1 DEF Custody, Kept, Carried
  <2> QED
    BY <2>2, <2>3 DEF Custody
<1> QED
  BY <1>2, <1>3 DEF AddToBatch, TimerWanted

LEMMA WorkerStepCustody ==
  ASSUME TypeInv, Custody, NEW w \in Workers, WorkerStep(w)
  PROVE  Custody'
<1>1. CASE TimerFires(w)
  <2>1. PICK e \in Envelopes : Flush(e, w, batch[w], "timer", NoFlush.job)
    BY <1>1 DEF TimerFires
  <2>2. batch[w] \in SUBSET Jobs
    BY DEF TypeInv, TypeOK
  <2>3. UNCHANGED <<queue, requests, message, delivery, deducted, passed, dead>>
    BY <1>1 DEF TimerFires, books
  <2>4. /\ Wires'
        /\ \A f \in Envelopes \ {e} : flush'[f] = flush[f]
        /\ flush[e].pc = "idle" /\ dropped \subseteq dropped'
        /\ \A v \in Workers \ {w} : batch'[v] = batch[v]
        /\ batch[w] \subseteq dropped'
           \/ (flush'[e].pc \in {"publish", "direct"} /\ flush'[e].jobs = batch[w])
    BY <2>1, <2>2, <2>3, FlushCustody
  <2>5. \A j \in Jobs : Kept(j)'
    BY <2>3, <2>4 DEF Custody, Kept, Carried
  <2> QED
    BY <2>4, <2>5 DEF Custody
<1>2. ASSUME NEW j \in Jobs, EndMessage(w, j) \/ EndRequest(w, j)
      PROVE  Custody'
  <2>1. PICK caller : AddToBatch(w, j, caller)
    BY <1>2 DEF EndMessage, EndRequest
  <2>2. /\ queue \cup requests \subseteq queue' \cup requests' \cup {j}
        /\ UNCHANGED <<message, delivery, deducted, passed, dead>>
    BY <1>2 DEF EndMessage, EndRequest, books
  <2> QED
    BY <2>1, <2>2, AddCustody
<1>3. CASE Reconnect(w) \/ BreakerReset(w)
  BY <1>3 DEF Reconnect, BreakerReset, books, astray, Custody, Wires, Kept, Carried
<1>4. ASSUME NEW d \in Deliveries, NEW e \in Envelopes, BatchDelivered(d, e, w)
      PROVE  Custody'
  <2>1. /\ delivery'[d] = [pc |-> "commit", worker |-> w, envelope |-> e,
                           jobs |-> message[e].jobs, orphan |-> FALSE]
        /\ \A c \in Deliveries \ {d} : delivery'[c] = delivery[c]
        /\ delivery[d].pc = "idle" /\ message[e].pc = "ready"
    BY <1>4 DEF BatchDelivered, TypeInv, TypeOK
  <2>2. /\ message'[e].pc = "unacked" /\ message'[e].jobs = message[e].jobs
        /\ \A f \in Envelopes \ {e} : message'[f] = message[f]
    BY <1>4 DEF BatchDelivered, TypeInv, TypeOK, MessageStates
  <2>3. UNCHANGED <<queue, requests, batch, flush, publish, deducted, passed, dropped, dead>>
    BY <1>4 DEF BatchDelivered, books, astray
  <2>4. \A f \in Envelopes : message'[f].jobs = message[f].jobs
    BY <2>2
  <2>7. \A f \in Envelopes : message'[f].pc = "none" <=> message[f].pc = "none"
    BY <2>1, <2>2
  <2>8. \A c \in Deliveries : delivery[c].pc # "idle" /\ ~delivery[c].orphan =>
          delivery[c].envelope # e /\ delivery[c].envelope \in Envelopes
    <3>1. delivery \in [Deliveries -> DeliveryStates]
      BY DEF TypeInv, TypeOK
    <3> QED
      BY <2>1, <3>1 DEF Custody, Wires, DeliveryStates
  <2>9. ASSUME NEW f \in Envelopes
        PROVE  /\ publish'[f].pc # "none" =>
                    /\ message'[f].pc = "none"
                    /\ flush'[f].pc # "idle" => flush'[f].jobs = publish'[f].jobs
               /\ message'[f].pc = "none" => message'[f].jobs = {}
    BY <2>3, <2>4, <2>7 DEF Custody, Wires
  <2>10. ASSUME NEW c \in Deliveries, delivery'[c].pc # "idle", ~delivery'[c].orphan
         PROVE  /\ message'[delivery'[c].envelope].pc = "unacked"
                /\ message'[delivery'[c].envelope].jobs = delivery'[c].jobs
                /\ \A b \in Deliveries \ {c} :
                     delivery'[b].pc # "idle" /\ ~delivery'[b].orphan
                       => delivery'[b].envelope # delivery'[c].envelope
    <3>1. CASE c = d
      BY <2>1, <2>2, <2>8, <3>1
    <3>2. CASE c # d
      BY <2>1, <2>2, <2>8, <2>10, <3>2 DEF Custody, Wires
    <3> QED
      BY <3>1, <3>2
  <2>11. \A c \in Deliveries : delivery'[c].pc \in {"ack", "nack"} =>
           \A j \in delivery'[c].jobs : deducted'[j] > 0 \/ j \in passed'
    BY <2>1, <2>3 DEF Custody, Wires
  <2>5. Wires'
    BY <2>9, <2>10, <2>11 DEF Wires
  <2>6. \A j \in Jobs : Kept(j)'
    BY <2>3, <2>4 DEF Custody, Kept, Carried
  <2> QED
    BY <2>5, <2>6 DEF Custody
<1> QED
  BY <1>1, <1>2, <1>3, <1>4 DEF WorkerStep

(* A flush that only moves on keeps what it holds.                         *)
LEMMA OneFlushCustody ==
  ASSUME TypeInv, Custody, NEW e \in Envelopes,
         \A f \in Envelopes \ {e} : flush'[f] = flush[f],
         flush[e].pc # "idle", flush'[e].jobs = flush[e].jobs,
         UNCHANGED <<queue, requests, batch, publish, message, delivery>>,
         dead \subseteq dead', passed \subseteq passed', dropped \subseteq dropped',
         \A j \in Jobs : deducted[j] > 0 => deducted'[j] > 0,
         \/ flush'[e].pc \in {"publish", "direct", "commit", "rejected"}
         \/ flush[e].pc = "resolved"
         \/ \A j \in flush[e].jobs : deducted'[j] > 0 \/ j \in passed'
  PROVE  Custody'
<1>1. \A d \in Deliveries : delivery[d].jobs \subseteq Jobs
  BY DEF TypeInv, TypeOK, DeliveryStates
<1>2. Wires'
  BY <1>1 DEF Custody, Wires
<1>3. \A j \in Jobs : Kept(j)'
  BY DEF Custody, Kept, Carried
<1> QED
  BY <1>2, <1>3 DEF Custody

LEMMA FlushStepCustody ==
  ASSUME TypeInv, Custody, NEW e \in Envelopes, FlushStep(e) \/ PublishNacked(e)
  PROVE  Custody'
<1>1. flush[e] \in FlushStates /\ flush[e].worker \in Workers /\ flush[e].jobs \in SUBSET Jobs
  BY DEF TypeInv, TypeOK, FlushStates
<1>2. \A pc \in {"publish", "direct", "commit", "resolved", "rejected"} :
        flush' = [flush EXCEPT ![e].pc = pc] =>
          /\ flush'[e].pc = pc /\ flush'[e].jobs = flush[e].jobs
          /\ \A f \in Envelopes \ {e} : flush'[f] = flush[f]
  BY DEF TypeInv, TypeOK, FlushStates
<1>3. flush' = NextAttempt(e) =>
        /\ flush'[e].pc \in {"direct", "rejected"} /\ flush'[e].jobs = flush[e].jobs
        /\ \A f \in Envelopes \ {e} : flush'[f] = flush[f]
  BY DEF NextAttempt, TypeInv, TypeOK, FlushStates
<1>4. CASE QueueAsserted(e)
  <2>1. /\ publish'[e].pc = "sent" /\ publish'[e].jobs = publish[e].jobs
        /\ \A f \in Envelopes \ {e} : publish'[f] = publish[f]
        /\ publish[e].pc = "asserting"
    BY <1>4 DEF QueueAsserted, TypeInv, TypeOK, PublishStates
  <2>2. UNCHANGED <<queue, requests, batch, flush, message, delivery, deducted, passed,
                    dropped, dead>>
    BY <1>4 DEF QueueAsserted, books, astray
  <2>3. Wires'
    BY <2>1, <2>2 DEF Custody, Wires
  <2>4. \A j \in Jobs : Kept(j)'
    BY <2>2 DEF Custody, Kept, Carried
  <2> QED
    BY <2>3, <2>4 DEF Custody
<1>5. CASE PublishConfirmed(e)
  <2>1. /\ publish'[e].pc = "none" /\ \A f \in Envelopes \ {e} : publish'[f] = publish[f]
        /\ publish[e].pc = "sent"
    BY <1>5 DEF PublishConfirmed, NoPublish, TypeInv, TypeOK
  <2>2. /\ message'[e].pc = "ready" /\ message'[e].jobs = publish[e].jobs
        /\ \A f \in Envelopes \ {e} : message'[f] = message[f]
        /\ message[e].pc = "none" /\ message[e].jobs = {}
    BY <1>5, <2>1 DEF PublishConfirmed, Custody, Wires, TypeInv, TypeOK
  <2>3. UNCHANGED <<queue, requests, batch, delivery, deducted, passed, dropped, dead>>
    BY <1>5 DEF PublishConfirmed, books
  <2>4. /\ flush'[e].jobs = flush[e].jobs /\ \A f \in Envelopes \ {e} : flush'[f] = flush[f]
        /\ flush'[e].pc # flush[e].pc => flush[e].pc = "publish"
    BY <1>2, <1>5 DEF PublishConfirmed
  <2>5. flush[e].pc = "publish" => flush[e].jobs = message'[e].jobs
    BY <2>1, <2>2 DEF Custody, Wires
  <2>6. Wires'
    BY <2>1, <2>2, <2>3, <2>4 DEF Custody, Wires, TypeInv, TypeOK, DeliveryStates
  <2>7. ASSUME NEW j \in Jobs
        PROVE  Kept(j)'
    <3>1. Kept(j)
      BY DEF Custody
    <3> QED
      BY <2>2, <2>3, <2>4, <2>5, <3>1 DEF Kept, Carried
  <2> QED
    BY <2>6, <2>7 DEF Custody
<1>6. CASE PublishNacked(e)
  <2>1. /\ publish'[e].pc = "none" /\ \A f \in Envelopes \ {e} : publish'[f] = publish[f]
    BY <1>6 DEF PublishNacked, NoPublish, TypeInv, TypeOK
  <2>2. UNCHANGED <<queue, requests, batch, message, delivery, deducted, passed, dropped, dead>>
    BY <1>6 DEF PublishNacked, books, astray
  <2>3. /\ flush'[e].jobs = flush[e].jobs /\ \A f \in Envelopes \ {e} : flush'[f] = flush[f]
        /\ flush'[e].pc = flush[e].pc \/ (flush'[e].pc = "direct" /\ flush[e].pc = "publish")
    <3>1. flush \in [Envelopes -> FlushStates]
      BY DEF TypeInv, TypeOK
    <3>2. flush' = flush \/ (flush[e].pc = "publish" /\ flush' = [flush EXCEPT ![e].pc = "direct"])
      BY <1>6 DEF PublishNacked
    <3>3. flush[e] \in FlushStates
      BY <3>1
    <3>4. [flush[e] EXCEPT !.pc = "direct"].jobs = flush[e].jobs
          /\ [flush[e] EXCEPT !.pc = "direct"].pc = "direct"
      BY <3>3 DEF FlushStates
    <3>5. CASE flush' = flush
      BY <3>5
    <3>6. CASE flush[e].pc = "publish" /\ flush' = [flush EXCEPT ![e].pc = "direct"]
      <4>1. flush' = [flush EXCEPT ![e] = [flush[e] EXCEPT !.pc = "direct"]]
        BY <3>6
      <4> QED
        BY <3>1, <3>4, <3>6, <4>1
    <3> QED
      BY <3>2, <3>5, <3>6
  <2>4. Wires'
    BY <2>1, <2>2, <2>3 DEF Custody, Wires
  <2>5. \A j \in Jobs : Kept(j)'
    BY <2>2, <2>3 DEF Custody, Kept, Carried
  <2> QED
    BY <2>4, <2>5 DEF Custody
<1>7. CASE BreakerTimeout(e) \/ DirectBegin(e) \/ DirectAbort(e)
  <2>1. /\ flush'[e].jobs = flush[e].jobs /\ \A f \in Envelopes \ {e} : flush'[f] = flush[f]
        /\ flush[e].pc # "idle" /\ flush'[e].pc \in {"publish", "direct", "commit", "rejected"}
    BY <1>2, <1>3, <1>7 DEF BreakerTimeout, DirectBegin, DirectAbort
  <2>2. UNCHANGED <<queue, requests, batch, publish, message, delivery, dead, deducted,
                    passed, dropped>>
    BY <1>7 DEF BreakerTimeout, DirectBegin, DirectAbort, books, astray
  <2> QED
    BY <2>1, <2>2, OneFlushCustody
<1>8. CASE DirectCommit(e)
  <2>1. /\ flush'[e].jobs = flush[e].jobs /\ \A f \in Envelopes \ {e} : flush'[f] = flush[f]
        /\ flush[e].pc # "idle"
    BY <1>2, <1>3, <1>8 DEF DirectCommit
  <2>2. PICK rowless : ChargeBatch(e, flush[e].jobs, rowless)
    BY <1>8 DEF DirectCommit
  <2>3. /\ \A j \in Jobs : deducted[j] > 0 => deducted'[j] > 0
        /\ passed \subseteq passed'
        /\ \A j \in flush[e].jobs : deducted'[j] > 0 \/ j \in passed'
    BY <1>1, <2>2, BooksGrow
  <2>4. UNCHANGED <<queue, requests, batch, publish, message, delivery, dead, dropped>>
    BY <1>8 DEF DirectCommit
  <2> QED
    BY <2>1, <2>3, <2>4, OneFlushCustody
<1>9. ASSUME flush' = Ended(e)
      PROVE  /\ flush'[e].pc = "idle" /\ \A f \in Envelopes \ {e} : flush'[f] = flush[f]
  BY <1>9 DEF Ended, NoFlush, TypeInv, TypeOK
<1>10. CASE FlushResolved(e) \/ FlushRejected(e)
  <2>1. CASE WorkerDown(flush[e].worker)
    BY <1>1, <1>10, <2>1, DownCustody DEF FlushResolved, FlushRejected, books
  <2>2. CASE ~WorkerDown(flush[e].worker)
    <3>1. /\ flush' = Ended(e) /\ dead \subseteq dead' /\ dropped \subseteq dropped'
          /\ flush[e].pc = "resolved" \/ flush[e].jobs \subseteq dead' \cup dropped'
          /\ UNCHANGED <<queue, requests, batch, publish, message, delivery, deducted, passed>>
      BY <1>10, <2>2 DEF FlushResolved, FlushRejected, books, astray
    <3>2. flush'[e].pc = "idle" /\ \A f \in Envelopes \ {e} : flush'[f] = flush[f]
      BY <1>9, <3>1
    <3>3. Wires'
      BY <3>1, <3>2 DEF Custody, Wires
    <3>4. \A j \in Jobs : Kept(j)'
      BY <3>1, <3>2 DEF Custody, Kept, Carried
    <3> QED
      BY <3>3, <3>4 DEF Custody
  <2> QED
    BY <2>1, <2>2
<1> QED
  BY <1>4, <1>5, <1>6, <1>7, <1>8, <1>10 DEF FlushStep

LEMMA DeliveryStepCustody ==
  ASSUME TypeInv, Custody, NEW d \in Deliveries, DeliveryStep(d)
  PROVE  Custody'
<1> DEFINE e == delivery[d].envelope
<1>1. e \in Envelopes /\ delivery[d].worker \in Workers /\ delivery[d].jobs \in SUBSET Jobs
  BY DEF TypeInv, TypeOK, DeliveryStates
<1>2. CASE BatchCommit(d)
  <2>1. PICK rowless : ChargeBatch(d, delivery[d].jobs, rowless)
    BY <1>2 DEF BatchCommit
  <2>2. /\ \A j \in Jobs : deducted[j] > 0 => deducted'[j] > 0
        /\ passed \subseteq passed'
        /\ \A j \in delivery[d].jobs : deducted'[j] > 0 \/ j \in passed'
    BY <1>1, <2>1, BooksGrow
  <2>3. UNCHANGED <<queue, requests, batch, flush, publish, message, dead, dropped>>
    BY <1>2 DEF BatchCommit, astray
  <2>4. /\ delivery'[d].jobs = delivery[d].jobs /\ delivery'[d].envelope = e
        /\ delivery'[d].orphan = delivery[d].orphan /\ delivery[d].pc # "idle"
        /\ \A c \in Deliveries \ {d} : delivery'[c] = delivery[c]
    BY <1>2 DEF BatchCommit, TypeInv, TypeOK, DeliveryStates
  <2>5. \A c \in Deliveries : delivery[c].jobs \subseteq Jobs
    BY DEF TypeInv, TypeOK, DeliveryStates
  <2>6. Wires'
    BY <2>2, <2>3, <2>4, <2>5 DEF Custody, Wires
  <2>7. \A j \in Jobs : Kept(j)'
    BY <2>2, <2>3 DEF Custody, Kept, Carried
  <2> QED
    BY <2>6, <2>7 DEF Custody
<1>3. CASE BatchAck(d) \/ BatchAbort(d)
  <2>1. UNCHANGED <<requests, deducted, passed>> /\ delivery[d].pc # "idle"
    BY <1>3 DEF BatchAck, BatchAbort, books
  <2>2. CASE WorkerDown(delivery[d].worker)
    BY <1>1, <2>1, <2>2, DownCustody
  <2>3. CASE ~WorkerDown(delivery[d].worker)
    <3>1. /\ message' = [message EXCEPT ![e] = NoMessage]
          /\ delivery' = [delivery EXCEPT ![d] = NoDelivery]
          /\ UNCHANGED <<queue, batch, flush, publish, dropped>>
          /\ dead \subseteq dead' /\ ~delivery[d].orphan
          /\ delivery[d].pc = "ack" \/ delivery[d].jobs \subseteq dead'
      BY <1>3, <2>3 DEF BatchAck, BatchAbort, DeadLettered, astray
    <3>2. /\ message'[e].pc = "none" /\ message'[e].jobs = {}
          /\ \A f \in Envelopes \ {e} : message'[f] = message[f]
      BY <1>1, <3>1 DEF NoMessage, TypeInv, TypeOK
    <3>3. /\ delivery'[d].pc = "idle"
          /\ \A c \in Deliveries \ {d} : delivery'[c] = delivery[c]
      BY <3>1 DEF NoDelivery, TypeInv, TypeOK
    <3>4. /\ message[e].pc = "unacked" /\ message[e].jobs = delivery[d].jobs
          /\ \A c \in Deliveries \ {d} :
               delivery[c].pc # "idle" /\ ~delivery[c].orphan => delivery[c].envelope # e
          /\ delivery[d].pc = "ack" =>
               \A j \in delivery[d].jobs : deducted[j] > 0 \/ j \in passed
      BY <2>1, <3>1 DEF Custody, Wires
    <3>5. Wires'
      <4>1. \A c \in Deliveries \ {d} : delivery[c].envelope \in Envelopes
        BY DEF TypeInv, TypeOK, DeliveryStates
      <4> QED
        BY <2>1, <3>1, <3>2, <3>3, <3>4, <4>1 DEF Custody, Wires
    <3>6. ASSUME NEW j \in Jobs
          PROVE  Kept(j)'
      <4>1. Kept(j)
        BY DEF Custody
      <4>2. j \in message[e].jobs => deducted[j] > 0 \/ j \in passed \/ j \in dead'
        BY <3>1, <3>4
      <4> QED
        BY <2>1, <3>1, <3>2, <4>1, <4>2 DEF Kept, Carried
    <3> QED
      BY <3>5, <3>6 DEF Custody
  <2> QED
    BY <2>2, <2>3
<1> QED
  BY <1>2, <1>3 DEF DeliveryStep

LEMMA NextCustody == TypeInv /\ Custody /\ [Next]_vars => Custody'
<1> SUFFICES ASSUME TypeInv, Custody, [Next]_vars PROVE Custody'
  OBVIOUS
<1>1. ASSUME NEW w \in Workers, Crash(w) PROVE Custody'
  BY <1>1, DownCustody DEF Crash, books
<1>2. CASE UNCHANGED vars
  BY <1>2 DEF vars, Custody, Wires, Kept, Carried
<1> QED
  BY <1>1, <1>2, FlushStepCustody, DeliveryStepCustody, WorkerStepCustody, LossCustody DEF Next

(* Whatever fails, a reported usage is charged, carried by a queue, a      *)
(* batch, a flush or a message, dead-lettered, passed over by a            *)
(* transaction that committed, or dropped; and none is dropped before      *)
(* something failed.                                                       *)
THEOREM LossesAreExplained == Spec => []LossesExplained
<1>1. TypeInv /\ Custody /\ UndisturbedInv => LossesExplained
  <2> SUFFICES ASSUME TypeInv, Custody, UndisturbedInv PROVE LossesExplained
    OBVIOUS
  <2>1. \A j \in Jobs : deducted[j] > 0 \/ Carried(j) \/ j \in passed \cup dropped
    BY DEF Custody, Kept
  <2>2. dropped # {} => faults > 0
    BY DEF UndisturbedInv, Undisturbed, Calm, TypeInv, TypeOK
  <2> QED
    BY <2>1, <2>2 DEF LossesExplained
<1>2. Spec => []TypeInv
  BY InitTypes, NextTypes, PTL DEF Spec
<1>3. Spec => []Custody
  BY <1>2, InitCustody, NextCustody, PTL DEF Spec
<1> QED
  BY <1>1, <1>2, <1>3, AlwaysUndisturbed, PTL
=============================================================================
