---------------------------- MODULE CreditsBatch ----------------------------
(***************************************************************************)
(* Charging the users for what they used.  A feature server reports the    *)
(* end of a usage as a message of credits_process_end_queue (or a POST     *)
(* /credits-process/end); a worker process adds it to the batch of its     *)
(* CreditsBatchAggregator, flushes the batch through a circuit breaker to  *)
(* credits_process_batch_queue or charges it directly, and a batch         *)
(* consumer charges what the queue delivers, one Mongo transaction a       *)
(* batch.                                                                  *)
(*                                                                         *)
(* RabbitMQ keeps a message until its channel acknowledges it, gives it to *)
(* somebody else when the connection drops first, and moves a rejected one *)
(* to a dead letter queue that nothing consumes.                           *)
(***************************************************************************)
EXTENDS Integers, FiniteSets

CONSTANTS
  QueueJobs,     \* usages reported through credits_process_end_queue
  HttpJobs,      \* usages reported by POST /credits-process/end
  Users,
  UserOf,        \* the user a usage is charged to
  Workers,       \* server processes of the cluster
  Envelopes,     \* bound: batches under way at a time
  Deliveries,    \* bound: batch deliveries being processed at a time
  MAX_BATCH_SIZE,
  Removable,     \* usages whose feature endpoint, or whose user's wallet, an
                 \* administrator may have taken away when they are charged
  Failures,      \* kinds of failure that happen, a subset of FailureKinds
  MaxFaults      \* bound: failures in all

Jobs == QueueJobs \cup HttpJobs
Executions == Envelopes \cup Deliveries   \* flushes and batch consumers
FailureKinds == {"nack", "timeout", "offline", "crash", "operation", "answer"}

ASSUME JobsAssumption ==
  /\ QueueJobs \cap HttpJobs = {}
  /\ Jobs # {} /\ Workers # {} /\ Envelopes # {}
  /\ UserOf \in [Jobs -> Users]
  /\ Envelopes \cap Deliveries = {}
  /\ Removable \subseteq Jobs
ASSUME BoundsAssumption ==
  /\ IsFiniteSet(Envelopes) /\ MAX_BATCH_SIZE \in Nat \ {0}
  /\ Failures \subseteq FailureKinds
  /\ MaxFaults \in Nat

VARIABLES
  queue,      \* usages waiting in credits_process_end_queue
  requests,   \* POST requests still to come
  batch,      \* CreditsBatchAggregator.batch of each worker
  batchTimer, \* workers whose batchTimer is set
  online,     \* workers whose RabbitMQ.connection is not null
  breaker,    \* state of each worker's rabbitBreaker
  flush,      \* flush executions, one per envelope
  publish,    \* publishToQueue execution of each envelope
  message,    \* message of each envelope in credits_process_batch_queue
  delivery,   \* batch consumer executions
  charging,   \* usages the open Mongo transaction of an execution charges
  deducted,   \* times the cost of a usage was taken from the wallet
  rows,       \* CreditsTransaction rows (decrease, usage_key) of a usage
  dead,       \* usages in a message of a dead letter queue
  passed,     \* usages a committed transaction passed over
  dropped,    \* usages gone with a process's memory, or published nowhere
  copies,     \* times a usage was put on its way to the wallet once more
  stale,      \* executions whose open Mongo transaction can not commit
  faults

vars == <<queue, requests, batch, batchTimer, online, breaker, flush, publish,
          message, delivery, charging, deducted, rows, dead, passed, dropped,
          copies, stale, faults>>
books == <<deducted, rows, passed>>
astray == <<dropped, copies>>

(***************************************************************************)
(* A flush: the worker and the batch it took, who awaits it (the timer, a  *)
(* POST request, the consumer of the message of job, or that consumer      *)
(* after its channel was lost), and which direct attempt it makes.         *)
(***************************************************************************)
FlushStates ==
  [pc : {"idle", "publish", "direct", "commit", "resolved", "rejected"},
   worker : Workers, jobs : SUBSET Jobs, job : Jobs, attempt : 1..2,
   caller : {"timer", "request", "message", "orphan"}]

(* A batch delivery; orphan when its channel was lost meanwhile.           *)
DeliveryStates ==
  [pc : {"idle", "commit", "ack", "nack"}, worker : Workers, envelope : Envelopes,
   jobs : SUBSET Jobs, orphan : BOOLEAN]

(* A publishToQueue execution, and a message in the batch queue. *)
PublishStates ==
  [pc : {"none", "asserting", "sent"}, worker : Workers, jobs : SUBSET Jobs]
MessageStates == [pc : {"none", "ready", "unacked"}, jobs : SUBSET Jobs]

NoFlush == [pc |-> "idle", worker |-> CHOOSE w \in Workers : TRUE, jobs |-> {},
            job |-> CHOOSE j \in Jobs : TRUE, attempt |-> 1, caller |-> "timer"]
NoDelivery ==
  [pc |-> "idle", worker |-> CHOOSE w \in Workers : TRUE,
   envelope |-> CHOOSE e \in Envelopes : TRUE, jobs |-> {}, orphan |-> FALSE]
NoPublish ==
  [pc |-> "none", worker |-> CHOOSE w \in Workers : TRUE, jobs |-> {}]
NoMessage == [pc |-> "none", jobs |-> {}]

TypeOK ==
  /\ queue \subseteq QueueJobs
  /\ requests \subseteq HttpJobs
  /\ batch \in [Workers -> SUBSET Jobs]
  /\ batchTimer \subseteq Workers
  /\ online \subseteq Workers
  /\ breaker \in [Workers -> {"closed", "open", "half_open", "probing"}]
  /\ flush \in [Envelopes -> FlushStates]
  /\ publish \in [Envelopes -> PublishStates]
  /\ message \in [Envelopes -> MessageStates]
  /\ delivery \in [Deliveries -> DeliveryStates]
  /\ charging \in [Executions -> SUBSET Jobs]
  /\ deducted \in [Jobs -> Nat]
  /\ rows \in [Jobs -> Nat]
  /\ dead \subseteq Jobs /\ passed \subseteq Jobs /\ dropped \subseteq Jobs
  /\ copies \in [Jobs -> Nat]
  /\ stale \subseteq Executions
  /\ faults \in Nat

Init ==
  /\ queue = QueueJobs
  /\ requests = HttpJobs
  /\ batch = [w \in Workers |-> {}]
  /\ batchTimer = {}
  /\ online = Workers
  /\ breaker = [w \in Workers |-> "closed"]
  /\ flush = [e \in Envelopes |-> NoFlush]
  /\ publish = [e \in Envelopes |-> NoPublish]
  /\ message = [e \in Envelopes |-> NoMessage]
  /\ delivery = [d \in Deliveries |-> NoDelivery]
  /\ charging = [t \in Executions |-> {}]
  /\ deducted = [j \in Jobs |-> 0]
  /\ rows = [j \in Jobs |-> 0]
  /\ dead = {} /\ passed = {} /\ dropped = {}
  /\ copies = [j \in Jobs |-> 0]
  /\ stale = {}
  /\ faults = 0

Fault(kind) ==
  /\ kind \in Failures
  /\ faults < MaxFaults
  /\ faults' = faults + 1

-----------------------------------------------------------------------------
(* The Mongo transaction that charges a batch *)

(* The POST controller overwrites user_id by that of a logged in user, and *)
(* serverAuth logs nobody in: no wallet is found and the payload is        *)
(* skipped.                                                                *)
Chargeable(jobs) == jobs \ HttpJobs

(* What the open transaction of t will charge.  executeCreditsProcessEnd   *)
(* throws before it touches the wallet when the endpoint is not found or a *)
(* read fails, and at the wallet when there is none; processBatchForUser   *)
(* swallows that and goes on with the next payload.                        *)
BeginCharging(t, jobs) ==
  \E charged \in SUBSET Chargeable(jobs) :
    /\ charging' = [charging EXCEPT ![t] = charged]
    /\ IF Chargeable(jobs) \ charged \subseteq Removable THEN faults' = faults
       ELSE Fault("operation")

TxnWallets(t) == {UserOf[j] : j \in charging[t]}
Conflicts(t) ==
  {u \in Executions : TxnWallets(u) \cap TxnWallets(t) # {}}

(* The transaction of t commits: the wallet first, then the row, for every *)
(* payload.  What a payload throws in between is swallowed as well, and    *)
(* leaves half a charge, without its row.                                  *)
ChargeBatch(t, jobs, rowless) ==
  /\ deducted' = [j \in Jobs |-> IF j \in charging[t]
                                 THEN deducted[j] + 1 ELSE deducted[j]]
  /\ rows' = [j \in Jobs |-> IF j \in charging[t] \ rowless
                             THEN rows[j] + 1 ELSE rows[j]]
  /\ passed' = passed \cup (jobs \ charging[t])
  /\ stale' = (stale \cup Conflicts(t)) \ {t}
  /\ charging' = [charging EXCEPT ![t] = {}]

HalfCharged(rowless) ==
  IF rowless = {} THEN faults' = faults ELSE Fault("operation")

(* mutant: createCreditsTransaction is not given the session *)
RowsWithoutSession(t) ==
  [j \in Jobs |-> IF j \in charging[t] THEN rows[j] + 1 ELSE rows[j]]
RowsAfterAbort(t) == rows

-----------------------------------------------------------------------------
(* The worker process *)

(* opossum's view of a publish that resolved, or failed or timed out. *)
AfterSuccess(w) ==
  IF breaker[w] \in {"half_open", "probing"}
  THEN [breaker EXCEPT ![w] = "closed"] ELSE breaker
AfterFailure(w) ==
  IF breaker[w] = "closed"
  THEN {breaker, [breaker EXCEPT ![w] = "open"]}
  ELSE {[breaker EXCEPT ![w] = "open"]}

FlushesOf(w) == {e \in Envelopes : flush[e].pc # "idle" /\ flush[e].worker = w}
Publishing(w) ==
  {e \in Envelopes : publish[e].pc # "none" /\ publish[e].worker = w}
Sending(w) == {e \in Publishing(w) : publish[e].pc = "sent"}
DeliveriesOf(w) ==
  {d \in Deliveries : delivery[d].pc # "idle" /\ delivery[d].worker = w}

(* End messages and batches worker w has not acknowledged on a live channel. *)
UnackedJobs(w) ==
  {flush[e].job : e \in {f \in FlushesOf(w) : flush[f].caller = "message"}}
UnackedBatches(w) ==
  {delivery[d].envelope : d \in {c \in DeliveriesOf(w) : ~delivery[c].orphan}}

(* The batch queue when w's channel is gone: what was on its way may have  *)
(* arrived, what was not acknowledged is ready again.                      *)
QueueAfterLoss(w, arrived) ==
  [e \in Envelopes |->
     IF e \in arrived THEN [pc |-> "ready", jobs |-> publish[e].jobs]
     ELSE IF e \in UnackedBatches(w) THEN [message[e] EXCEPT !.pc = "ready"]
     ELSE message[e]]
PublishesWithout(w) ==
  [e \in Envelopes |-> IF e \in Publishing(w) THEN NoPublish ELSE publish[e]]

(* A second way to the wallet: an end message or a batch delivered again,  *)
(* or a publish that arrives when its flush does not wait for it any more. *)
CopiesAfter(end, batches, late) ==
  [j \in Jobs |-> copies[j] + (IF j \in end THEN 1 ELSE 0)
                 + Cardinality({e \in batches : j \in message[e].jobs})
                 + Cardinality({e \in late : j \in publish[e].jobs})]

(* The flushes of w whose usages are only in its memory. *)
Pending(w) == {e \in FlushesOf(w) : flush[e].pc # "resolved"}
UsagesOf(flushes) == UNION {flush[e].jobs : e \in flushes}
InMemory(w, arrived) == batch[w] \cup UsagesOf(Pending(w) \ arrived)

(* Worker w goes down: its memory is gone, its transactions are aborted,   *)
(* what it did not acknowledge is delivered again, or was rejected while   *)
(* the shutdown had already closed the database.  A message on its way to  *)
(* the broker may arrive.                                                  *)
WorkerDown(w) ==
  \E arrived \in SUBSET Sending(w), rejected \in SUBSET UnackedBatches(w) :
    /\ batch' = [batch EXCEPT ![w] = {}]
    /\ batchTimer' = batchTimer \ {w}
    /\ online' = online \ {w}
    /\ breaker' = [breaker EXCEPT ![w] = "closed"]
    /\ flush' = [e \in Envelopes |->
                   IF e \in FlushesOf(w) THEN NoFlush ELSE flush[e]]
    /\ publish' = PublishesWithout(w)
    /\ message' = [e \in Envelopes |->
                     IF e \in rejected THEN NoMessage
                     ELSE QueueAfterLoss(w, arrived)[e]]
    /\ queue' = queue \cup UnackedJobs(w)
    /\ dead' = dead \cup UNION {message[e].jobs : e \in rejected}
    /\ dropped' = dropped \cup (InMemory(w, arrived) \ UnackedJobs(w))
    /\ copies' = CopiesAfter(UnackedJobs(w), UnackedBatches(w) \ rejected,
                             {e \in arrived : flush[e].pc # "publish"})
    /\ delivery' = [d \in Deliveries |->
                      IF d \in DeliveriesOf(w) THEN NoDelivery ELSE delivery[d]]
    /\ charging' = [t \in Executions |->
                      IF t \in FlushesOf(w) \cup DeliveriesOf(w) THEN {}
                      ELSE charging[t]]
    /\ stale' = stale \ (FlushesOf(w) \cup DeliveriesOf(w))

Crash(w) ==
  /\ Fault("crash")
  /\ WorkerDown(w)
  /\ UNCHANGED <<requests, books>>

(* Publishes that await assertQueue when the connection of w drops:        *)
(* publishToQueue swallows the error and resolves.                         *)
Swallowed(w) == {e \in Publishing(w) \ Sending(w) : flush[e].pc = "publish"}
FlushesAfterLoss(w) ==
  [e \in Envelopes |->
     IF e \in FlushesOf(w)
     THEN [flush[e] EXCEPT
             !.pc = IF e \in Swallowed(w) THEN "resolved" ELSE @,
             !.caller = IF @ = "message" THEN "orphan" ELSE @]
     ELSE flush[e]]

(* The connection of w drops; a confirm that is awaited never comes.       *)
ConnectionLost(w) ==
  /\ w \in online
  /\ Fault("offline")
  /\ online' = online \ {w}
  /\ \E arrived \in SUBSET Sending(w) :
       /\ message' = QueueAfterLoss(w, arrived)
       /\ copies' = CopiesAfter(UnackedJobs(w), UnackedBatches(w), arrived)
  /\ publish' = PublishesWithout(w)
  /\ flush' = FlushesAfterLoss(w)
  /\ breaker' = IF Swallowed(w) # {} THEN AfterSuccess(w) ELSE breaker
  /\ dropped' = dropped \cup UsagesOf(Swallowed(w))
  /\ queue' = queue \cup UnackedJobs(w)
  /\ delivery' = [d \in Deliveries |->
                    IF d \in DeliveriesOf(w)
                    THEN [delivery[d] EXCEPT !.orphan = TRUE] ELSE delivery[d]]
  /\ UNCHANGED <<requests, batch, batchTimer, charging, books, dead, stale>>

Reconnect(w) ==
  /\ w \notin online
  /\ online' = online \cup {w}
  /\ UNCHANGED <<queue, requests, batch, batchTimer, breaker, flush, publish,
                 message, delivery, charging, books, astray, dead, stale, faults>>

-----------------------------------------------------------------------------
(* CreditsBatchAggregator *)

Free(e) ==
  flush[e].pc = "idle" /\ publish[e].pc = "none" /\ message[e].pc = "none"

RetainedBatch(w, jobs) == jobs     \* mutant: this.batch is not replaced
RemainingBatch(w, jobs) == {}

(* The batch and the timer are reset before the first await; the breaker   *)
(* runs publishToQueue, which resolves at once when there is no            *)
(* connection, or the fallback.                                            *)
Flush(e, w, jobs, caller, j) ==
  /\ Free(e)
  /\ batch' = [batch EXCEPT ![w] = RemainingBatch(w, jobs)]
  /\ batchTimer' = batchTimer \ {w}
  /\ LET f == [NoFlush EXCEPT !.worker = w, !.jobs = jobs, !.caller = caller,
                              !.job = j]
     IN \/ /\ breaker[w] \in {"closed", "half_open"} /\ w \in online
           /\ flush' = [flush EXCEPT ![e] = [f EXCEPT !.pc = "publish"]]
           /\ publish' = [publish EXCEPT ![e] =
                [pc |-> "asserting", worker |-> w, jobs |-> jobs]]
           /\ breaker' = IF breaker[w] = "half_open"
                         THEN [breaker EXCEPT ![w] = "probing"] ELSE breaker
           /\ UNCHANGED dropped
        \/ /\ breaker[w] \in {"closed", "half_open"} /\ w \notin online
           /\ flush' = [flush EXCEPT ![e] = [f EXCEPT !.pc = "resolved"]]
           /\ breaker' = AfterSuccess(w)
           /\ dropped' = dropped \cup jobs
           /\ UNCHANGED publish
        \/ /\ breaker[w] \in {"open", "probing"}
           /\ flush' = [flush EXCEPT ![e] = [f EXCEPT !.pc = "direct"]]
           /\ UNCHANGED <<publish, breaker, dropped>>

(* mutant: the timer is not set again while one flush is under way *)
TimerWantedOnce(w) == FlushesOf(w) = {}
TimerWanted(w) == TRUE

AddToBatch(w, j, caller) ==
  LET jobs == batch[w] \cup {j} IN
  IF Cardinality(jobs) >= MAX_BATCH_SIZE
  THEN \E e \in Envelopes :
         Flush(e, w, jobs, caller, IF caller = "message" THEN j ELSE NoFlush.job)
  ELSE /\ batch' = [batch EXCEPT ![w] = jobs]
       /\ batchTimer' = IF TimerWanted(w) THEN batchTimer \cup {w} ELSE batchTimer
       /\ UNCHANGED <<flush, publish, breaker, dropped>>

(* A message of the end queue (prefetch 1).  It is acknowledged as soon as *)
(* the usage is in memory, unless this usage makes the batch full: then    *)
(* after the flush.                                                        *)
EndMessage(w, j) ==
  /\ w \in online /\ j \in queue
  /\ UnackedJobs(w) = {}
  /\ queue' = queue \ {j}
  /\ AddToBatch(w, j, "message")
  /\ UNCHANGED <<requests, online, message, delivery, charging, books, dead,
                 copies, stale, faults>>

EndRequest(w, j) ==
  /\ j \in requests
  /\ requests' = requests \ {j}
  /\ AddToBatch(w, j, "request")
  /\ UNCHANGED <<queue, online, message, delivery, charging, books, dead, copies,
                 stale, faults>>

TimerFires(w) ==
  /\ w \in batchTimer
  /\ \E e \in Envelopes :
       Flush(e, w, batch[w], "timer", NoFlush.job)
  /\ UNCHANGED <<queue, requests, online, message, delivery, charging, books, dead,
                 copies, stale, faults>>

-----------------------------------------------------------------------------
(* publishToQueue behind the breaker *)

QueueAsserted(e) ==
  /\ publish[e].pc = "asserting"
  /\ publish' = [publish EXCEPT ![e].pc = "sent"]
  /\ UNCHANGED <<queue, requests, batch, batchTimer, online, breaker, flush,
                 message, delivery, charging, books, astray, dead, stale, faults>>

(* Stored and confirmed; nobody listens any more after a timeout. *)
PublishConfirmed(e) ==
  /\ publish[e].pc = "sent"
  /\ publish' = [publish EXCEPT ![e] = NoPublish]
  /\ message' = [message EXCEPT ![e] = [pc |-> "ready", jobs |-> publish[e].jobs]]
  /\ IF flush[e].pc = "publish"
     THEN /\ flush' = [flush EXCEPT ![e].pc = "resolved"]
          /\ breaker' = AfterSuccess(flush[e].worker)
          /\ UNCHANGED copies
     ELSE /\ copies' = CopiesAfter({}, {}, {e})
          /\ UNCHANGED <<flush, breaker>>
  /\ UNCHANGED <<queue, requests, batch, batchTimer, online, delivery, charging,
                 books, dead, dropped, stale, faults>>

PublishNacked(e) ==
  /\ publish[e].pc = "sent"
  /\ Fault("nack")
  /\ publish' = [publish EXCEPT ![e] = NoPublish]
  /\ IF flush[e].pc = "publish"
     THEN /\ flush' = [flush EXCEPT ![e].pc = "direct"]
          /\ breaker' \in AfterFailure(flush[e].worker)
     ELSE UNCHANGED <<flush, breaker>>
  /\ UNCHANGED <<queue, requests, batch, batchTimer, online, message, delivery,
                 charging, books, astray, dead, stale>>

(* After three seconds the breaker gives up waiting and calls the          *)
(* fallback; the publish goes on.                                          *)
BreakerTimeout(e) ==
  /\ flush[e].pc = "publish"
  /\ IF publish[e].pc = "none" THEN faults' = faults ELSE Fault("timeout")
  /\ flush' = [flush EXCEPT ![e].pc = "direct"]
  /\ breaker' \in AfterFailure(flush[e].worker)
  /\ UNCHANGED <<queue, requests, batch, batchTimer, online, publish, message,
                 delivery, charging, books, astray, dead, stale>>

BreakerReset(w) ==
  /\ breaker[w] = "open"
  /\ breaker' = [breaker EXCEPT ![w] = "half_open"]
  /\ UNCHANGED <<queue, requests, batch, batchTimer, online, flush, publish,
                 message, delivery, charging, books, astray, dead, stale, faults>>

-----------------------------------------------------------------------------
(* processBatchDirectly *)

DirectBegin(e) ==
  /\ flush[e].pc = "direct"
  /\ flush' = [flush EXCEPT ![e].pc = "commit"]
  /\ BeginCharging(e, flush[e].jobs)
  /\ stale' = stale \ {e}
  /\ UNCHANGED <<queue, requests, batch, batchTimer, online, breaker, publish,
                 message, delivery, books, astray, dead>>

(* flush catches a failed fallback and processes the batch once more. *)
NextAttempt(e) ==
  [flush EXCEPT ![e] = [flush[e] EXCEPT
     !.pc = IF flush[e].attempt = 1 THEN "direct" ELSE "rejected", !.attempt = 2]]

(* A commit that is applied while its answer is lost fails like another.   *)
DirectCommit(e) ==
  /\ flush[e].pc = "commit" /\ e \notin stale
  /\ \/ \E rowless \in SUBSET charging[e] :
          /\ HalfCharged(rowless)
          /\ ChargeBatch(e, flush[e].jobs, rowless)
          /\ flush' = [flush EXCEPT ![e].pc = "resolved"]
          /\ UNCHANGED copies
     \/ /\ Fault("answer")
        /\ ChargeBatch(e, flush[e].jobs, {})
        /\ flush' = NextAttempt(e)
        /\ copies' = IF flush[e].attempt = 1
                     THEN CopiesAfter(flush[e].jobs, {}, {}) ELSE copies
  /\ UNCHANGED <<queue, requests, batch, batchTimer, online, breaker, publish,
                 message, delivery, dead, dropped>>

DirectAbort(e) ==
  /\ flush[e].pc = "commit" /\ e \in stale
  /\ flush' = NextAttempt(e)
  /\ stale' = stale \ {e}
  /\ charging' = [charging EXCEPT ![e] = {}]
  /\ rows' = RowsAfterAbort(e)
  /\ UNCHANGED <<queue, requests, batch, batchTimer, online, breaker, publish,
                 message, delivery, deducted, passed, astray, dead, faults>>

-----------------------------------------------------------------------------
(* Who awaited the flush *)

Ended(e) == [flush EXCEPT ![e] = NoFlush]

(* An acknowledgement on a lost channel throws, in the handler and again   *)
(* in its catch block: an unhandled rejection, which shuts the worker down. *)
FlushResolved(e) ==
  /\ flush[e].pc = "resolved"
  /\ IF flush[e].caller = "orphan"
     THEN WorkerDown(flush[e].worker)
     ELSE /\ flush' = Ended(e)
          /\ UNCHANGED <<queue, batch, batchTimer, online, breaker, publish,
                         message, delivery, charging, astray, dead, stale>>
  /\ UNCHANGED <<requests, books, faults>>

(* A consumer rejects its message, a request is answered 500, and the      *)
(* timer leaves an unhandled rejection.  The other usages of the batch are *)
(* nowhere but in this flush.                                              *)
FlushRejected(e) ==
  /\ flush[e].pc = "rejected"
  /\ IF flush[e].caller \in {"message", "request"}
     THEN LET refused == IF flush[e].caller = "message" THEN {flush[e].job} ELSE {}
          IN /\ dead' = dead \cup refused
             /\ dropped' = dropped \cup (flush[e].jobs \ refused)
             /\ flush' = Ended(e)
             /\ UNCHANGED <<queue, batch, batchTimer, online, breaker, publish,
                            message, delivery, charging, copies, stale>>
     ELSE WorkerDown(flush[e].worker)
  /\ UNCHANGED <<requests, books, faults>>

-----------------------------------------------------------------------------
(* The consumer of credits_process_batch_queue *)

BatchDelivered(d, e, w) ==
  /\ w \in online
  /\ message[e].pc = "ready"
  /\ delivery[d].pc = "idle"
  /\ message' = [message EXCEPT ![e].pc = "unacked"]
  /\ delivery' = [delivery EXCEPT ![d] =
                    [pc |-> "commit", worker |-> w, envelope |-> e,
                     jobs |-> message[e].jobs, orphan |-> FALSE]]
  /\ BeginCharging(d, message[e].jobs)
  /\ stale' = stale \ {d}
  /\ UNCHANGED <<queue, requests, batch, batchTimer, online, breaker, flush,
                 publish, books, astray, dead>>

BatchCommit(d) ==
  /\ delivery[d].pc = "commit" /\ d \notin stale
  /\ \/ \E rowless \in SUBSET charging[d] :
          /\ HalfCharged(rowless)
          /\ ChargeBatch(d, delivery[d].jobs, rowless)
          /\ delivery' = [delivery EXCEPT ![d].pc = "ack"]
     \/ /\ Fault("answer")
        /\ ChargeBatch(d, delivery[d].jobs, {})
        /\ delivery' = [delivery EXCEPT ![d].pc = "nack"]
  /\ UNCHANGED <<queue, requests, batch, batchTimer, online, breaker, flush,
                 publish, message, astray, dead>>

BatchAck(d) ==
  /\ delivery[d].pc = "ack"
  /\ IF delivery[d].orphan
     THEN WorkerDown(delivery[d].worker)
     ELSE /\ message' = [message EXCEPT ![delivery[d].envelope] = NoMessage]
          /\ delivery' = [delivery EXCEPT ![d] = NoDelivery]
          /\ UNCHANGED <<queue, batch, batchTimer, online, breaker, flush,
                         publish, charging, astray, dead, stale>>
  /\ UNCHANGED <<requests, books, faults>>

(* mutant: every error is dropped as if it were a validation error *)
DeadLetteredNever(jobs) == {}
DeadLetteredWhole(jobs) == {jobs}   \* mutant: the batch, not its usages
DeadLettered(jobs) == jobs

(* A write conflict aborts the transaction; the commit throws, the message *)
(* is rejected without requeueing.                                         *)
BatchAbort(d) ==
  /\ \/ delivery[d].pc = "commit" /\ d \in stale
     \/ delivery[d].pc = "nack"
  /\ rows' = RowsAfterAbort(d)
  /\ IF delivery[d].orphan
     THEN WorkerDown(delivery[d].worker)
     ELSE /\ message' = [message EXCEPT ![delivery[d].envelope] = NoMessage]
          /\ dead' = dead \cup DeadLettered(delivery[d].jobs)
          /\ delivery' = [delivery EXCEPT ![d] = NoDelivery]
          /\ charging' = [charging EXCEPT ![d] = {}]
          /\ stale' = stale \ {d}
          /\ UNCHANGED <<queue, batch, batchTimer, online, breaker, flush,
                         publish, astray>>
  /\ UNCHANGED <<requests, deducted, passed, faults>>

-----------------------------------------------------------------------------
FlushStep(e) ==
  \/ QueueAsserted(e) \/ PublishConfirmed(e) \/ BreakerTimeout(e)
  \/ DirectBegin(e)   \/ DirectCommit(e)     \/ DirectAbort(e)
  \/ FlushResolved(e) \/ FlushRejected(e)

DeliveryStep(d) ==
  \/ BatchCommit(d) \/ BatchAck(d) \/ BatchAbort(d)

WorkerStep(w) ==
  \/ TimerFires(w) \/ Reconnect(w) \/ BreakerReset(w)
  \/ \E j \in Jobs : EndMessage(w, j) \/ EndRequest(w, j)
  \/ \E d \in Deliveries, e \in Envelopes : BatchDelivered(d, e, w)

Next ==
  \/ \E e \in Envelopes : FlushStep(e) \/ PublishNacked(e)
  \/ \E d \in Deliveries : DeliveryStep(d)
  \/ \E w \in Workers : WorkerStep(w) \/ ConnectionLost(w) \/ Crash(w)

Spec == Init /\ [][Next]_vars

(* The event loop runs what it started, the timers fire, and RabbitMQ      *)
(* delivers what is ready to a consumer that is connected.                 *)
Fairness ==
  /\ \A e \in Envelopes : WF_vars(FlushStep(e))
  /\ \A d \in Deliveries : WF_vars(DeliveryStep(d))
  /\ \A w \in Workers : WF_vars(TimerFires(w)) /\ WF_vars(Reconnect(w))
  /\ \A j \in Jobs : WF_vars(\E w \in Workers : EndMessage(w, j) \/ EndRequest(w, j))
  /\ \A e \in Envelopes :
       WF_vars(\E d \in Deliveries, w \in Workers : BatchDelivered(d, e, w))

FairSpec == Spec /\ Fairness

-----------------------------------------------------------------------------
(* Safety *)

(* A usage is charged at most once, whichever of the queue and the         *)
(* fallback its batches take (CreditsBatchAggregator.flush).               *)
ChargedAtMostOnce == \A j \in Jobs : deducted[j] <= 1

(* That needs no more than that nothing fails: any number of workers may   *)
(* batch, flush, deliver and conflict at the same time.                    *)
ChargedTwiceOnlyAfterFault == faults = 0 => ChargedAtMostOnce

(* And beyond the first, every charge of a usage has a redelivery, a late  *)
(* publish or a repeated attempt of its own (batch.service.ts:24 and 98,   *)
(* rabbitmq.ts:244); no CreditsTransaction row stands for credits that     *)
(* were not taken, whatever aborts (executeCreditsProcessEnd's session).   *)
ChargesExplained ==
  \A j \in Jobs : rows[j] <= deducted[j] /\ deducted[j] <= 1 + copies[j]

(* Where a usage that was reported still is.                               *)
Carried(j) ==
  \/ j \in queue \cup requests \cup dead
  \/ \E w \in Workers : j \in batch[w]
  \/ \E e \in Envelopes :
       \/ flush[e].pc \in {"publish", "direct", "commit", "rejected"}
          /\ j \in flush[e].jobs
       \/ j \in message[e].jobs

(* A usage is charged, carried by a queue, a batch, a flush or a message,  *)
(* dead-lettered, or lost in one of two ways: passed over by a transaction *)
(* that committed, or dropped, and that only once something had failed.    *)
(* Flushes, fallbacks, rejections and redeliveries forget none besides.    *)
LossesExplained ==
  /\ \A j \in Jobs : deducted[j] > 0 \/ Carried(j) \/ j \in passed \cup dropped
  /\ dropped # {} => faults > 0

-----------------------------------------------------------------------------
(* Liveness *)

(* What a feature server reports is charged in the end, or passed over     *)
(* when its endpoint or wallet is gone; it is put aside (dead-lettered, or *)
(* dropped by a flush that failed twice) only where the charge of another  *)
(* usage came first (write conflicts on one wallet).                       *)
Beaten(j) == \E k \in Jobs \ {j} : deducted[k] > 0
EveryQueuedUsageCharged ==
  \A j \in QueueJobs :
    <>(\/ deducted[j] > 0
       \/ j \in passed \cap Removable
       \/ j \in dead \cup dropped /\ Beaten(j))
=============================================================================
