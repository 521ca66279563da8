--------------------------- MODULE ExecutionJobs ---------------------------
(***************************************************************************)
(* Durable execution jobs: the table execution_jobs                        *)
(* (execution-jobs/postgres-store.ts), the dispatcher that runs the        *)
(* handlers of claimed jobs (execution-jobs/dispatcher.ts), the BullMQ     *)
(* consumers with their recovery tick (queue/execution-worker.ts) and the  *)
(* operator's retry and cancel (routers/operation-jobs.ts), over the       *)
(* outbox and the broker of module Outbox.                                 *)
(*                                                                         *)
(* Every action is one SQL statement or one PostgreSQL transaction; what   *)
(* a handler remembers between two of them is its record in "handlers".    *)
(* Time is abstracted: "due" says next_attempt_at has passed, "lease" says *)
(* whether lease_until has.  All processes read one clock.                 *)
(***************************************************************************)
EXTENDS Outbox, Sequences

CONSTANTS
  Worker,        \* worker ids (EXECUTION_WORKER_ID) of the BullMQ consumers
  NoWorker,      \* lease_owner IS NULL
  Concurrency,   \* messages one consumer works on at a time
  Risks,         \* risk levels callers enqueue with
  MaxAttempts,   \* values of max_attempts callers enqueue with
  RetryBound,    \* bound on the attempts at which an operator still retries
  Kinds,         \* how the handlers of the enqueued jobs finish, see HandlerKind
  Dedup,         \* jobs enqueued with deduplicate_active
  ObjectOf       \* what they are deduplicated on: tenant, actor, type, object

(* How the dispatcher branch of a job type ends:                           *)
(*   checked   registered handlers and mail.sync: a checkpoint, then a     *)
(*             completion that names the worker                            *)
(*   planned   work_plan.run, today_analyze.run, review.timeout: no        *)
(*             checkpoint, but the completion names the worker             *)
(*   unfenced  cron.run and the work_order types: the completion, and the  *)
(*             failure of a malformed payload, name no worker              *)
HandlerKind == {"checked", "planned", "unfenced"}
RiskLevel == {"low", "medium", "high", "critical"}
HighRisk == {"high", "critical"}

ASSUME JobsAssumption ==
  /\ NoWorker \notin Worker
  /\ Concurrency \in Nat \ {0}
  /\ Risks \subseteq RiskLevel
  /\ MaxAttempts \subseteq Nat \ {0}
  /\ RetryBound \in Nat
  /\ Kinds \subseteq HandlerKind
  /\ Dedup \subseteq Job

VARIABLES
  jobs,       \* the rows of execution_jobs
  handlers,   \* handler calls in the memory of the workers
  dropped,    \* messages lost because their claim query failed
  history     \* of each job: the worker of every attempt, the attempt that
              \* wrote the receipt (only recorded: no guard reads it)

jobVars == <<jobs, handlers, dropped, history>>
vars == <<jobVars, deliveryVars>>

Claimable == {"queued", "retrying"}
Active == {"queued", "running", "retrying"}
Terminal == {"succeeded", "failed", "cancelled", "uncertain"}
Status == {"absent"} \cup Active \cup Terminal
Phase == {"working", "checked", "failing", "rejected"}

JobRecord == [status : Status, attempts : Nat, max : Nat \ {0},
              risk : RiskLevel, kind : HandlerKind,
              owner : Worker \cup {NoWorker}, lease : {"none", "held", "over"},
              due : BOOLEAN]
ClaimHistory == [claimants : Seq(Worker), receipt : Nat]
Handler == [job : Job, worker : Worker, attempt : Nat, msg : Key, phase : Phase]

NoJob == [status |-> "absent", attempts |-> 0, max |-> 1, risk |-> "low",
          kind |-> "checked", owner |-> NoWorker, lease |-> "none", due |-> FALSE]

(* One invariant for the types of the whole state.                         *)
TypeOK ==
  /\ OutboxTypeOK
  /\ jobs \in [Job -> JobRecord]
  /\ handlers \subseteq Handler
  /\ dropped \subseteq Key
  /\ history \in [Job -> ClaimHistory]

Init ==
  /\ OutboxInit
  /\ jobs = [j \in Job |-> NoJob]
  /\ handlers = {}
  /\ dropped = {}
  /\ history = [j \in Job |-> [claimants |-> <<>>, receipt |-> 0]]

-----------------------------------------------------------------------------
(* The row after a statement that sets lease_until and lease_owner NULL.   *)
Released(job, status) ==
  [job EXCEPT !.status = status, !.owner = NoWorker, !.lease = "none"]

(* Mutation: a running row of any worker is taken for this worker's.       *)
OwnedByAnyone(h) == jobs[h.job].status = "running"

(* Whether the row still is this call's worker's.                          *)
Owned(h) == /\ jobs[h.job].status = "running"
            /\ jobs[h.job].owner = h.worker

(* An error path of the handler puts the job back only for a risk that may *)
(* be replayed and while attempts are left.                                *)
CanRetry(job) == job.risk \notin HighRisk /\ job.attempts < job.max

-----------------------------------------------------------------------------
(* Enqueue, retry, cancel: the API processes.                              *)

(* pgEnqueueExecutionJob for a new idempotency key; a replayed key, and    *)
(* an active job with the same object under deduplicate_active, change     *)
(* nothing.  next_attempt_at may lie in the future.                        *)
Enqueue(j) ==
  /\ jobs[j].status = "absent"
  /\ j \in Dedup => ~ \E i \in Dedup : /\ ObjectOf[i] = ObjectOf[j]
                                       /\ jobs[i].status \in Active
  /\ \E risk \in Risks, kind \in Kinds, max \in MaxAttempts, due \in BOOLEAN :
       /\ jobs' = [jobs EXCEPT ![j] =
                     [NoJob EXCEPT !.status = "queued", !.max = max,
                                   !.risk = risk, !.kind = kind, !.due = due]]
       /\ InsertRow(DispatchKey(j, "queued", 0), due)
  /\ UNCHANGED <<handlers, dropped, history, brokerVars, inHand, faults>>

(* next_attempt_at of the job and available_at of its row were written as  *)
(* the same instant: they pass together.                                   *)
BecomesDue(j) ==
  /\ jobs[j].status # "absent" /\ ~ jobs[j].due
  /\ jobs' = [jobs EXCEPT ![j].due = TRUE]
  /\ RowsBecomeReady(j)
  /\ UNCHANGED <<handlers, dropped, history, brokerVars, inHand, faults>>

(* pgRetryFailedExecutionJob: the operator's retry of a failed low-risk    *)
(* job.  RetryBound keeps the attempts finite.                             *)
ManualRetry(j) ==
  /\ jobs[j].status = "failed" /\ jobs[j].risk = "low"
  /\ jobs[j].attempts <= RetryBound
  /\ LET n == jobs[j].attempts
         max == IF jobs[j].max <= n THEN n + 1 ELSE jobs[j].max
     IN  /\ jobs' = [jobs EXCEPT ![j] =
                       [Released(@, "queued") EXCEPT !.max = max, !.due = TRUE]]
         /\ InsertRow(DispatchKey(j, "manual-retry", n), TRUE)
  /\ UNCHANGED <<handlers, dropped, history, brokerVars, inHand, faults>>

(* Mutation: the attempt is handed back.                                   *)
CancelRefunds(j) ==
  /\ jobs[j].status \in Active /\ jobs[j].risk = "low"
  /\ jobs' = [jobs EXCEPT ![j] = [Released(@, "cancelled") EXCEPT !.attempts = @ - 1]]
  /\ UNCHANGED <<handlers, dropped, history, deliveryVars>>

(* POST /jobs/:id/cancel: low risk only, and the handler finds out at its  *)
(* next checkpoint.                                                        *)
Cancel(j) ==
  /\ jobs[j].status \in Active /\ jobs[j].risk = "low"
  /\ jobs' = [jobs EXCEPT ![j] = Released(@, "cancelled")]
  /\ UNCHANGED <<handlers, dropped, history, deliveryVars>>

-----------------------------------------------------------------------------
(* A consumer receives a message and claims the job it names.              *)

HasSlot(w) == Cardinality({h \in handlers : h.worker = w}) < Concurrency
Delivers(j) == jobs[j].status \in Claimable /\ jobs[j].due

(* pgClaimExecutionJobById updated the row: the handler runs.              *)
ClaimJob(w, k) ==
  /\ HasSlot(w) /\ Delivers(k.job)
  /\ Activate(k)
  /\ LET n == jobs[k.job].attempts + 1
     IN  /\ jobs' = [jobs EXCEPT ![k.job].status = "running",
                                 ![k.job].attempts = n,
                                 ![k.job].owner = w,
                                 ![k.job].lease = "held"]
         /\ handlers' = handlers \cup
              {[job |-> k.job, worker |-> w, attempt |-> n, msg |-> k,
                phase |-> "working"]}
  /\ history' = [history EXCEPT ![k.job].claimants = Append(@, w)]
  /\ UNCHANGED <<dropped, outboxVars, inHand, faults>>

(* The claim matched no row: the message is a duplicate and is completed.  *)
DuplicateMessage(k) ==
  /\ \E w \in Worker : HasSlot(w)
  /\ ~ Delivers(k.job)
  /\ Consume(k)
  /\ UNCHANGED <<jobVars, outboxVars, inHand, faults>>

(* The claim query threw: BullMQ fails the message, whose attempts are 1.  *)
ClaimFails(k) ==
  /\ \E w \in Worker : HasSlot(w)
  /\ Fault
  /\ Consume(k)
  /\ dropped' = dropped \cup {k}
  /\ UNCHANGED <<jobs, handlers, history, outboxVars, inHand>>

-----------------------------------------------------------------------------
(* The handler call of a claimed job.                                      *)

SetPhase(h, phase) ==
  /\ handlers' = (handlers \ {h}) \cup {[h EXCEPT !.phase = phase]}
  /\ UNCHANGED <<jobs, dropped, history, deliveryVars>>

(* The call returned: BullMQ completes its message.                        *)
Return(h) ==
  /\ handlers' = handlers \ {h}
  /\ Settle(h.msg)
  /\ UNCHANGED <<outboxVars, inHand>>

(* The renewal timer: by owner, whether or not the lease has run out.      *)
Renew(h) ==
  /\ Owned(h)
  /\ jobs[h.job].lease = "over"
  /\ jobs' = [jobs EXCEPT ![h.job].lease = "held"]
  /\ UNCHANGED <<handlers, dropped, history, deliveryVars>>

(* The last checkpoint before the completion: one read, used later.        *)
Checkpoint(h) ==
  /\ h.phase = "working" /\ jobs[h.job].kind = "checked"
  /\ SetPhase(h, IF Owned(h) THEN "checked" ELSE "failing")

(* The handler or the completing statement threw; "rejected" is            *)
(* ExecutionNotDispatched or a terminal mail.sync failure of the handler,  *)
(* both reported as not_dispatched.                                        *)
HandlerThrows(h) ==
  \/ h.phase = "working" /\ SetPhase(h, "rejected")
  \/ h.phase \in {"working", "checked"} /\ SetPhase(h, "failing")

(* pgCompleteExecutionJob: without effect when the row is no longer        *)
(* running, or is another worker's and the caller named its own.           *)
Complete(h) ==
  /\ h.phase = IF jobs[h.job].kind = "checked" THEN "checked" ELSE "working"
  /\ Return(h)
  /\ IF /\ jobs[h.job].status = "running"
        /\ jobs[h.job].kind = "unfenced" \/ Owned(h)
     THEN /\ jobs' = [jobs EXCEPT ![h.job] = Released(@, "succeeded")]
          /\ history' = [history EXCEPT ![h.job].receipt = h.attempt]
     ELSE UNCHANGED <<jobs, history>>
  /\ UNCHANGED <<dropped, faults>>

(* Mutation: a failed high-risk job is put back like any other.            *)
FailedStatusIgnoresRisk(job, notDispatched) ==
  IF ~ notDispatched /\ job.attempts < job.max THEN "retrying" ELSE "failed"

(* The status pgFailExecutionJob leaves a running job in.                  *)
FailedStatus(job, notDispatched) ==
  CASE notDispatched        -> "failed"
    [] ~ notDispatched /\ job.risk \in HighRisk -> "uncertain"
    [] ~ notDispatched /\ CanRetry(job) -> "retrying"
    [] OTHER                -> "failed"

(* pgFailExecutionJob when its row checks passed.  A retry is not due: its *)
(* back-off, or the date the mail server gave, has yet to pass.            *)
WriteFailure(j, notDispatched) ==
  LET status == FailedStatus(jobs[j], notDispatched)
      again == status = "retrying"
  IN  /\ jobs' = [jobs EXCEPT ![j] =
                    [Released(@, status) EXCEPT !.due = ~ again]]
      /\ IF again
         THEN InsertRow(DispatchKey(j, "retry", jobs[j].attempts), FALSE)
         ELSE UNCHANGED outboxVars

(* The catch branch of the dispatcher, which names the worker.             *)
FailWrite(h) ==
  /\ h.phase \in {"failing", "rejected"}
  /\ handlers' = handlers \ {h}
  /\ Settle(h.msg)
  /\ IF Owned(h)
     THEN WriteFailure(h.job, h.phase = "rejected")
     ELSE UNCHANGED <<jobs, outboxVars>>
  /\ UNCHANGED <<dropped, history, inHand, faults>>

(* A malformed payload, an unsupported type or a cron run in the wrong     *)
(* state: the failure names no worker.                                     *)
MalformedFail(h) ==
  /\ h.phase = "working" /\ jobs[h.job].kind = "unfenced"
  /\ handlers' = handlers \ {h}
  /\ Settle(h.msg)
  /\ IF jobs[h.job].status = "running"
     THEN WriteFailure(h.job, FALSE)
     ELSE UNCHANGED <<jobs, outboxVars>>
  /\ UNCHANGED <<dropped, history, inHand, faults>>

(* The failure write itself threw: the job stays running until its lease   *)
(* runs out.                                                               *)
FailWriteThrows(h) ==
  /\ Fault
  /\ h.phase \in {"failing", "rejected"}
  /\ Return(h)
  /\ UNCHANGED <<jobs, dropped, history>>

(* The worker process dies; it, or another, comes back with no memory.     *)
WorkerCrash(w) ==
  /\ Fault
  /\ \E h \in handlers : h.worker = w
  /\ handlers' = {h \in handlers : h.worker # w}
  /\ UNCHANGED <<jobs, dropped, history, outboxVars, brokerVars, inHand>>

-----------------------------------------------------------------------------
(* Lease recovery.                                                         *)

(* A lease runs out: its worker is gone, or did not get to renew it.       *)
LeaseRunsOut(j) ==
  /\ jobs[j].lease = "held"
  /\ jobs' = [jobs EXCEPT ![j].lease = "over"]
  /\ UNCHANGED <<handlers, dropped, history, deliveryVars>>

(* Mutation: recovery looks for the jobs it can put back, and no others.   *)
ExpiredRetryable(j) ==
  jobs[j].status = "running" /\ jobs[j].lease = "over" /\ CanRetry(jobs[j])

(* The rows the recovery selects.                                          *)
Expired(j) == jobs[j].status = "running" /\ jobs[j].lease = "over"

(* pgRecoverExpiredExecutionJobs, in the heartbeat tick of every worker:   *)
(* one transaction over the expired rows it could lock (SKIP LOCKED).      *)
RecoverExpired(S) ==
  LET again == {j \in S : CanRetry(jobs[j])}
  IN  /\ S # {} /\ \A j \in S : Expired(j)
      /\ jobs' = [j \in Job |->
                    CASE j \in again ->
                           [Released(jobs[j], "retrying") EXCEPT !.due = TRUE]
                      [] j \in S \ again -> Released(jobs[j], "uncertain")
                      [] OTHER -> jobs[j]]
      /\ InsertRows({DispatchKey(j, "lease-recovery", jobs[j].attempts) :
                       j \in again}, TRUE)
      /\ UNCHANGED <<handlers, dropped, history, brokerVars, inHand, faults>>

-----------------------------------------------------------------------------
Api(j) == Enqueue(j) \/ ManualRetry(j) \/ Cancel(j)
Clock(j) == BecomesDue(j) \/ LeaseRunsOut(j)
Delivery(k) == \/ \E w \in Worker : ClaimJob(w, k)
               \/ DuplicateMessage(k)
               \/ ClaimFails(k)
HandlerStep(h) == \/ Checkpoint(h) \/ HandlerThrows(h)
                  \/ Complete(h) \/ FailWrite(h) \/ MalformedFail(h)
Crash == \/ \E w \in Worker : WorkerCrash(w)
         \/ \E h \in handlers : FailWriteThrows(h)
         \/ /\ UNCHANGED jobVars
            /\ \E p \in Publisher : \/ PublisherCrash(p)
                                    \/ \E k \in rows : PublishFails(p, k)
Transport == /\ UNCHANGED jobVars
             /\ \/ \E p \in Publisher : PublisherStep(p)
                \/ \E k \in rows : Stall(k) \/ Forget(k)

Next ==
  \/ \E j \in Job : Api(j) \/ Clock(j)
  \/ \E k \in waiting : Delivery(k)
  \/ \E h \in handlers : Renew(h) \/ HandlerStep(h)
  \/ \E S \in SUBSET Job : RecoverExpired(S)
  \/ Crash
  \/ Transport

Spec == Init /\ [][Next]_vars

(* What the processes do keep doing: timers fire, the drain loop runs, the *)
(* broker delivers in order whenever a slot is free, a handler call ends,  *)
(* a lease nobody renews runs out, every tick recovers.                    *)
Abandoned(j) == ~ \E h \in handlers : h.job = j /\ Owned(h)
Fairness ==
  /\ \A j \in Job : /\ WF_vars(BecomesDue(j))
                    /\ WF_vars(Abandoned(j) /\ LeaseRunsOut(j))
                    /\ WF_vars(\E S \in SUBSET Job : j \in S /\ RecoverExpired(S))
                    /\ SF_vars(\E k \in waiting : /\ k.job = j
                                                 /\ \/ DuplicateMessage(k)
                                                    \/ \E w \in Worker : ClaimJob(w, k))
                    /\ WF_vars(\E h \in handlers : h.job = j /\ HandlerStep(h))
  /\ \A p \in Publisher : WF_vars(PublisherStep(p) /\ UNCHANGED jobVars)

FairSpec == Spec /\ Fairness

-----------------------------------------------------------------------------
(* Properties.                                                             *)

(* A job has a lease and an owner exactly while it is running: no path out *)
(* of running (receipt, failure, recovery, cancel) leaves one behind.      *)
OwnedIffRunning ==
  \A j \in Job : LET job == jobs[j]
                 IN  /\ (job.status = "running") <=> (job.owner # NoWorker)
                     /\ (job.status = "running") <=> (job.lease # "none")

(* max_attempts is a budget: no interleaving of claims, retries, lease     *)
(* recoveries and operator retries starts a job more often.                *)
AttemptsBounded == \A j \in Job : jobs[j].attempts <= jobs[j].max

(* A high-risk job is started once, whatever max_attempts says: after a    *)
(* failure or a lost lease its effect is in doubt and it must not be       *)
(* replayed.                                                               *)
HighRiskStartsOnce ==
  \A j \in Job : jobs[j].risk \in HighRisk => jobs[j].attempts <= 1

(* No job is forgotten: a job that waits to be claimed has a row of its    *)
(* current attempt that is still to be published, or a message still to be *)
(* delivered, unless that message was lost by a failing claim query.  The  *)
(* rows' ON CONFLICT DO NOTHING and BullMQ's id dedup are what could lose  *)
(* it: both are silent when a key was used before.                         *)
CoveredBy(j, k) == /\ k.job = j /\ k.attempt = jobs[j].attempts
                   /\ \/ k \notin published \cup seen
                      \/ k \in waiting
                      \/ k \in dropped
DispatchCovered ==
  \A j \in Job : jobs[j].status \in Claimable => \E k \in rows : CoveredBy(j, k)

(* A receipt is written by the worker whose lease it ends: that of the     *)
(* newest attempt.  A call of another worker, woken after its lease ran    *)
(* out and the job was claimed again, has no effect, for the job types     *)
(* whose completion names the worker.                                      *)
FencedBetweenWorkers ==
  \A j \in Job : (jobs[j].status = "succeeded" /\ jobs[j].kind # "unfenced")
    => LET claimants == history[j].claimants
       IN  claimants[history[j].receipt] = claimants[jobs[j].attempts]

(* The same of single calls: the receipt is that of the newest attempt.    *)
(* dispatcher.ts says so of the lease (a stale worker cannot resurrect a   *)
(* claim later owned by another consumer); lease_owner however does not    *)
(* tell two calls of one worker process apart.                             *)
AttemptFenced ==
  \A j \in Job : (jobs[j].status = "succeeded" /\ jobs[j].kind # "unfenced")
                    => history[j].receipt = jobs[j].attempts

(* Every accepted job ends, unless a claim query failed under it.          *)
EveryJobSettles ==
  \A j \in Job :
    (jobs[j].status \in Active)
      ~> (jobs[j].status \in Terminal \/ \E k \in dropped : k.job = j)

(* The ledger of module JobLedger, which every step implements.            *)
Ledger == INSTANCE JobLedger
  WITH ledger <- [j \in Job |-> [status |-> jobs[j].status,
                                 attempts |-> jobs[j].attempts,
                                 max |-> jobs[j].max, risk |-> jobs[j].risk]]
ImplementsLedger == Ledger!Spec
=============================================================================
