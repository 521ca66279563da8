------------------------ MODULE ExecutionJobsProofs ------------------------
(***************************************************************************)
(* Theorems of module ExecutionJobs, for every set of jobs, workers and    *)
(* publishers and every bound.                                             *)
(***************************************************************************)
EXTENDS ExecutionJobs, TLAPS

(***************************************************************************)
(* The type invariant: each action keeps it.                               *)
(***************************************************************************)
USE DEF Claimable, Active, Terminal, Status, Phase, HandlerKind, RiskLevel,
        HighRisk, RowKind, Steps

(* The row before its insertion has the type of a row.                     *)
LEMMA NoJobType == NoJob \in JobRecord
BY JobsAssumption DEF NoJob, JobRecord

(* A row whose lease is given back still is a row.                         *)
LEMMA ReleasedType ==
  ASSUME NEW job \in JobRecord, NEW status \in Status
  PROVE  Released(job, status) \in JobRecord
BY JobsAssumption DEF Released, JobRecord

(* The store builds keys of the right type.                                *)
LEMMA KeyType ==
  ASSUME NEW j \in Job, NEW kind \in RowKind, NEW n \in Nat
  PROVE  DispatchKey(j, kind, n) \in Key
BY DEF DispatchKey, Key

(* Inserting rows keeps the types of the outbox and the broker.            *)
LEMMA InsertRowsType ==
  ASSUME OutboxTypeOK, NEW keys \in SUBSET Key, NEW soon \in BOOLEAN,
         InsertRows(keys, soon),
         UNCHANGED <<brokerVars, inHand, faults>>
  PROVE  OutboxTypeOK'
BY DEF OutboxTypeOK, InsertRows, brokerVars

(* Enqueue, operator retry and cancel keep the types.                      *)
LEMMA ApiType ==
  ASSUME TypeOK, NEW j \in Job, Api(j)
  PROVE  TypeOK'
<1>1. CASE Enqueue(j)
  <2>1. PICK risk \in Risks, kind \in Kinds, max \in MaxAttempts, due \in BOOLEAN :
          /\ jobs' = [jobs EXCEPT ![j] =
                        [NoJob EXCEPT !.status = "queued", !.max = max,
                                      !.risk = risk, !.kind = kind, !.due = due]]
          /\ InsertRow(DispatchKey(j, "queued", 0), due)
    BY <1>1 DEF Enqueue
  <2>2. OutboxTypeOK'
    BY <1>1, <2>1, KeyType, InsertRowsType DEF Enqueue, InsertRow, TypeOK
  <2>3. jobs' \in [Job -> JobRecord]
    BY <2>1, NoJobType, JobsAssumption DEF TypeOK, JobRecord, NoJob
  <2> QED
    BY <1>1, <2>2, <2>3 DEF Enqueue, TypeOK, Handler
<1>2. CASE ManualRetry(j)
  <2>1. DispatchKey(j, "manual-retry", jobs[j].attempts) \in Key
    BY KeyType DEF TypeOK, JobRecord
  <2>2. OutboxTypeOK'
    BY <1>2, <2>1, InsertRowsType DEF ManualRetry, InsertRow, TypeOK
  <2>3. jobs' \in [Job -> JobRecord]
    <3> DEFINE n == jobs[j].attempts
               max == IF jobs[j].max <= n THEN n + 1 ELSE jobs[j].max
               new == [Released(jobs[j], "queued") EXCEPT !.max = max, !.due = TRUE]
    <3>1. jobs[j] \in JobRecord
      BY DEF TypeOK
    <3>2. max \in Nat \ {0}
      BY <3>1 DEF JobRecord
    <3>3. Released(jobs[j], "queued") \in JobRecord
      BY <3>1, ReleasedType
    <3>4. new \in JobRecord
      BY <3>2, <3>3 DEF JobRecord
    <3>5. jobs' = [jobs EXCEPT ![j] = new]
      BY <1>2 DEF ManualRetry
    <3> HIDE DEF new
    <3> QED
      BY <3>4, <3>5 DEF TypeOK
  <2> QED
    BY <1>2, <2>2, <2>3 DEF ManualRetry, TypeOK
<1>3. CASE Cancel(j)
  BY <1>3, ReleasedType DEF Cancel, TypeOK, deliveryVars, outboxVars, brokerVars, OutboxTypeOK
<1> QED
  BY <1>1, <1>2, <1>3 DEF Api

(* The passing of time keeps the types.                                    *)
LEMMA ClockType ==
  ASSUME TypeOK, NEW j \in Job, Clock(j)
  PROVE  TypeOK'
<1> DEFINE dueRow == [jobs[j] EXCEPT !.due = TRUE]
           overRow == [jobs[j] EXCEPT !.lease = "over"]
<1>1. CASE BecomesDue(j)
  <2>1. dueRow \in JobRecord
    <3>1. jobs[j] \in JobRecord
      BY DEF TypeOK
    <3> QED
      BY <3>1 DEF JobRecord
  <2>2. jobs' = [jobs EXCEPT ![j] = dueRow]
    BY <1>1 DEF BecomesDue
  <2>3. OutboxTypeOK'
    BY <1>1 DEF BecomesDue, RowsBecomeReady, TypeOK, OutboxTypeOK, brokerVars
  <2> HIDE DEF dueRow
  <2>4. jobs' \in [Job -> JobRecord]
    BY <2>1, <2>2 DEF TypeOK
  <2> QED
    BY <1>1, <2>3, <2>4 DEF BecomesDue, TypeOK
<1>2. CASE LeaseRunsOut(j)
  <2>1. overRow \in JobRecord
    BY DEF TypeOK, JobRecord
  <2>2. jobs' = [jobs EXCEPT ![j] = overRow]
    BY <1>2 DEF LeaseRunsOut
  <2>3. OutboxTypeOK'
    BY <1>2 DEF LeaseRunsOut, TypeOK, OutboxTypeOK, deliveryVars, outboxVars, brokerVars
  <2> HIDE DEF overRow
  <2>4. jobs' \in [Job -> JobRecord]
    BY <2>1, <2>2 DEF TypeOK
  <2> QED
    BY <1>2, <2>3, <2>4 DEF LeaseRunsOut, TypeOK
<1> QED
  BY <1>1, <1>2 DEF Clock

(* One more claim of a job is still a history.                             *)
LEMMA ClaimHistoryType ==
  ASSUME NEW old \in ClaimHistory, NEW w \in Worker
  PROVE  [old EXCEPT !.claimants = Append(@, w)] \in ClaimHistory
<1>1. Append(old.claimants, w) \in Seq(Worker)
  BY DEF ClaimHistory
<1> QED
  BY <1>1 DEF ClaimHistory

(* Delivering a message, whatever its claim does, keeps the types.         *)
LEMMA DeliveryType ==
  ASSUME TypeOK, NEW k \in waiting, Delivery(k)
  PROVE  TypeOK'
<1>1. k \in Key /\ k.job \in Job
  BY DEF TypeOK, OutboxTypeOK, Key
<1>2. ASSUME NEW w \in Worker, ClaimJob(w, k)
      PROVE  TypeOK'
  <2> DEFINE n == jobs[k.job].attempts + 1
             h == [job |-> k.job, worker |-> w, attempt |-> n, msg |-> k,
                   phase |-> "working"]
  <2>1. n \in Nat
    BY <1>1 DEF TypeOK, JobRecord
  <2>2. h \in Handler
    BY <1>1, <2>1 DEF Handler
  <2>3. handlers' = handlers \cup {h}
    BY <1>2 DEF ClaimJob
  <2>4. jobs' \in [Job -> JobRecord]
    <3> DEFINE row == [jobs[k.job] EXCEPT !.status = "running", !.attempts = n,
                                          !.owner = w, !.lease = "held"]
    <3>1. jobs[k.job] \in JobRecord
      BY <1>1 DEF TypeOK
    <3> HIDE DEF n
    <3>2. row \in JobRecord
      BY <2>1, <3>1 DEF JobRecord
    <3> USE DEF n
    <3>3. jobs' = [jobs EXCEPT ![k.job] = row]
      BY <1>2 DEF ClaimJob
    <3> HIDE DEF row
    <3> QED
      BY <3>2, <3>3 DEF TypeOK
  <2>5. OutboxTypeOK'
    BY <1>2 DEF ClaimJob, Activate, TypeOK, OutboxTypeOK, outboxVars
  <2> DEFINE claims == [history[k.job] EXCEPT !.claimants = Append(@, w)]
  <2>6. claims \in ClaimHistory
    BY <1>1, ClaimHistoryType DEF TypeOK
  <2>7. history' = [history EXCEPT ![k.job] = claims]
    BY <1>2, Zenon DEF ClaimJob
  <2> HIDE DEF h, claims
  <2>8. history' \in [Job -> ClaimHistory]
    BY <2>6, <2>7 DEF TypeOK
  <2> QED
    BY <1>2, <2>2, <2>3, <2>4, <2>5, <2>8 DEF ClaimJob, TypeOK
<1>3. CASE DuplicateMessage(k)
  BY <1>3 DEF DuplicateMessage, Consume, TypeOK, OutboxTypeOK, jobVars, outboxVars
<1>4. CASE ClaimFails(k)
  BY <1>1, <1>4, OutboxAssumption
     DEF ClaimFails, Fault, Consume, TypeOK, OutboxTypeOK, outboxVars
<1> QED
  BY <1>2, <1>3, <1>4 DEF Delivery

(* A step inside a handler call keeps the types.                           *)
LEMMA SetPhaseType ==
  ASSUME TypeOK, NEW h \in handlers, NEW phase \in Phase, SetPhase(h, phase)
  PROVE  TypeOK'
<1>1. [h EXCEPT !.phase = phase] \in Handler
  BY DEF TypeOK, Handler
<1> QED
  BY <1>1 DEF SetPhase, TypeOK, OutboxTypeOK, deliveryVars, outboxVars, brokerVars

(* pgFailExecutionJob writes a row and a key of the right types.           *)
LEMMA WriteFailureType ==
  ASSUME TypeOK, NEW j \in Job, NEW notDispatched \in BOOLEAN,
         WriteFailure(j, notDispatched), UNCHANGED <<inHand, faults, waiting, seen>>,
         active' \subseteq active
  PROVE  OutboxTypeOK' /\ jobs' \in [Job -> JobRecord]
<1> DEFINE status == FailedStatus(jobs[j], notDispatched)
           again == status = "retrying"
           new == [Released(jobs[j], status) EXCEPT !.due = ~ again]
<1>1. jobs[j] \in JobRecord
  BY DEF TypeOK
<1>2. status \in Status
  BY <1>1 DEF FailedStatus
<1>3. new \in JobRecord
  <2>1. Released(jobs[j], status) \in JobRecord
    BY <1>1, <1>2, ReleasedType
  <2> HIDE DEF status
  <2> QED
    BY <2>1 DEF JobRecord
<1>4. jobs' = [jobs EXCEPT ![j] = new]
  BY DEF WriteFailure
<1>5. jobs' \in [Job -> JobRecord]
  <2> HIDE DEF new
  <2> QED BY <1>3, <1>4 DEF TypeOK
<1>6. DispatchKey(j, "retry", jobs[j].attempts) \in Key
  BY <1>1, KeyType DEF JobRecord
<1>7. \/ InsertRow(DispatchKey(j, "retry", jobs[j].attempts), FALSE)
      \/ UNCHANGED outboxVars
  BY DEF WriteFailure
<1>8. OutboxTypeOK'
  BY <1>6, <1>7 DEF InsertRow, InsertRows, TypeOK, OutboxTypeOK, outboxVars
<1> QED
  BY <1>5, <1>8

(* Renewal and every step of a handler call keep the types.                *)
LEMMA HandlerType ==
  ASSUME TypeOK, NEW h \in handlers, Renew(h) \/ HandlerStep(h)
  PROVE  TypeOK'
<1>1. /\ h \in Handler /\ h.job \in Job /\ h.attempt \in Nat
      /\ jobs[h.job] \in JobRecord
  BY DEF TypeOK, Handler
<1>2. CASE Renew(h)
  BY <1>1, <1>2 DEF Renew, TypeOK, OutboxTypeOK, JobRecord, deliveryVars, outboxVars,
                    brokerVars
<1>3. CASE Checkpoint(h)
  BY <1>3, SetPhaseType DEF Checkpoint
<1>4. CASE HandlerThrows(h)
  BY <1>4, SetPhaseType DEF HandlerThrows
<1>5. CASE Complete(h)
  <2>1. Released(jobs[h.job], "succeeded") \in JobRecord
    BY <1>1, ReleasedType
  <2>2. jobs' \in [Job -> JobRecord]
    BY <1>1, <1>5, <2>1 DEF Complete, TypeOK
  <2> DEFINE wrote == [history[h.job] EXCEPT !.receipt = h.attempt]
  <2>4. wrote \in ClaimHistory
    BY <1>1 DEF ClaimHistory, TypeOK
  <2>5. \/ history' = [history EXCEPT ![h.job] = wrote]
        \/ history' = history
    BY <1>5 DEF Complete
  <2> HIDE DEF wrote
  <2>6. history' \in [Job -> ClaimHistory]
    BY <1>1, <2>4, <2>5 DEF TypeOK
  <2>3. OutboxTypeOK'
    BY <1>5 DEF Complete, Return, Settle, TypeOK, OutboxTypeOK, outboxVars
  <2> QED
    BY <1>5, <2>2, <2>3, <2>6 DEF Complete, Return, TypeOK
<1>6. CASE FailWrite(h) \/ MalformedFail(h)
  <2>1. /\ handlers' = handlers \ {h} /\ Settle(h.msg)
        /\ UNCHANGED <<dropped, history, inHand, faults>>
    BY <1>6 DEF FailWrite, MalformedFail
  <2>2. \/ \E notDispatched \in BOOLEAN : WriteFailure(h.job, notDispatched)
        \/ UNCHANGED <<jobs, outboxVars>>
    BY <1>6 DEF FailWrite, MalformedFail
  <2>3. CASE UNCHANGED <<jobs, outboxVars>>
    BY <2>1, <2>3 DEF Settle, TypeOK, OutboxTypeOK, outboxVars
  <2>4. ASSUME NEW notDispatched \in BOOLEAN, WriteFailure(h.job, notDispatched)
        PROVE  TypeOK'
    <3>1. UNCHANGED <<inHand, faults, waiting, seen>> /\ active' \subseteq active
      BY <2>1 DEF Settle
    <3>2. OutboxTypeOK' /\ jobs' \in [Job -> JobRecord]
      BY <1>1, <2>4, <3>1, WriteFailureType
    <3> QED
      BY <2>1, <3>2 DEF TypeOK
  <2> QED
    BY <2>2, <2>3, <2>4
<1> QED
  BY <1>2, <1>3, <1>4, <1>5, <1>6 DEF HandlerStep

(* The lease recovery keeps the types.                                     *)
LEMMA RecoveryType ==
  ASSUME TypeOK, NEW S \in SUBSET Job, RecoverExpired(S)
  PROVE  TypeOK'
<1> DEFINE again == {j \in S : CanRetry(jobs[j])}
           keys == {DispatchKey(j, "lease-recovery", jobs[j].attempts) : j \in again}
           new(j) == CASE j \in again ->
                            [Released(jobs[j], "retrying") EXCEPT !.due = TRUE]
                       [] j \in S \ again -> Released(jobs[j], "uncertain")
                       [] OTHER -> jobs[j]
<1>1. jobs' = [j \in Job |-> new(j)] /\ InsertRows(keys, TRUE)
  BY DEF RecoverExpired
<1>2. ASSUME NEW j \in Job
      PROVE  new(j) \in JobRecord
  <2>1. jobs[j] \in JobRecord
    BY DEF TypeOK
  <2>2. /\ Released(jobs[j], "retrying") \in JobRecord
        /\ Released(jobs[j], "uncertain") \in JobRecord
    BY <2>1, ReleasedType
  <2>3. [Released(jobs[j], "retrying") EXCEPT !.due = TRUE] \in JobRecord
    BY <2>2 DEF JobRecord
  <2> QED
    BY <2>1, <2>2, <2>3
<1>3. keys \in SUBSET Key
  BY KeyType DEF TypeOK, JobRecord
<1>4. OutboxTypeOK'
  BY <1>1, <1>3, InsertRowsType DEF RecoverExpired, TypeOK
<1> HIDE DEF new
<1> QED
  BY <1>1, <1>2, <1>4 DEF RecoverExpired, TypeOK

(* Crashes and failing statements keep the types.                          *)
LEMMA CrashType ==
  ASSUME TypeOK, Crash
  PROVE  TypeOK'
<1>1. ASSUME NEW w \in Worker, WorkerCrash(w)
      PROVE  TypeOK'
  BY <1>1, OutboxAssumption
     DEF WorkerCrash, Fault, TypeOK, OutboxTypeOK, outboxVars, brokerVars
<1>2. ASSUME NEW h \in handlers, FailWriteThrows(h)
      PROVE  TypeOK'
  BY <1>2, OutboxAssumption
     DEF FailWriteThrows, Fault, Return, Settle, TypeOK, OutboxTypeOK, outboxVars
<1>3. ASSUME UNCHANGED jobVars, NEW p \in Publisher, PublisherCrash(p)
      PROVE  TypeOK'
  BY <1>3, OutboxAssumption
     DEF PublisherCrash, Fault, jobVars, TypeOK, OutboxTypeOK, outboxVars, brokerVars
<1>4. ASSUME UNCHANGED jobVars, NEW p \in Publisher, NEW k \in rows,
             PublishFails(p, k)
      PROVE  TypeOK'
  BY <1>4, OutboxAssumption
     DEF PublishFails, Fault, jobVars, TypeOK, OutboxTypeOK
<1> QED
  BY <1>1, <1>2, <1>3, <1>4 DEF Crash

(* Publishers and broker keep the types.                                   *)
LEMMA TransportType ==
  ASSUME TypeOK, Transport
  PROVE  TypeOK'
<1>1. jobVars' = jobVars
  BY DEF Transport
<1>2. ASSUME NEW p \in Publisher, NEW k \in rows, ClaimOutboxRow(p, k)
      PROVE  TypeOK'
  BY <1>1, <1>2 DEF ClaimOutboxRow, jobVars, TypeOK, OutboxTypeOK, brokerVars
<1>3. ASSUME NEW p \in Publisher, NEW k \in rows, QueueAdd(p, k)
      PROVE  TypeOK'
  BY <1>1, <1>3 DEF QueueAdd, jobVars, TypeOK, OutboxTypeOK, outboxVars
<1>4. ASSUME NEW p \in Publisher, NEW k \in rows, MarkPublished(p, k)
      PROVE  TypeOK'
  BY <1>1, <1>4 DEF MarkPublished, jobVars, TypeOK, OutboxTypeOK, brokerVars
<1>5. ASSUME NEW k \in rows, Stall(k)
      PROVE  TypeOK'
  BY <1>1, <1>5 DEF Stall, jobVars, TypeOK, OutboxTypeOK, outboxVars
<1>6. ASSUME NEW k \in rows, Forget(k)
      PROVE  TypeOK'
  BY <1>1, <1>6, OutboxAssumption
     DEF Forget, Fault, jobVars, TypeOK, OutboxTypeOK, outboxVars
<1> QED
  BY <1>2, <1>3, <1>4, <1>5, <1>6 DEF Transport, PublisherStep

(* Types are kept by every step of the ledger, the outbox and the broker.  *)
THEOREM TypeCorrect == Spec => []TypeOK
<1>1. Init => TypeOK
  BY NoJobType, OutboxAssumption DEF Init, OutboxInit, TypeOK, OutboxTypeOK,
                                     ClaimHistory
<1>2. TypeOK /\ [Next]_vars => TypeOK'
  <2> SUFFICES ASSUME TypeOK, [Next]_vars
               PROVE  TypeOK'
    OBVIOUS
  <2>1. CASE UNCHANGED vars
    BY <2>1 DEF vars, jobVars, deliveryVars, outboxVars, brokerVars, TypeOK, OutboxTypeOK
  <2>2. CASE Next
    BY <2>2, ApiType, ClockType, DeliveryType, HandlerType, RecoveryType, CrashType,
       TransportType DEF Next
  <2> QED
    BY <2>1, <2>2
<1> QED
  BY <1>1, <1>2, PTL DEF Spec

-----------------------------------------------------------------------------
(***************************************************************************)
(* The rows of execution_jobs.  JobOK strengthens the three invariants of  *)
(* the run JobsSafety: a job that waits still has an attempt, and a        *)
(* high-risk job that waits has had none.                                  *)
(***************************************************************************)
JobOK(job) ==
  /\ (job.status = "running") <=> (job.owner # NoWorker)
  /\ (job.status = "running") <=> (job.lease # "none")
  /\ job.attempts <= job.max
  /\ job.status \in Claimable => job.attempts < job.max
  /\ job.risk \in HighRisk => /\ job.attempts <= 1
                              /\ job.status # "retrying"
                              /\ job.status \in {"absent", "queued"} => job.attempts = 0

JobsOK == \A j \in Job : JobOK(jobs[j])

(* What a reader of the ledger sees of a row, and what a step may do to    *)
(* one row: keep it sound, and move its view as the ledger says.           *)
View(job) == [status |-> job.status, attempts |-> job.attempts,
              max |-> job.max, risk |-> job.risk]
Transition(old, new) ==
  /\ JobOK(new)
  /\ View(new) = View(old) \/ Ledger!Move(View(old), View(new))

(* What giving back the lease changes of a row, and what not.              *)
LEMMA ReleasedFields ==
  ASSUME NEW job \in JobRecord, NEW status \in Status
  PROVE  LET new == Released(job, status)
         IN  /\ new \in JobRecord
             /\ new.status = status /\ new.owner = NoWorker /\ new.lease = "none"
             /\ new.attempts = job.attempts /\ new.max = job.max
             /\ new.risk = job.risk /\ new.due = job.due
<1>1. Released(job, status) \in JobRecord
  BY ReleasedType
<1>2. Released(job, status).status = status
  BY DEF Released, JobRecord
<1>3. /\ Released(job, status).owner = NoWorker
      /\ Released(job, status).lease = "none"
  BY DEF Released, JobRecord
<1>4. /\ Released(job, status).attempts = job.attempts
      /\ Released(job, status).max = job.max
  BY DEF Released, JobRecord
<1>5. /\ Released(job, status).risk = job.risk
      /\ Released(job, status).due = job.due
  BY DEF Released, JobRecord
<1> QED
  BY <1>1, <1>2, <1>3, <1>4, <1>5

(* Leaving running, by a receipt, a failure or a lost lease.               *)
LEMMA LeaveRunning ==
  ASSUME NEW job \in JobRecord, JobOK(job), job.status = "running",
         NEW status \in {"succeeded", "failed", "retrying", "uncertain"},
         status = "retrying" => CanRetry(job),
         status = "uncertain" => ~ CanRetry(job),
         NEW due \in BOOLEAN
  PROVE  /\ Transition(job, Released(job, status))
         /\ Transition(job, [Released(job, status) EXCEPT !.due = due])
<1> DEFINE rel == Released(job, status)
           new == [rel EXCEPT !.due = due]
<1>1. /\ rel \in JobRecord
      /\ rel.status = status /\ rel.owner = NoWorker /\ rel.lease = "none"
      /\ rel.attempts = job.attempts /\ rel.max = job.max /\ rel.risk = job.risk
  BY ReleasedFields
<1>2. /\ new \in JobRecord
      /\ new.status = status /\ new.owner = NoWorker /\ new.lease = "none"
      /\ new.attempts = job.attempts /\ new.max = job.max /\ new.risk = job.risk
  <2> HIDE DEF rel
  <2> QED BY <1>1 DEF JobRecord
<1>3. ASSUME NEW r \in JobRecord,
             r.status = status, r.owner = NoWorker, r.lease = "none",
             r.attempts = job.attempts, r.max = job.max, r.risk = job.risk
      PROVE  Transition(job, r)
  <2>1. JobOK(r)
    BY <1>3 DEF JobOK, CanRetry, JobRecord
  <2>2. View(r) = [View(job) EXCEPT !.status = status]
    BY <1>3 DEF View
  <2>3. /\ View(job).status = "running" /\ View(job).attempts = job.attempts
        /\ View(job).max = job.max /\ View(job).risk = job.risk
    BY DEF View
  <2>4. Ledger!Move(View(job), View(r))
    <3> HIDE DEF View
    <3> QED
      BY <2>2, <2>3 DEF Ledger!Move, Ledger!Succeed, Ledger!GiveUp, Ledger!TryAgain,
                        Ledger!Doubt, Ledger!Replayable, CanRetry, JobRecord
  <2> QED
    BY <2>1, <2>4 DEF Transition
<1>4. Transition(job, rel)
  <2> HIDE DEF rel
  <2> QED BY <1>1, <1>3
<1>5. Transition(job, new)
  <2> HIDE DEF new
  <2> QED BY <1>2, <1>3
<1> QED
  BY <1>4, <1>5

(* Start: a waiting job is claimed.                                        *)
LEMMA StartTransition ==
  ASSUME NEW job \in JobRecord, JobOK(job), job.status \in Claimable,
         NEW w \in Worker, NEW new \in JobRecord,
         new.status = "running", new.attempts = job.attempts + 1,
         new.owner = w, new.lease = "held", new.max = job.max,
         new.risk = job.risk
  PROVE  Transition(job, new)
<1>1. JobOK(new)
  BY JobsAssumption DEF JobOK, JobRecord
<1>2. View(new) = [status |-> "running", attempts |-> job.attempts + 1,
                   max |-> job.max, risk |-> job.risk]
  BY DEF View
<1>3. View(job) = [status |-> job.status, attempts |-> job.attempts,
                   max |-> job.max, risk |-> job.risk]
  BY DEF View
<1>4. PICK old : old = View(job)
  OBVIOUS
<1>5. View(new) = [old EXCEPT !.status = "running", !.attempts = @ + 1]
  <2>1. [old EXCEPT !.status = "running"]
          = [status |-> "running", attempts |-> job.attempts,
             max |-> job.max, risk |-> job.risk]
    BY <1>3, <1>4
  <2>2. [[status |-> "running", attempts |-> job.attempts,
          max |-> job.max, risk |-> job.risk] EXCEPT !.attempts = job.attempts + 1]
          = View(new)
    BY <1>2
  <2>3. old.attempts = job.attempts
    BY <1>3, <1>4
  <2>4. [old EXCEPT !.status = "running", !.attempts = @ + 1]
          = [[old EXCEPT !.status = "running"] EXCEPT !.attempts = old.attempts + 1]
    BY Zenon
  <2> QED
    BY <2>1, <2>2, <2>3, <2>4, Zenon
<1>6. old.status \in {"queued", "retrying"} /\ old.attempts < old.max
  BY <1>3, <1>4 DEF JobOK
<1>7. Ledger!Start(old, View(new))
  BY <1>5, <1>6, Zenon DEF Ledger!Start
<1> QED
  BY <1>1, <1>4, <1>7 DEF Transition, Ledger!Move

(* A step that changes only the date, the lease or nothing of a row.       *)
LEMMA SameTransition ==
  ASSUME NEW job \in JobRecord, JobOK(job), NEW new \in JobRecord,
         new.status = job.status, new.attempts = job.attempts,
         new.max = job.max, new.risk = job.risk, new.owner = job.owner,
         (new.lease = "none") <=> (job.lease = "none")
  PROVE  Transition(job, new)
<1>1. JobOK(new)
  BY DEF JobOK
<1>2. View(new) = View(job)
  BY DEF View
<1> QED
  BY <1>1, <1>2 DEF Transition

(* Insertion is an Accept of the ledger.                                   *)
LEMMA EnqueueTransition ==
  ASSUME NEW job \in JobRecord, job.status = "absent",
         NEW risk \in RiskLevel, NEW kind \in HandlerKind,
         NEW max \in Nat \ {0}, NEW due \in BOOLEAN
  PROVE  Transition(job, [NoJob EXCEPT !.status = "queued", !.max = max,
                                       !.risk = risk, !.kind = kind, !.due = due])
<1> DEFINE new == [NoJob EXCEPT !.status = "queued", !.max = max,
                                !.risk = risk, !.kind = kind, !.due = due]
<1>1. /\ new.status = "queued" /\ new.attempts = 0 /\ new.owner = NoWorker
      /\ new.lease = "none" /\ new.max = max /\ new.risk = risk
  BY DEF NoJob
<1> HIDE DEF new
<1>2. JobOK(new)
  BY <1>1 DEF JobOK
<1>3. Ledger!Accept(View(job), View(new))
  BY <1>1 DEF View, Ledger!Accept
<1>4. Transition(job, new)
  BY <1>2, <1>3 DEF Transition, Ledger!Move
<1> QED
  BY <1>4 DEF new

(* Cancelling a low-risk job is a Withdraw of the ledger.                  *)
LEMMA CancelTransition ==
  ASSUME NEW job \in JobRecord, job.status \in Active, job.risk = "low", JobOK(job)
  PROVE  Transition(job, Released(job, "cancelled"))
<1> DEFINE new == Released(job, "cancelled")
<1>1. /\ new \in JobRecord
      /\ new.status = "cancelled" /\ new.owner = NoWorker /\ new.lease = "none"
      /\ new.attempts = job.attempts /\ new.max = job.max /\ new.risk = job.risk
  BY ReleasedFields
<1> HIDE DEF new
<1>2. JobOK(new)
  BY <1>1 DEF JobOK
<1>3. View(new) = [View(job) EXCEPT !.status = "cancelled"]
  BY <1>1 DEF View
<1>4. View(job).status = job.status /\ View(job).risk = job.risk
  BY DEF View
<1>5. Ledger!Withdraw(View(job), View(new))
  <2> HIDE DEF View
  <2> QED BY <1>3, <1>4 DEF Ledger!Withdraw
<1>6. Transition(job, new)
  BY <1>2, <1>5 DEF Transition, Ledger!Move
<1> QED
  BY <1>6 DEF new

(* The operator's retry is a Reopen of the ledger.                         *)
LEMMA RetryTransition ==
  ASSUME NEW job \in JobRecord, job.status = "failed", job.risk = "low", JobOK(job),
         NEW max \in Nat \ {0},
         max = IF job.max <= job.attempts THEN job.attempts + 1 ELSE job.max
  PROVE  Transition(job, [Released(job, "queued") EXCEPT !.max = max, !.due = TRUE])
<1> DEFINE rel == Released(job, "queued")
           new == [rel EXCEPT !.max = max, !.due = TRUE]
<1>1. /\ rel \in JobRecord
      /\ rel.status = "queued" /\ rel.owner = NoWorker /\ rel.lease = "none"
      /\ rel.attempts = job.attempts /\ rel.risk = job.risk
  BY ReleasedFields
<1>2. /\ new \in JobRecord
      /\ new.status = "queued" /\ new.owner = NoWorker /\ new.lease = "none"
      /\ new.attempts = job.attempts /\ new.max = max /\ new.risk = job.risk
  <2> HIDE DEF rel
  <2> QED BY <1>1 DEF JobRecord
<1> HIDE DEF new
<1>3. job.attempts \in Nat /\ job.max \in Nat /\ job.attempts <= job.max
  BY DEF JobRecord, JobOK
<1>4. max > job.attempts /\ max \in {job.max, job.attempts + 1}
  BY <1>3
<1>5. JobOK(new)
  BY <1>2, <1>3, <1>4 DEF JobOK
<1>6. Ledger!Reopen(View(job), View(new))
  BY <1>2, <1>3, <1>4 DEF View, Ledger!Reopen
<1>7. Transition(job, new)
  BY <1>5, <1>6 DEF Transition, Ledger!Move
<1> QED
  BY <1>7 DEF new

-----------------------------------------------------------------------------
(* Every step moves every row by a Transition.                             *)
Transitions == \A i \in Job : Transition(jobs[i], jobs'[i])

(* A row that does not change is a stutter.                                *)
LEMMA StutterTransition ==
  ASSUME NEW job \in JobRecord, JobOK(job)
  PROVE  Transition(job, job)
BY SameTransition

(* One row moves, the others stay.                                         *)
LEMMA OneRow ==
  ASSUME TypeOK, JobsOK, NEW j \in Job, NEW new,
         Transition(jobs[j], new), jobs' = [jobs EXCEPT ![j] = new]
  PROVE  Transitions
BY StutterTransition DEF TypeOK, JobsOK, Transitions

(* A step that writes no row of execution_jobs is a stutter for all.       *)
LEMMA NoRow ==
  ASSUME TypeOK, JobsOK, jobs' = jobs
  PROVE  Transitions
BY StutterTransition DEF TypeOK, JobsOK, Transitions

(* Enqueue, operator retry and cancel move one row as the ledger says.     *)
LEMMA ApiTransitions ==
  ASSUME TypeOK, JobsOK, NEW j \in Job, Api(j)
  PROVE  Transitions
<1>1. jobs[j] \in JobRecord /\ JobOK(jobs[j])
  BY DEF TypeOK, JobsOK
<1>2. CASE Enqueue(j)
  <2>1. PICK risk \in RiskLevel, kind \in HandlerKind,
             max \in Nat \ {0}, due \in BOOLEAN :
          jobs' = [jobs EXCEPT ![j] =
                     [NoJob EXCEPT !.status = "queued", !.max = max,
                                   !.risk = risk, !.kind = kind, !.due = due]]
    <3>1. PICK risk \in Risks, kind \in Kinds, max \in MaxAttempts, due \in BOOLEAN :
            jobs' = [jobs EXCEPT ![j] =
                       [NoJob EXCEPT !.status = "queued", !.max = max,
                                     !.risk = risk, !.kind = kind, !.due = due]]
      BY <1>2 DEF Enqueue
    <3>2. risk \in RiskLevel /\ kind \in HandlerKind /\ max \in Nat \ {0}
      BY JobsAssumption
    <3> QED
      BY <3>1, <3>2
  <2>2. jobs[j].status = "absent"
    BY <1>2 DEF Enqueue
  <2> DEFINE new == [NoJob EXCEPT !.status = "queued", !.max = max,
                                  !.risk = risk, !.kind = kind, !.due = due]
  <2>3. Transition(jobs[j], new)
    BY <1>1, <2>2, EnqueueTransition
  <2> HIDE DEF new
  <2> QED
    BY <2>1, <2>3, OneRow DEF new
<1>3. CASE ManualRetry(j)
  <2> DEFINE n == jobs[j].attempts
             max == IF jobs[j].max <= n THEN n + 1 ELSE jobs[j].max
  <2>1. max \in Nat \ {0}
    BY <1>1 DEF JobRecord
  <2>2. jobs' = [jobs EXCEPT ![j] =
                   [Released(jobs[j], "queued") EXCEPT !.max = max, !.due = TRUE]]
    BY <1>3 DEF ManualRetry
  <2>3. jobs[j].status = "failed" /\ jobs[j].risk = "low"
    BY <1>3 DEF ManualRetry
  <2> QED
    BY <1>1, <2>1, <2>2, <2>3, RetryTransition, OneRow
<1>4. CASE Cancel(j)
  BY <1>1, <1>4, CancelTransition, OneRow DEF Cancel
<1> QED
  BY <1>2, <1>3, <1>4 DEF Api

(* The passing of time is a stutter of the ledger.                         *)
LEMMA ClockTransitions ==
  ASSUME TypeOK, JobsOK, NEW j \in Job, Clock(j)
  PROVE  Transitions
<1>1. jobs[j] \in JobRecord /\ JobOK(jobs[j])
  BY DEF TypeOK, JobsOK
<1>2. CASE BecomesDue(j)
  <2> DEFINE new == [jobs[j] EXCEPT !.due = TRUE]
  <2>1. /\ new \in JobRecord
        /\ new.status = jobs[j].status /\ new.attempts = jobs[j].attempts
        /\ new.max = jobs[j].max /\ new.risk = jobs[j].risk
        /\ new.owner = jobs[j].owner /\ new.lease = jobs[j].lease
    BY <1>1 DEF JobRecord
  <2>2. jobs' = [jobs EXCEPT ![j] = new]
    BY <1>2 DEF BecomesDue
  <2>3. Transition(jobs[j], new)
    <3> HIDE DEF new
    <3> QED BY <1>1, <2>1, <2>2, SameTransition
  <2> QED
    BY <2>2, <2>3, OneRow
<1>3. CASE LeaseRunsOut(j)
  <2> DEFINE new == [jobs[j] EXCEPT !.lease = "over"]
  <2>1. /\ new \in JobRecord
        /\ new.status = jobs[j].status /\ new.attempts = jobs[j].attempts
        /\ new.max = jobs[j].max /\ new.risk = jobs[j].risk
        /\ new.owner = jobs[j].owner /\ new.lease = "over"
    BY <1>1 DEF JobRecord
  <2>2. jobs[j].lease = "held" /\ jobs' = [jobs EXCEPT ![j] = new]
    BY <1>3 DEF LeaseRunsOut
  <2>3. Transition(jobs[j], new)
    <3> HIDE DEF new
    <3> QED BY <1>1, <2>1, <2>2, SameTransition
  <2> QED
    BY <2>2, <2>3, OneRow
<1> QED
  BY <1>2, <1>3 DEF Clock

(* A delivery starts a waiting job, or moves none.                         *)
LEMMA DeliveryTransitions ==
  ASSUME TypeOK, JobsOK, NEW k \in waiting, Delivery(k)
  PROVE  Transitions
<1>1. k.job \in Job
  BY DEF TypeOK, OutboxTypeOK, Key
<1>2. jobs[k.job] \in JobRecord /\ JobOK(jobs[k.job])
  BY <1>1 DEF TypeOK, JobsOK
<1>3. ASSUME NEW w \in Worker, ClaimJob(w, k)
      PROVE  Transitions
  <2> DEFINE new == jobs'[k.job]
  <2>1. new \in JobRecord
    BY <1>1, DeliveryType DEF TypeOK
  <2>2. /\ new.status = "running" /\ new.attempts = jobs[k.job].attempts + 1
        /\ new.owner = w /\ new.lease = "held" /\ new.max = jobs[k.job].max
        /\ new.risk = jobs[k.job].risk
    BY <1>1, <1>2, <1>3 DEF ClaimJob, TypeOK, JobRecord
  <2>3. jobs[k.job].status \in Claimable
    BY <1>3 DEF ClaimJob, Delivers
  <2>4. Transition(jobs[k.job], new)
    BY <1>2, <2>1, <2>2, <2>3, StartTransition
  <2>5. \A i \in Job \ {k.job} : jobs'[i] = jobs[i]
    BY <1>1, <1>3 DEF ClaimJob, TypeOK
  <2> QED
    BY <2>4, <2>5, StutterTransition DEF TypeOK, JobsOK, Transitions
<1>4. CASE DuplicateMessage(k) \/ ClaimFails(k)
  BY <1>4, NoRow DEF DuplicateMessage, ClaimFails, jobVars
<1> QED
  BY <1>3, <1>4 DEF Delivery

(* pgFailExecutionJob moves a running row as the ledger says.              *)
LEMMA WriteFailureTransitions ==
  ASSUME TypeOK, JobsOK, NEW j \in Job, NEW notDispatched \in BOOLEAN,
         jobs[j].status = "running", WriteFailure(j, notDispatched)
  PROVE  Transitions
<1> DEFINE status == FailedStatus(jobs[j], notDispatched)
           due == ~ (status = "retrying")
<1>1. jobs[j] \in JobRecord /\ JobOK(jobs[j])
  BY DEF TypeOK, JobsOK
<1>2. /\ status \in {"succeeded", "failed", "retrying", "uncertain"}
      /\ status = "retrying" => CanRetry(jobs[j])
      /\ status = "uncertain" => ~ CanRetry(jobs[j])
  BY DEF FailedStatus, CanRetry
<1>3. jobs' = [jobs EXCEPT ![j] = [Released(jobs[j], status) EXCEPT !.due = due]]
  BY DEF WriteFailure
<1>4. due \in BOOLEAN
  OBVIOUS
<1> HIDE DEF status, due
<1> QED
  BY <1>1, <1>2, <1>3, <1>4, LeaveRunning, OneRow

(* Every step of a handler call moves its row as the ledger says.          *)
LEMMA HandlerTransitions ==
  ASSUME TypeOK, JobsOK, NEW h \in handlers, Renew(h) \/ HandlerStep(h)
  PROVE  Transitions
<1>1. h.job \in Job /\ jobs[h.job] \in JobRecord /\ JobOK(jobs[h.job])
  BY DEF TypeOK, Handler, JobsOK
<1>2. CASE Renew(h)
  <2>1. PICK new : /\ jobs' = [jobs EXCEPT ![h.job] = new]
                   /\ new = [jobs[h.job] EXCEPT !.lease = "held"]
                   /\ jobs[h.job].lease = "over"
    BY <1>2 DEF Renew
  <2>2. Transition(jobs[h.job], new)
    BY <1>1, <2>1, SameTransition DEF JobRecord
  <2> QED
    BY <1>1, <2>1, <2>2, OneRow
<1>3. CASE Checkpoint(h) \/ HandlerThrows(h)
  BY <1>3, NoRow DEF Checkpoint, HandlerThrows, SetPhase
<1>4. CASE Complete(h)
  <2>1. CASE jobs' = jobs
    BY <2>1, NoRow
  <2>2. CASE jobs[h.job].status = "running"
             /\ jobs' = [jobs EXCEPT ![h.job] = Released(@, "succeeded")]
    <3>1. Transition(jobs[h.job], Released(jobs[h.job], "succeeded"))
      BY <1>1, <2>2, LeaveRunning
    <3> QED
      BY <1>1, <2>2, <3>1, OneRow
  <2> QED
    BY <1>4, <2>1, <2>2 DEF Complete
<1>5. CASE FailWrite(h) \/ MalformedFail(h)
  <2>1. CASE jobs' = jobs
    BY <2>1, NoRow
  <2>2. ASSUME NEW notDispatched \in BOOLEAN,
               jobs[h.job].status = "running", WriteFailure(h.job, notDispatched)
        PROVE  Transitions
    BY <1>1, <2>2, WriteFailureTransitions
  <2>3. (h.phase = "rejected") \in BOOLEAN /\ FALSE \in BOOLEAN
    OBVIOUS
  <2> QED
    BY <1>5, <2>1, <2>2, <2>3 DEF FailWrite, MalformedFail, Owned
<1> QED
  BY <1>2, <1>3, <1>4, <1>5 DEF HandlerStep

(* The recovery moves each expired row as the ledger says.                 *)
LEMMA RecoveryTransitions ==
  ASSUME TypeOK, JobsOK, NEW S \in SUBSET Job, RecoverExpired(S)
  PROVE  Transitions
<1> SUFFICES ASSUME NEW i \in Job
             PROVE  Transition(jobs[i], jobs'[i])
  BY DEF Transitions
<1>1. jobs[i] \in JobRecord /\ JobOK(jobs[i])
  BY DEF TypeOK, JobsOK
<1>2. CASE i \notin S
  <2>1. jobs'[i] = jobs[i]
    BY <1>2 DEF RecoverExpired
  <2> QED
    BY <1>1, <2>1, StutterTransition
<1>3. CASE i \in S /\ CanRetry(jobs[i])
  <2>1. jobs'[i] = [Released(jobs[i], "retrying") EXCEPT !.due = TRUE]
    BY <1>3 DEF RecoverExpired
  <2>2. jobs[i].status = "running"
    BY <1>3 DEF RecoverExpired, Expired
  <2> QED
    BY <1>1, <1>3, <2>1, <2>2, LeaveRunning
<1>4. CASE i \in S /\ ~ CanRetry(jobs[i])
  <2>1. jobs'[i] = Released(jobs[i], "uncertain")
    BY <1>4 DEF RecoverExpired
  <2>2. jobs[i].status = "running"
    BY <1>4 DEF RecoverExpired, Expired
  <2> QED
    BY <1>1, <1>4, <2>1, <2>2, LeaveRunning
<1> QED
  BY <1>2, <1>3, <1>4

(* Every step moves every row as the ledger says and keeps JobOK.          *)
LEMMA NextTransitions ==
  ASSUME TypeOK, JobsOK, [Next]_vars
  PROVE  Transitions
<1>1. CASE UNCHANGED vars
  BY <1>1, NoRow DEF vars, jobVars
<1>2. CASE Crash
  BY <1>2, NoRow DEF Crash, WorkerCrash, FailWriteThrows, jobVars
<1>3. CASE Transport
  BY <1>3, NoRow DEF Transport, jobVars
<1> QED
  BY <1>1, <1>2, <1>3, ApiTransitions, ClockTransitions, DeliveryTransitions,
     HandlerTransitions, RecoveryTransitions DEF Next

(* JobOK holds of every row in every reachable state.                      *)
LEMMA JobsOKInvariant == Spec => []JobsOK
<1>1. Init => JobsOK
  BY DEF Init, JobsOK, JobOK, NoJob
<1>2. TypeOK /\ JobsOK /\ [Next]_vars => JobsOK'
  BY NextTransitions DEF JobsOK, Transitions, Transition
<1> QED
  BY <1>1, <1>2, TypeCorrect, PTL DEF Spec

(* A lease and an owner exactly while running.                             *)
THEOREM OwnedIffRunningAlways == Spec => []OwnedIffRunning
<1>1. JobsOK => OwnedIffRunning
  BY DEF JobsOK, JobOK, OwnedIffRunning
<1> QED
  BY <1>1, JobsOKInvariant, PTL

(* max_attempts is never exceeded.                                         *)
THEOREM AttemptsBoundedAlways == Spec => []AttemptsBounded
<1>1. JobsOK => AttemptsBounded
  BY DEF JobsOK, JobOK, AttemptsBounded
<1> QED
  BY <1>1, JobsOKInvariant, PTL

(* A high-risk job starts once.                                            *)
THEOREM HighRiskStartsOnceAlways == Spec => []HighRiskStartsOnce
<1>1. JobsOK => HighRiskStartsOnce
  BY DEF JobsOK, JobOK, HighRiskStartsOnce
<1> QED
  BY <1>1, JobsOKInvariant, PTL

(* Every behaviour of the workers, the outbox and the broker is, to those  *)
(* who read the table, a behaviour of the ledger.                          *)
THEOREM LedgerImplemented == Spec => ImplementsLedger
<1> DEFINE ledger == [j \in Job |-> [status |-> jobs[j].status,
                                     attempts |-> jobs[j].attempts,
                                     max |-> jobs[j].max, risk |-> jobs[j].risk]]
<1>1. Init => Ledger!Init
  BY DEF Init, Ledger!Init, NoJob
<1>2. TypeOK /\ JobsOK /\ [Next]_vars => [Ledger!Next]_ledger
  <2> SUFFICES ASSUME TypeOK, JobsOK, [Next]_vars, ledger' # ledger
               PROVE  Ledger!Next
    OBVIOUS
  <2>1. \A j \in Job : ledger[j] = View(jobs[j]) /\ ledger'[j] = View(jobs'[j])
    BY DEF View
  <2>2. \A j \in Job : \/ View(jobs'[j]) = View(jobs[j])
                       \/ Ledger!Move(View(jobs[j]), View(jobs'[j]))
    BY NextTransitions DEF Transitions, Transition
  <2> HIDE DEF ledger
  <2>3. \A j \in Job : ledger'[j] = ledger[j] \/ Ledger!Move(ledger[j], ledger'[j])
    BY <2>1, <2>2
  <2> USE DEF ledger
  <2> QED
    BY <2>3 DEF Ledger!Next
<1> QED
  BY <1>1, <1>2, TypeCorrect, JobsOKInvariant, PTL
     DEF Spec, ImplementsLedger, Ledger!Spec

-----------------------------------------------------------------------------
(***************************************************************************)
(* No job is forgotten (DispatchCovered of module ExecutionJobs), for      *)
(* every number of jobs, workers, publishers and faults.                   *)
(*                                                                         *)
(* The argument: an insertion for a waiting job uses a key no row has,     *)
(* because the rows of a job never run ahead of its attempts and a running *)
(* or failed job has attempts no row carries yet; such a row is fresh, and *)
(* a fresh row stays fresh until queue.add turns it into a message.  A     *)
(* message can be consumed without a claim only if the job is not due, and *)
(* then its row was not ready, so there was no message.                    *)
(***************************************************************************)

(* Nothing has been done with the row yet.                                 *)
Fresh(k) == /\ k \notin published \cup seen
            /\ \A h \in inHand : ~ (h[2] = k /\ h[3] = "added")

Alive(k) == Fresh(k) \/ k \in waiting \/ k \in dropped

(* Only rows that are due reach a publisher or the broker.                 *)
DueFirst == /\ waiting \subseteq ready
            /\ active \subseteq ready
            /\ \A h \in inHand : h[2] \in ready

RowsOf(j) == {k \in rows : k.job = j}

DispatchOK(j) ==
  /\ jobs[j].status = "absent" => RowsOf(j) = {}
  /\ \A k \in RowsOf(j) : /\ k.attempt <= jobs[j].attempts
                          /\ jobs[j].status \in {"running", "failed"}
                               => k.attempt < jobs[j].attempts
  /\ (jobs[j].status \in Claimable /\ ~ jobs[j].due)
       => \A k \in RowsOf(j) : k.attempt = jobs[j].attempts => k \notin ready
  /\ jobs[j].status \in Claimable
       => \E k \in RowsOf(j) : k.attempt = jobs[j].attempts /\ Alive(k)

AllDispatched == \A j \in Job : DispatchOK(j)

-----------------------------------------------------------------------------
(* Every step keeps DueFirst: only due rows are claimed and published.     *)
LEMMA DueFirstStep ==
  ASSUME TypeOK, DueFirst, [Next]_vars
  PROVE  DueFirst'
<1>1. CASE UNCHANGED vars
  BY <1>1 DEF vars, deliveryVars, outboxVars, brokerVars, DueFirst
<1>2. ASSUME NEW j \in Job, Api(j) \/ Clock(j)
      PROVE  DueFirst'
  BY <1>2 DEF Api, Clock, Enqueue, ManualRetry, Cancel, BecomesDue, LeaseRunsOut,
              InsertRow, InsertRows, RowsBecomeReady, deliveryVars, outboxVars,
              brokerVars, DueFirst
<1>3. ASSUME NEW k \in waiting, Delivery(k)
      PROVE  DueFirst'
  BY <1>3 DEF Delivery, ClaimJob, DuplicateMessage, ClaimFails, Activate, Consume,
              jobVars, outboxVars, DueFirst
<1>4. ASSUME NEW h \in handlers, Renew(h) \/ HandlerStep(h)
      PROVE  DueFirst'
  <2>1. /\ ready \subseteq ready' /\ inHand' = inHand
        /\ waiting' = waiting /\ active' \subseteq active
    BY <1>4 DEF HandlerStep, Renew, Checkpoint, HandlerThrows, SetPhase, Complete,
                Return, FailWrite, MalformedFail, WriteFailure, Settle, InsertRow,
                InsertRows, deliveryVars, outboxVars, brokerVars
  <2> QED
    BY <2>1 DEF DueFirst
<1>5. ASSUME NEW S \in SUBSET Job, RecoverExpired(S)
      PROVE  DueFirst'
  <2>1. /\ ready \subseteq ready' /\ inHand' = inHand
        /\ waiting' = waiting /\ active' = active
    BY <1>5 DEF RecoverExpired, InsertRows, brokerVars
  <2> QED
    BY <2>1 DEF DueFirst
<1>6. ASSUME NEW w \in Worker, WorkerCrash(w)
      PROVE  DueFirst'
  BY <1>6 DEF WorkerCrash, outboxVars, brokerVars, DueFirst
<1>7. ASSUME NEW h \in handlers, FailWriteThrows(h)
      PROVE  DueFirst'
  BY <1>7 DEF FailWriteThrows, Return, Settle, outboxVars, DueFirst
<1>8. ASSUME NEW p \in Publisher, PublisherCrash(p)
      PROVE  DueFirst'
  BY <1>8 DEF PublisherCrash, outboxVars, brokerVars, DueFirst
<1>9. ASSUME NEW p \in Publisher, NEW k \in rows, PublishFails(p, k)
      PROVE  DueFirst'
  BY <1>9 DEF PublishFails, DueFirst
<1>10. ASSUME NEW p \in Publisher, NEW k \in rows, ClaimOutboxRow(p, k)
       PROVE  DueFirst'
  BY <1>10 DEF ClaimOutboxRow, brokerVars, DueFirst
<1>11. ASSUME NEW p \in Publisher, NEW k \in rows, QueueAdd(p, k)
       PROVE  DueFirst'
  BY <1>11 DEF QueueAdd, outboxVars, DueFirst
<1>12. ASSUME NEW p \in Publisher, NEW k \in rows, MarkPublished(p, k)
       PROVE  DueFirst'
  BY <1>12 DEF MarkPublished, brokerVars, DueFirst
<1>13. ASSUME NEW k \in rows, Stall(k) \/ Forget(k)
       PROVE  DueFirst'
  BY <1>13 DEF Stall, Forget, outboxVars, DueFirst
<1> QED
  BY <1>1, <1>2, <1>3, <1>4, <1>5, <1>6, <1>7, <1>8, <1>9, <1>10, <1>11, <1>12, <1>13
     DEF Next, Crash, Transport, PublisherStep

-----------------------------------------------------------------------------
(* A job whose row did not move, whose outbox rows are the same and did    *)
(* not become ready, and whose living rows live on.                        *)
LEMMA Frame ==
  ASSUME NEW i \in Job, DispatchOK(i),
         jobs'[i].status = jobs[i].status,
         jobs'[i].attempts = jobs[i].attempts,
         jobs'[i].due = jobs[i].due,
         RowsOf(i)' = RowsOf(i),
         \A k \in RowsOf(i) : k \in ready' => k \in ready,
         \A k \in RowsOf(i) : Alive(k) => Alive(k)'
  PROVE  DispatchOK(i)'
BY DEF DispatchOK

(* Steps that leave the table and the rows alone and lose no living row.   *)
LEMMA FrameAll ==
  ASSUME AllDispatched, jobs' = jobs, rows' = rows, ready' = ready,
         \A k \in rows : Alive(k) => Alive(k)'
  PROVE  AllDispatched'
<1> SUFFICES ASSUME NEW i \in Job
             PROVE  DispatchOK(i)'
  BY DEF AllDispatched
<1>1. DispatchOK(i) /\ RowsOf(i)' = RowsOf(i) /\ RowsOf(i) \subseteq rows
  BY DEF AllDispatched, RowsOf
<1> QED
  BY <1>1, Frame

(* Rows inserted for other jobs.                                           *)
LEMMA InsertFrame ==
  ASSUME AllDispatched, NEW i \in Job, NEW keys, NEW soon \in BOOLEAN,
         InsertRows(keys, soon), \A k \in keys : k.job # i,
         UNCHANGED <<waiting, seen, inHand, dropped>>,
         jobs'[i] = jobs[i]
  PROVE  DispatchOK(i)'
<1>1. RowsOf(i)' = RowsOf(i)
  BY DEF InsertRows, RowsOf
<1>2. \A k \in RowsOf(i) : k \in ready' => k \in ready
  BY DEF InsertRows, RowsOf
<1>3. \A k \in RowsOf(i) : Alive(k) => Alive(k)'
  BY DEF InsertRows, Alive, Fresh
<1> QED
  BY <1>1, <1>2, <1>3, Frame DEF AllDispatched

(* A row inserted under a key no row has is fresh, and it is ready only if *)
(* it is inserted so.                                                      *)
LEMMA NewRow ==
  ASSUME TypeOK, NEW keys \in SUBSET Key, NEW soon \in BOOLEAN,
         InsertRows(keys, soon), UNCHANGED <<seen, inHand>>,
         NEW k \in keys, k \notin rows
  PROVE  /\ Alive(k)' /\ k \in rows'
         /\ ~ soon => k \notin ready'
BY DEF InsertRows, TypeOK, OutboxTypeOK, Alive, Fresh

(* A job that enters a waiting state with a fresh key for its attempts.    *)
LEMMA Redispatched ==
  ASSUME TypeOK, NEW j \in Job, NEW kind \in RowKind, NEW n \in Nat,
         NEW keys \in SUBSET Key, NEW soon \in BOOLEAN,
         InsertRows(keys, soon), UNCHANGED <<seen, inHand>>,
         DispatchKey(j, kind, n) \in keys,
         \A k \in keys : k.job = j => k = DispatchKey(j, kind, n),
         \A k \in RowsOf(j) : k.attempt < n,
         jobs'[j].status \in Claimable,
         jobs'[j].attempts = n,
         jobs'[j].due = soon
  PROVE  DispatchOK(j)'
<1>1. PICK key \in keys : key = DispatchKey(j, kind, n)
  OBVIOUS
<1>2. key.job = j /\ key.attempt = n
  BY <1>1 DEF DispatchKey
<1>3. \A k \in RowsOf(j) : k.attempt \in Nat /\ k.attempt < n
  BY DEF TypeOK, OutboxTypeOK, RowsOf, Key
<1>4. key \notin rows
  BY <1>2, <1>3 DEF RowsOf
<1>5. Alive(key)' /\ key \in rows' /\ (~ soon => key \notin ready')
  BY <1>4, NewRow
<1>6. RowsOf(j)' = RowsOf(j) \cup {key}
  <2>1. rows' = rows \cup keys
    BY DEF InsertRows
  <2>2. \A k \in keys : k.job = j <=> k = key
    BY <1>1, <1>2
  <2> QED
    BY <2>1, <2>2 DEF RowsOf
<1>7. \A k \in RowsOf(j)' : k.attempt <= n /\ (k.attempt = n => k = key)
  BY <1>2, <1>3, <1>6
<1>8. /\ jobs'[j].status \notin {"absent", "running", "failed"}
      /\ key \in RowsOf(j)'
  BY <1>6
<1> QED
  BY <1>2, <1>5, <1>7, <1>8 DEF DispatchOK

(* A job that leaves running, or stays out of the waiting states.          *)
LEMMA Left ==
  ASSUME NEW j \in Job, DispatchOK(j),
         RowsOf(j)' = RowsOf(j),
         jobs'[j].attempts = jobs[j].attempts,
         jobs'[j].status \notin Claimable \cup {"absent"},
         jobs'[j].status \in {"running", "failed"}
           => jobs[j].status \in {"running", "failed"}
  PROVE  DispatchOK(j)'
BY DEF DispatchOK

-----------------------------------------------------------------------------
(* Enqueue, operator retry and cancel leave no waiting job uncovered.      *)
LEMMA ApiDispatch ==
  ASSUME TypeOK, AllDispatched, NEW j \in Job, Api(j)
  PROVE  AllDispatched'
<1>1. jobs[j] \in JobRecord /\ DispatchOK(j)
  BY DEF TypeOK, AllDispatched
<1>2. CASE Enqueue(j)
  <2> DEFINE key == DispatchKey(j, "queued", 0)
  <2>1. PICK risk \in Risks, kind \in Kinds, max \in MaxAttempts, due \in BOOLEAN :
          /\ jobs' = [jobs EXCEPT ![j] =
                        [NoJob EXCEPT !.status = "queued", !.max = max,
                                      !.risk = risk, !.kind = kind, !.due = due]]
          /\ InsertRows({key}, due)
          /\ jobs[j].status = "absent"
          /\ UNCHANGED <<waiting, seen, inHand, dropped>>
    BY <1>2 DEF Enqueue, InsertRow, brokerVars
  <2>2. /\ jobs'[j].status = "queued" /\ jobs'[j].attempts = 0
        /\ jobs'[j].due = due
        /\ \A i \in Job \ {j} : jobs'[i] = jobs[i]
    BY <2>1 DEF TypeOK, NoJob
  <2>3. key \in Key /\ key.job = j
    BY KeyType DEF DispatchKey
  <2>4. RowsOf(j) = {}
    BY <1>1, <2>1 DEF DispatchOK
  <2>5. DispatchOK(j)'
    BY <2>1, <2>2, <2>3, <2>4, Redispatched
  <2>6. \A i \in Job \ {j} : DispatchOK(i)'
    <3>1. \A i \in Job \ {j} : \A k \in {key} : k.job # i
      BY <2>3
    <3> HIDE DEF key
    <3> QED
      BY <2>1, <2>2, <3>1, InsertFrame
  <2> QED
    BY <2>5, <2>6 DEF AllDispatched
<1>3. CASE ManualRetry(j)
  <2> DEFINE n == jobs[j].attempts
             key == DispatchKey(j, "manual-retry", n)
  <2>1. /\ jobs[j].status = "failed"
        /\ InsertRows({key}, TRUE)
        /\ UNCHANGED <<waiting, seen, inHand, dropped>>
    BY <1>3 DEF ManualRetry, InsertRow, brokerVars
  <2>2. n \in Nat
    BY <1>1 DEF JobRecord
  <2>3. key \in Key /\ key.job = j
    BY <2>2, KeyType DEF DispatchKey
  <2>4. \A i \in Job \ {j} : jobs'[i] = jobs[i]
    BY <1>3 DEF ManualRetry, TypeOK
  <2>5. /\ jobs'[j].status = "queued" /\ jobs'[j].attempts = n
        /\ jobs'[j].due = TRUE
    <3> DEFINE max == IF jobs[j].max <= n THEN n + 1 ELSE jobs[j].max
               rel == Released(jobs[j], "queued")
               new == [rel EXCEPT !.max = max, !.due = TRUE]
    <3>1. rel \in JobRecord /\ rel.status = "queued" /\ rel.attempts = n
      BY <1>1, ReleasedFields
    <3>2. new.status = "queued" /\ new.attempts = n /\ new.due = TRUE
      <4> HIDE DEF rel, max, n
      <4> QED BY <3>1 DEF JobRecord
    <3>3. jobs' = [jobs EXCEPT ![j] = new]
      BY <1>3 DEF ManualRetry
    <3>4. jobs'[j] = new
      <4> HIDE DEF new
      <4> QED BY <3>3 DEF TypeOK
    <3> QED
      BY <3>2, <3>4
  <2>6. \A k \in RowsOf(j) : k.attempt < n
    BY <1>1, <2>1 DEF DispatchOK
  <2>7. DispatchOK(j)'
    <3>1. {key} \in SUBSET Key /\ DispatchKey(j, "manual-retry", n) \in {key}
      BY <2>3
    <3>2. \A k \in {key} : k.job = j => k = DispatchKey(j, "manual-retry", n)
      OBVIOUS
    <3>3. jobs'[j].status \in Claimable
      BY <2>5
    <3> HIDE DEF key, n
    <3> QED
      BY <2>1, <2>2, <2>5, <2>6, <3>1, <3>2, <3>3, Redispatched
  <2>8. \A i \in Job \ {j} : DispatchOK(i)'
    <3>1. \A i \in Job \ {j} : \A k \in {key} : k.job # i
      BY <2>3
    <3>2. PICK soon \in BOOLEAN : InsertRows({key}, soon)
      BY <2>1
    <3> HIDE DEF key
    <3> QED
      BY <2>1, <2>4, <3>1, <3>2, InsertFrame
  <2> QED
    BY <2>7, <2>8 DEF AllDispatched
<1>4. CASE Cancel(j)
  <2>1. /\ jobs' = [jobs EXCEPT ![j] = Released(@, "cancelled")]
        /\ UNCHANGED <<rows, ready, published, waiting, seen, inHand, dropped>>
    BY <1>4 DEF Cancel, deliveryVars, outboxVars, brokerVars
  <2>2. \A i \in Job : /\ RowsOf(i)' = RowsOf(i)
                       /\ \A k \in RowsOf(i) : Alive(k) => Alive(k)'
    BY <2>1 DEF RowsOf, Alive, Fresh
  <2>3. jobs'[j].status = "cancelled" /\ jobs'[j].attempts = jobs[j].attempts
    BY <1>1, <2>1, ReleasedFields DEF TypeOK
  <2>4. DispatchOK(j)'
    BY <1>1, <2>2, <2>3, Left
  <2>5. \A i \in Job \ {j} : DispatchOK(i)'
    BY <2>1, <2>2, Frame DEF TypeOK, AllDispatched
  <2> QED
    BY <2>4, <2>5 DEF AllDispatched
<1> QED
  BY <1>2, <1>3, <1>4 DEF Api

(* The passing of time leaves no waiting job uncovered.                    *)
LEMMA ClockDispatch ==
  ASSUME TypeOK, AllDispatched, NEW j \in Job, Clock(j)
  PROVE  AllDispatched'
<1>1. jobs[j] \in JobRecord /\ DispatchOK(j)
  BY DEF TypeOK, AllDispatched
<1>2. /\ UNCHANGED <<rows, published, waiting, seen, inHand, dropped>>
      /\ \A i \in Job \ {j} : jobs'[i] = jobs[i]
  BY DEF Clock, BecomesDue, LeaseRunsOut, RowsBecomeReady, deliveryVars, outboxVars,
         brokerVars, TypeOK
<1>3. \A i \in Job : /\ RowsOf(i)' = RowsOf(i)
                     /\ \A k \in RowsOf(i) : Alive(k) => Alive(k)'
  BY <1>2 DEF RowsOf, Alive, Fresh
<1>4. \A i \in Job \ {j} : \A k \in RowsOf(i) : k \in ready' => k \in ready
  BY DEF Clock, BecomesDue, LeaseRunsOut, RowsBecomeReady, deliveryVars, outboxVars,
         RowsOf
<1>5. \A i \in Job \ {j} : DispatchOK(i)'
  BY <1>2, <1>3, <1>4, Frame DEF AllDispatched
<1>6. /\ jobs'[j].status = jobs[j].status
      /\ jobs'[j].attempts = jobs[j].attempts
  BY <1>1 DEF Clock, BecomesDue, LeaseRunsOut, TypeOK, JobRecord
<1>7. CASE BecomesDue(j)
  <2>1. jobs'[j].due = TRUE
    BY <1>1, <1>7 DEF BecomesDue, TypeOK, JobRecord
  <2>2. DispatchOK(j)'
    BY <1>1, <1>3, <1>6, <2>1 DEF DispatchOK
  <2> QED
    BY <1>5, <2>2 DEF AllDispatched
<1>8. CASE LeaseRunsOut(j)
  <2>1. jobs'[j].due = jobs[j].due /\ ready' = ready
    BY <1>1, <1>8 DEF LeaseRunsOut, TypeOK, JobRecord, deliveryVars, outboxVars
  <2>2. DispatchOK(j)'
    BY <1>1, <1>3, <1>6, <2>1, Frame
  <2> QED
    BY <1>5, <2>2 DEF AllDispatched
<1> QED
  BY <1>7, <1>8 DEF Clock

(* A message that is consumed was not the last cover of a waiting job.     *)
LEMMA DeliveryDispatch ==
  ASSUME TypeOK, DueFirst, AllDispatched, NEW k \in waiting, Delivery(k)
  PROVE  AllDispatched'
<1>1. k \in rows /\ k \in ready /\ k.job \in Job /\ jobs[k.job] \in JobRecord
  BY DEF TypeOK, OutboxTypeOK, Key, DueFirst
<1>2. DispatchOK(k.job)
  BY <1>1 DEF AllDispatched
<1>3. ASSUME NEW w \in Worker, ClaimJob(w, k)
      PROVE  AllDispatched'
  <2>1. /\ UNCHANGED <<rows, ready, published, seen, inHand, dropped>>
        /\ waiting' = waiting \ {k}
        /\ \A i \in Job \ {k.job} : jobs'[i] = jobs[i]
    BY <1>1, <1>3 DEF ClaimJob, Activate, outboxVars, TypeOK
  <2>2. /\ jobs'[k.job].status = "running"
        /\ jobs'[k.job].attempts = jobs[k.job].attempts + 1
    BY <1>1, <1>3 DEF ClaimJob, TypeOK, JobRecord
  <2>3. \A i \in Job : RowsOf(i)' = RowsOf(i)
    BY <2>1 DEF RowsOf
  <2>4. ASSUME NEW i \in Job \ {k.job}
        PROVE  DispatchOK(i)'
    <3>1. \A r \in RowsOf(i) : Alive(r) => Alive(r)'
      BY <2>1 DEF RowsOf, Alive, Fresh
    <3> QED
      BY <2>1, <2>3, <3>1, Frame DEF AllDispatched
  <2>5. \A r \in RowsOf(k.job) : /\ r.attempt \in Nat
                                 /\ r.attempt <= jobs[k.job].attempts
    BY <1>2 DEF DispatchOK, TypeOK, OutboxTypeOK, RowsOf, Key
  <2>6. jobs[k.job].attempts \in Nat
    BY <1>1 DEF JobRecord
  <2>7. \A r \in RowsOf(k.job)' : /\ r.attempt <= jobs'[k.job].attempts
                                  /\ r.attempt < jobs'[k.job].attempts
    BY <1>1, <2>2, <2>3, <2>5, <2>6
  <2>8. DispatchOK(k.job)'
    BY <2>2, <2>7 DEF DispatchOK
  <2> QED
    BY <2>4, <2>8 DEF AllDispatched
<1>4. CASE DuplicateMessage(k)
  <2>1. /\ UNCHANGED <<jobs, rows, ready, published, seen, inHand, dropped>>
        /\ waiting' = waiting \ {k} /\ ~ Delivers(k.job)
    BY <1>4 DEF DuplicateMessage, Consume, jobVars, outboxVars
  <2>2. ASSUME NEW i \in Job
        PROVE  DispatchOK(i)'
    <3>1. RowsOf(i)' = RowsOf(i) /\ DispatchOK(i)
      BY <2>1 DEF RowsOf, AllDispatched
    <3>2. \A r \in RowsOf(i) : Alive(r) /\ r # k => Alive(r)'
      BY <2>1 DEF Alive, Fresh
    <3>3. CASE i # k.job \/ k.attempt # jobs[i].attempts \/ jobs[i].status \notin Claimable
      <4>1. \A r \in RowsOf(i) :
              (r.attempt = jobs[i].attempts /\ jobs[i].status \in Claimable) => r # k
        BY <3>3 DEF RowsOf
      <4> QED
        BY <2>1, <3>1, <3>2, <4>1 DEF DispatchOK
    <3>4. CASE i = k.job /\ k.attempt = jobs[i].attempts /\ jobs[i].status \in Claimable
      <4>1. ~ jobs[i].due
        BY <2>1, <3>4 DEF Delivers
      <4>2. k \in RowsOf(i)
        BY <1>1, <3>4 DEF RowsOf
      <4> QED
        BY <1>1, <3>1, <3>4, <4>1, <4>2 DEF DispatchOK
    <3> QED
      BY <3>3, <3>4
  <2> QED
    BY <2>2 DEF AllDispatched
<1>5. CASE ClaimFails(k)
  <2>1. /\ UNCHANGED <<jobs, rows, ready, published, seen, inHand>>
        /\ waiting' = waiting \ {k} /\ dropped' = dropped \cup {k}
    BY <1>5 DEF ClaimFails, Consume, outboxVars
  <2> QED
    BY <2>1, FrameAll DEF Alive, Fresh
<1> QED
  BY <1>3, <1>4, <1>5 DEF Delivery

(* A failure that retries covers the job with a row never used before.     *)
LEMMA WriteFailureDispatch ==
  ASSUME TypeOK, AllDispatched, NEW j \in Job, NEW notDispatched \in BOOLEAN,
         jobs[j].status = "running", WriteFailure(j, notDispatched),
         UNCHANGED <<waiting, seen, inHand, dropped>>
  PROVE  AllDispatched'
<1> DEFINE status == FailedStatus(jobs[j], notDispatched)
           n == jobs[j].attempts
           rel == Released(jobs[j], status)
           new == [rel EXCEPT !.due = ~ (status = "retrying")]
           key == DispatchKey(j, "retry", n)
<1>1. jobs[j] \in JobRecord /\ DispatchOK(j) /\ n \in Nat
  BY DEF TypeOK, JobRecord, AllDispatched
<1>2. status \in {"failed", "uncertain", "retrying"}
  BY DEF FailedStatus
<1>3. new.status = status /\ new.attempts = n /\ new.due = ~ (status = "retrying")
  <2>1. rel \in JobRecord /\ rel.status = status /\ rel.attempts = n
    BY <1>1, <1>2, ReleasedFields
  <2> HIDE DEF rel, n, status
  <2> QED
    BY <2>1 DEF JobRecord
<1>4. jobs' = [jobs EXCEPT ![j] = new]
  BY DEF WriteFailure
<1>5. jobs'[j] = new /\ \A i \in Job \ {j} : jobs'[i] = jobs[i]
  <2> HIDE DEF new
  <2> QED BY <1>4 DEF TypeOK
<1>6. CASE status = "retrying"
  <2>1. PICK soon \in BOOLEAN : ~ soon /\ InsertRows({key}, soon)
    BY <1>6 DEF WriteFailure, InsertRow
  <2>2. {key} \in SUBSET Key /\ key.job = j
    BY <1>1, KeyType DEF DispatchKey
  <2>3. \A k \in RowsOf(j) : k.attempt < n
    BY <1>1 DEF DispatchOK
  <2>4. jobs'[j].status \in Claimable /\ jobs'[j].attempts = n /\ jobs'[j].due = soon
    BY <1>3, <1>5, <1>6, <2>1
  <2>5. key = DispatchKey(j, "retry", n)
    OBVIOUS
  <2>6. DispatchOK(j)'
    <3> HIDE DEF key, n
    <3> QED BY <1>1, <2>1, <2>2, <2>3, <2>4, <2>5, Redispatched
  <2>7. \A i \in Job \ {j} : DispatchOK(i)'
    <3> HIDE DEF key
    <3> QED BY <1>5, <2>1, <2>2, InsertFrame
  <2> QED
    BY <2>6, <2>7 DEF AllDispatched
<1>7. CASE status # "retrying"
  <2>1. UNCHANGED <<rows, ready, published>>
    BY <1>7 DEF WriteFailure, outboxVars
  <2>2. \A i \in Job : /\ RowsOf(i)' = RowsOf(i)
                       /\ \A k \in RowsOf(i) : Alive(k) => Alive(k)'
    BY <2>1 DEF RowsOf, Alive, Fresh
  <2>3. jobs'[j].status \in {"failed", "uncertain"} /\ jobs'[j].attempts = jobs[j].attempts
    BY <1>2, <1>3, <1>5, <1>7
  <2>4. DispatchOK(j)'
    BY <1>1, <2>2, <2>3, Left
  <2>5. \A i \in Job \ {j} : DispatchOK(i)'
    BY <1>5, <2>1, <2>2, Frame DEF AllDispatched
  <2> QED
    BY <2>4, <2>5 DEF AllDispatched
<1> QED
  BY <1>6, <1>7

(* Every step of a handler call leaves every waiting job covered.          *)
LEMMA HandlerDispatch ==
  ASSUME TypeOK, AllDispatched, NEW h \in handlers, Renew(h) \/ HandlerStep(h)
  PROVE  AllDispatched'
<1>1. /\ h.job \in Job /\ jobs[h.job] \in JobRecord /\ DispatchOK(h.job)
      /\ UNCHANGED <<waiting, seen, inHand, dropped>>
  BY DEF TypeOK, Handler, AllDispatched, HandlerStep, Renew, Checkpoint, HandlerThrows,
         SetPhase, Complete, Return, FailWrite, MalformedFail, Settle, deliveryVars,
         brokerVars
<1>2. CASE UNCHANGED <<jobs, outboxVars>>
  BY <1>1, <1>2, FrameAll DEF outboxVars, Alive, Fresh
<1>3. ASSUME NEW notDispatched \in BOOLEAN,
             jobs[h.job].status = "running", WriteFailure(h.job, notDispatched)
      PROVE  AllDispatched'
  BY <1>1, <1>3, WriteFailureDispatch
<1>4. ASSUME NEW new, jobs' = [jobs EXCEPT ![h.job] = new],
             UNCHANGED outboxVars, new.attempts = jobs[h.job].attempts,
             \/ new.status = "succeeded"
             \/ new.status = jobs[h.job].status /\ new.due = jobs[h.job].due
      PROVE  AllDispatched'
  <2>1. \A i \in Job : /\ RowsOf(i)' = RowsOf(i) /\ ready' = ready
                       /\ \A k \in RowsOf(i) : Alive(k) => Alive(k)'
    BY <1>1, <1>4 DEF RowsOf, Alive, Fresh, outboxVars
  <2>2. jobs'[h.job] = new /\ \A i \in Job \ {h.job} : jobs'[i] = jobs[i]
    BY <1>1, <1>4 DEF TypeOK
  <2>3. DispatchOK(h.job)'
    BY <1>1, <1>4, <2>1, <2>2, Left, Frame
  <2>4. \A i \in Job \ {h.job} : DispatchOK(i)'
    BY <2>1, <2>2, Frame DEF AllDispatched
  <2> QED
    BY <2>3, <2>4 DEF AllDispatched
<1>5. CASE Renew(h)
  <2> DEFINE new == [jobs[h.job] EXCEPT !.lease = "held"]
  <2>1. jobs' = [jobs EXCEPT ![h.job] = new] /\ UNCHANGED outboxVars
    BY <1>5 DEF Renew, deliveryVars
  <2>2. /\ new.attempts = jobs[h.job].attempts /\ new.status = jobs[h.job].status
        /\ new.due = jobs[h.job].due
    BY <1>1 DEF JobRecord
  <2> HIDE DEF new
  <2> QED
    BY <1>4, <2>1, <2>2
<1>6. CASE Complete(h)
  <2> DEFINE new == Released(jobs[h.job], "succeeded")
  <2>1. \/ jobs' = [jobs EXCEPT ![h.job] = new]
        \/ jobs' = jobs
    BY <1>6 DEF Complete
  <2>2. UNCHANGED outboxVars
    BY <1>6 DEF Complete, Return
  <2>3. new.attempts = jobs[h.job].attempts /\ new.status = "succeeded"
    BY <1>1, ReleasedFields
  <2> HIDE DEF new
  <2> QED
    BY <1>2, <1>4, <2>1, <2>2, <2>3
<1>7. CASE Checkpoint(h) \/ HandlerThrows(h)
  BY <1>2, <1>7 DEF Checkpoint, HandlerThrows, SetPhase, deliveryVars
<1>8. CASE FailWrite(h) \/ MalformedFail(h)
  <2>1. (h.phase = "rejected") \in BOOLEAN /\ FALSE \in BOOLEAN
    OBVIOUS
  <2> QED
    BY <1>2, <1>3, <1>8, <2>1 DEF FailWrite, MalformedFail, Owned
<1> QED
  BY <1>5, <1>6, <1>7, <1>8 DEF HandlerStep

(* The lease recovery covers each job it puts back.                        *)
LEMMA RecoveryDispatch ==
  ASSUME TypeOK, AllDispatched, NEW S \in SUBSET Job, RecoverExpired(S)
  PROVE  AllDispatched'
<1> DEFINE again == {i \in S : CanRetry(jobs[i])}
           keys == {DispatchKey(i, "lease-recovery", jobs[i].attempts) : i \in again}
<1>1. PICK soon \in BOOLEAN : soon /\ InsertRows(keys, soon)
  BY DEF RecoverExpired
<1>2. /\ \A i \in S : jobs[i].status = "running"
      /\ UNCHANGED <<waiting, seen, inHand, dropped>>
  BY DEF RecoverExpired, Expired, brokerVars
<1>3. keys \in SUBSET Key
  BY KeyType DEF TypeOK, JobRecord
<1>4. \A k \in keys : k.job \in again /\ k = DispatchKey(k.job, "lease-recovery", jobs[k.job].attempts)
  BY DEF DispatchKey
<1> SUFFICES ASSUME NEW j \in Job
             PROVE  DispatchOK(j)'
  BY DEF AllDispatched
<1>5. jobs[j] \in JobRecord /\ DispatchOK(j) /\ jobs[j].attempts \in Nat
  BY DEF TypeOK, JobRecord, AllDispatched
<1>6. CASE j \in again
  <2> DEFINE rel == Released(jobs[j], "retrying")
  <2>1. jobs'[j] = [rel EXCEPT !.due = TRUE]
    BY <1>6 DEF RecoverExpired
  <2>2. rel \in JobRecord /\ rel.status = "retrying" /\ rel.attempts = jobs[j].attempts
    BY <1>5, ReleasedFields
  <2>3. /\ jobs'[j].status \in Claimable /\ jobs'[j].attempts = jobs[j].attempts
        /\ jobs'[j].due = soon
    <3> HIDE DEF rel
    <3> QED BY <1>1, <2>1, <2>2 DEF JobRecord
  <2>4. \A k \in RowsOf(j) : k.attempt < jobs[j].attempts
    BY <1>2, <1>5, <1>6 DEF DispatchOK
  <2>5. DispatchKey(j, "lease-recovery", jobs[j].attempts) \in keys
    BY <1>6
  <2>6. \A k \in keys : k.job = j =>
          k = DispatchKey(j, "lease-recovery", jobs[j].attempts)
    BY <1>4
  <2> HIDE DEF keys
  <2> QED
    BY <1>1, <1>2, <1>3, <1>5, <2>3, <2>4, <2>5, <2>6, Redispatched
<1>7. CASE j \in S \ again
  <2>1. RowsOf(j)' = RowsOf(j)
    BY <1>1, <1>4, <1>7 DEF InsertRows, RowsOf
  <2>2. jobs'[j] = Released(jobs[j], "uncertain")
    BY <1>7 DEF RecoverExpired
  <2>3. jobs'[j].status = "uncertain" /\ jobs'[j].attempts = jobs[j].attempts
    BY <1>5, <2>2, ReleasedFields
  <2> QED
    BY <1>5, <2>1, <2>3, Left
<1>8. CASE j \notin S
  <2>1. jobs'[j] = jobs[j]
    BY <1>8 DEF RecoverExpired
  <2>2. \A k \in keys : k.job # j
    BY <1>4, <1>8
  <2> HIDE DEF keys
  <2> QED
    BY <1>1, <1>2, <2>1, <2>2, InsertFrame
<1> QED
  BY <1>6, <1>7, <1>8

(* Publishers and broker, faulty or not, lose no cover.                    *)
LEMMA TransportDispatch ==
  ASSUME TypeOK, AllDispatched, Crash \/ Transport
  PROVE  AllDispatched'
<1>1. /\ UNCHANGED <<jobs, dropped, rows>> /\ ready' = ready
      /\ waiting \subseteq waiting'
  BY DEF Crash, Transport, WorkerCrash, FailWriteThrows, Return, Settle, PublisherCrash,
         PublishFails, PublisherStep, ClaimOutboxRow, QueueAdd, MarkPublished, Stall,
         Forget, jobVars, outboxVars, brokerVars
<1>2. CASE /\ seen' \subseteq seen /\ published' = published
           /\ \A h \in inHand' : h \in inHand \/ h[3] = "claimed"
  BY <1>1, <1>2, FrameAll DEF Alive, Fresh
<1>3. ASSUME NEW p \in Publisher, NEW k \in rows, PublishFails(p, k)
      PROVE  AllDispatched'
  <2>1. /\ published' = published /\ inHand' \subseteq inHand
        /\ \/ seen' = seen
           \/ seen' = seen \cup {k} /\ k \in waiting'
    BY <1>3 DEF PublishFails
  <2> QED
    BY <1>1, <2>1, FrameAll DEF Alive, Fresh
<1>4. ASSUME NEW p \in Publisher, NEW k \in rows, QueueAdd(p, k)
      PROVE  AllDispatched'
  <2>1. /\ published' = published /\ seen' = seen \cup {k}
        /\ inHand' \subseteq inHand \cup {<<p, k, "added">>}
        /\ k \in seen \/ k \in waiting'
    BY <1>4 DEF QueueAdd, outboxVars
  <2>2. \A r \in rows : Alive(r) => Alive(r)'
    BY <1>1, <2>1 DEF Alive, Fresh
  <2> QED
    BY <1>1, <2>2, FrameAll
<1>5. ASSUME NEW p \in Publisher, NEW k \in rows, MarkPublished(p, k)
      PROVE  AllDispatched'
  <2>1. /\ <<p, k, "added">> \in inHand /\ seen' = seen /\ inHand' \subseteq inHand
        /\ published' \subseteq published \cup {k}
    BY <1>5 DEF MarkPublished, brokerVars
  <2>2. ~ Fresh(k)
    BY <2>1 DEF Fresh
  <2> QED
    BY <1>1, <2>1, <2>2, FrameAll DEF Alive, Fresh
<1>6. ASSUME NEW p \in Publisher, NEW k \in rows, ClaimOutboxRow(p, k)
      PROVE  AllDispatched'
  BY <1>2, <1>6 DEF ClaimOutboxRow, brokerVars
<1>7. ASSUME NEW k \in rows, Stall(k) \/ Forget(k)
      PROVE  AllDispatched'
  BY <1>2, <1>7 DEF Stall, Forget, outboxVars
<1>8. ASSUME NEW p \in Publisher, PublisherCrash(p)
      PROVE  AllDispatched'
  BY <1>2, <1>8 DEF PublisherCrash, outboxVars, brokerVars
<1>9. ASSUME NEW w \in Worker, WorkerCrash(w)
      PROVE  AllDispatched'
  BY <1>2, <1>9 DEF WorkerCrash, outboxVars, brokerVars
<1>10. ASSUME NEW h \in handlers, FailWriteThrows(h)
       PROVE  AllDispatched'
  BY <1>2, <1>10 DEF FailWriteThrows, Return, Settle, outboxVars
<1> QED
  BY <1>3, <1>4, <1>5, <1>6, <1>7, <1>8, <1>9, <1>10
     DEF Crash, Transport, PublisherStep

(* No job is forgotten.                                                    *)
THEOREM DispatchCoveredAlways == Spec => []DispatchCovered
<1>1. Init => DueFirst /\ AllDispatched
  BY DEF Init, OutboxInit, DueFirst, AllDispatched, DispatchOK, RowsOf, NoJob
<1>2. TypeOK /\ DueFirst /\ AllDispatched /\ [Next]_vars => DueFirst' /\ AllDispatched'
  <2> SUFFICES ASSUME TypeOK, DueFirst, AllDispatched, [Next]_vars
               PROVE  AllDispatched'
    BY DueFirstStep
  <2>1. CASE UNCHANGED vars
    BY <2>1, FrameAll DEF vars, jobVars, deliveryVars, outboxVars, brokerVars, Alive, Fresh
  <2> QED
    BY <2>1, ApiDispatch, ClockDispatch, DeliveryDispatch, HandlerDispatch,
       RecoveryDispatch, TransportDispatch DEF Next
<1>3. AllDispatched => DispatchCovered
  BY DEF AllDispatched, DispatchOK, DispatchCovered, CoveredBy, RowsOf, Alive, Fresh
<1> QED
  BY <1>1, <1>2, <1>3, TypeCorrect, PTL DEF Spec

-----------------------------------------------------------------------------
(***************************************************************************)
(* The receipt is written by the worker of the newest attempt, however     *)
(* many calls a worker runs at a time.  lease_owner names a worker, not a  *)
(* call, so the argument goes through the history of the claims.           *)
(*                                                                         *)
(* The invariant: the history has one claimant per attempt; the owner of a *)
(* running row is the claimant of its newest attempt; a call is one of     *)
(* its worker's claims.  A completion that names the worker then finds     *)
(* the owner, the newest claimant and the call's own claimant the same.    *)
(***************************************************************************)
ClaimsCounted ==
  \A j \in Job : /\ Len(history[j].claimants) = jobs[j].attempts
                 /\ jobs[j].status = "absent" => jobs[j].attempts = 0
                 /\ jobs[j].status = "running"
                      => jobs[j].owner = history[j].claimants[jobs[j].attempts]
Claimant(h) == /\ h.attempt \in 1..jobs[h.job].attempts
               /\ history[h.job].claimants[h.attempt] = h.worker
Fenced == /\ ClaimsCounted
          /\ \A h \in handlers : Claimant(h)
          /\ FencedBetweenWorkers

(* A step that neither claims nor completes, seen from one row: it makes   *)
(* no row running or succeeded, leaves the owner of those that are, and    *)
(* starts no attempt; and from the calls: none is new.                     *)
Quiet(old, new) ==
  /\ new.attempts = old.attempts \/ (old.status = "absent" /\ new.attempts = 0)
  /\ new.status = "absent" => old.status = "absent"
  /\ new.status = "running" => old.status = "running" /\ new.owner = old.owner
  /\ new.status = "succeeded" => old.status = "succeeded" /\ new.kind = old.kind
QuietRows == \A i \in Job : Quiet(jobs[i], jobs'[i])
NoNewCall ==
  \A g \in handlers' : \E h \in handlers :
    g.job = h.job /\ g.worker = h.worker /\ g.attempt = h.attempt

(* One row changes quietly, the others not at all.                         *)
LEMMA QuietRow ==
  ASSUME TypeOK, NEW j \in Job, NEW new, jobs' = [jobs EXCEPT ![j] = new],
         Quiet(jobs[j], new)
  PROVE  QuietRows
BY DEF QuietRows, Quiet, TypeOK

(* A row that is neither running nor succeeded afterwards, and had no      *)
(* attempt counted, changed quietly.                                       *)
LEMMA QuietElsewhere ==
  ASSUME TypeOK, NEW j \in Job, NEW new, jobs' = [jobs EXCEPT ![j] = new],
         new.status \notin {"absent", "running", "succeeded"},
         new.attempts = jobs[j].attempts
  PROVE  QuietRows
<1>1. Quiet(jobs[j], new)
  BY DEF Quiet
<1> QED
  BY <1>1, QuietRow

(* No row is written: quiet.                                               *)
LEMMA QuietStutter ==
  ASSUME jobs' = jobs
  PROVE  QuietRows
BY DEF QuietRows, Quiet

(* Calls only end: none is new.                                            *)
LEMMA CallsEnd ==
  ASSUME handlers' \subseteq handlers
  PROVE  NoNewCall
BY DEF NoNewCall

(* A call that moves on to its next phase is not new.                      *)
LEMMA CallMovesOn ==
  ASSUME TypeOK, NEW h \in handlers, NEW phase \in Phase,
         SetPhase(h, phase)
  PROVE  NoNewCall
<1> DEFINE next == [h EXCEPT !.phase = phase]
<1>1. next.job = h.job /\ next.worker = h.worker /\ next.attempt = h.attempt
  BY DEF TypeOK, Handler
<1>2. handlers' = (handlers \ {h}) \cup {next}
  BY DEF SetPhase
<1> HIDE DEF next
<1> QED
  BY <1>1, <1>2 DEF NoNewCall

(* Enqueue, operator retry, cancel and the passing of time are quiet.      *)
LEMMA ApiQuiet ==
  ASSUME TypeOK, NEW j \in Job, Api(j) \/ Clock(j)
  PROVE  QuietRows /\ NoNewCall /\ UNCHANGED history
<1>1. jobs[j] \in JobRecord
  BY DEF TypeOK
<1>2. UNCHANGED <<handlers, history>>
  BY DEF Api, Clock, Enqueue, ManualRetry, Cancel, BecomesDue, LeaseRunsOut
<1>3. NoNewCall
  BY <1>2, CallsEnd
<1>4. CASE Enqueue(j)
  <2>1. PICK risk \in Risks, kind \in Kinds, max \in MaxAttempts, due \in BOOLEAN :
          jobs' = [jobs EXCEPT ![j] =
                     [NoJob EXCEPT !.status = "queued", !.max = max,
                                   !.risk = risk, !.kind = kind, !.due = due]]
    BY <1>4 DEF Enqueue
  <2> DEFINE new == [NoJob EXCEPT !.status = "queued", !.max = max,
                                  !.risk = risk, !.kind = kind, !.due = due]
  <2>2. new.status = "queued" /\ new.attempts = 0
    BY DEF NoJob
  <2>3. jobs[j].status = "absent"
    BY <1>4 DEF Enqueue
  <2> HIDE DEF new
  <2>4. Quiet(jobs[j], new)
    BY <2>2, <2>3 DEF Quiet
  <2> QED
    BY <1>2, <1>3, <2>1, <2>4, QuietRow DEF new
<1>5. CASE ManualRetry(j)
  <2> DEFINE n == jobs[j].attempts
             max == IF jobs[j].max <= n THEN n + 1 ELSE jobs[j].max
             rel == Released(jobs[j], "queued")
             new == [rel EXCEPT !.max = max, !.due = TRUE]
  <2>1. jobs' = [jobs EXCEPT ![j] = new]
    BY <1>5 DEF ManualRetry
  <2>2. /\ rel \in JobRecord /\ rel.status = "queued"
        /\ rel.attempts = jobs[j].attempts
    BY <1>1, ReleasedFields DEF Status, Active
  <2>3. new.status = "queued" /\ new.attempts = jobs[j].attempts
    <3> HIDE DEF rel, max
    <3> QED BY <2>2 DEF JobRecord
  <2> HIDE DEF new
  <2>4. /\ new.status \notin {"absent", "running", "succeeded"}
        /\ new.attempts = jobs[j].attempts
    BY <2>3
  <2> QED
    BY <1>2, <1>3, <2>1, <2>4, QuietElsewhere
<1>6. CASE Cancel(j)
  <2> DEFINE new == Released(jobs[j], "cancelled")
  <2>1. jobs' = [jobs EXCEPT ![j] = new]
    BY <1>6 DEF Cancel
  <2>2. new.status = "cancelled" /\ new.attempts = jobs[j].attempts
    BY <1>1, ReleasedFields DEF Status, Terminal
  <2> HIDE DEF new
  <2>3. /\ new.status \notin {"absent", "running", "succeeded"}
        /\ new.attempts = jobs[j].attempts
    BY <2>2
  <2> QED
    BY <1>2, <1>3, <2>1, <2>3, QuietElsewhere
<1>7. CASE BecomesDue(j)
  <2>1. PICK new : new = [jobs[j] EXCEPT !.due = TRUE]
    OBVIOUS
  <2>2. jobs' = [jobs EXCEPT ![j] = new]
    BY <1>7, <2>1 DEF BecomesDue
  <2>3. Quiet(jobs[j], new)
    BY <1>1, <2>1 DEF Quiet, JobRecord
  <2> QED
    BY <1>2, <1>3, <2>2, <2>3, QuietRow
<1>8. CASE LeaseRunsOut(j)
  <2>1. PICK new : new = [jobs[j] EXCEPT !.lease = "over"]
    OBVIOUS
  <2>2. jobs' = [jobs EXCEPT ![j] = new]
    BY <1>8, <2>1 DEF LeaseRunsOut
  <2>3. Quiet(jobs[j], new)
    BY <1>1, <2>1 DEF Quiet, JobRecord
  <2> QED
    BY <1>2, <1>3, <2>2, <2>3, QuietRow
<1> QED
  BY <1>4, <1>5, <1>6, <1>7, <1>8 DEF Api, Clock

(* pgFailExecutionJob leaves its row neither running nor succeeded.        *)
LEMMA WriteFailureQuiet ==
  ASSUME TypeOK, NEW j \in Job, NEW notDispatched \in BOOLEAN,
         WriteFailure(j, notDispatched)
  PROVE  QuietRows
<1> DEFINE status == FailedStatus(jobs[j], notDispatched)
           rel == Released(jobs[j], status)
           due == ~ (status = "retrying")
           new == [rel EXCEPT !.due = due]
<1>1. status \in {"failed", "retrying", "uncertain"}
  BY DEF FailedStatus
<1>2. jobs' = [jobs EXCEPT ![j] = new]
  BY DEF WriteFailure
<1>3. /\ rel \in JobRecord /\ rel.status = status
      /\ rel.attempts = jobs[j].attempts
  <2>1. jobs[j] \in JobRecord
    BY DEF TypeOK
  <2> HIDE DEF status
  <2> QED BY <1>1, <2>1, ReleasedFields
<1>4. new.status = status /\ new.attempts = jobs[j].attempts
  <2> HIDE DEF rel, status, due
  <2> QED BY <1>3 DEF JobRecord
<1> HIDE DEF new, status
<1>5. /\ new.status \notin {"absent", "running", "succeeded"}
      /\ new.attempts = jobs[j].attempts
  BY <1>1, <1>4
<1> QED
  BY <1>2, <1>5, QuietElsewhere

(* Renewal and every step of a call but the completion are quiet.          *)
LEMMA HandlerQuiet ==
  ASSUME TypeOK, NEW h \in handlers,
         Renew(h) \/ HandlerStep(h), ~ Complete(h)
  PROVE  QuietRows /\ NoNewCall /\ UNCHANGED history
<1>1. h.job \in Job /\ jobs[h.job] \in JobRecord
  BY DEF TypeOK, Handler
<1>2. CASE Renew(h)
  <2>1. PICK new : new = [jobs[h.job] EXCEPT !.lease = "held"]
    OBVIOUS
  <2>2. jobs' = [jobs EXCEPT ![h.job] = new]
    BY <1>2, <2>1 DEF Renew
  <2>3. Quiet(jobs[h.job], new)
    BY <1>1, <2>1 DEF Quiet, JobRecord
  <2>4. UNCHANGED <<handlers, history>>
    BY <1>2 DEF Renew
  <2> QED
    BY <1>1, <2>2, <2>3, <2>4, QuietRow, CallsEnd
<1>3. CASE Checkpoint(h) \/ HandlerThrows(h)
  <2>1. PICK phase \in Phase : SetPhase(h, phase)
    BY <1>3 DEF Checkpoint, HandlerThrows
  <2>2. UNCHANGED <<jobs, history>>
    BY <2>1 DEF SetPhase
  <2> QED
    BY <2>1, <2>2, QuietStutter, CallMovesOn
<1>4. CASE FailWrite(h) \/ MalformedFail(h)
  <2>1. handlers' = handlers \ {h} /\ UNCHANGED history
    BY <1>4 DEF FailWrite, MalformedFail
  <2>2. \/ \E notDispatched \in BOOLEAN : WriteFailure(h.job, notDispatched)
        \/ UNCHANGED jobs
    BY <1>4 DEF FailWrite, MalformedFail
  <2>3. QuietRows
    BY <1>1, <2>2, WriteFailureQuiet, QuietStutter
  <2>4. NoNewCall
    BY <2>1, CallsEnd
  <2> QED
    BY <2>1, <2>3, <2>4
<1> QED
  BY <1>2, <1>3, <1>4 DEF HandlerStep

(* The recovery is quiet: no expired row stays running.                    *)
LEMMA RecoveryQuiet ==
  ASSUME TypeOK, NEW S \in SUBSET Job, RecoverExpired(S)
  PROVE  QuietRows /\ NoNewCall /\ UNCHANGED history
<1>1. UNCHANGED <<handlers, history>>
  BY DEF RecoverExpired
<1>2. ASSUME NEW i \in Job
      PROVE  Quiet(jobs[i], jobs'[i])
  <2>1. jobs[i] \in JobRecord
    BY DEF TypeOK
  <2>2. CASE i \notin S
    <3>1. jobs'[i] = jobs[i]
      BY <2>2 DEF RecoverExpired
    <3> QED
      BY <3>1 DEF Quiet
  <2>3. CASE i \in S /\ CanRetry(jobs[i])
    <3>1. PICK rel : rel = Released(jobs[i], "retrying")
      OBVIOUS
    <3>2. jobs'[i] = [rel EXCEPT !.due = TRUE]
      BY <2>3, <3>1 DEF RecoverExpired
    <3>3. /\ rel \in JobRecord /\ rel.status = "retrying"
          /\ rel.attempts = jobs[i].attempts
      BY <2>1, <3>1, ReleasedFields DEF Status, Active
    <3>4. jobs'[i].status = "retrying" /\ jobs'[i].attempts = jobs[i].attempts
      BY <3>2, <3>3 DEF JobRecord
    <3> QED
      BY <3>4 DEF Quiet
  <2>4. CASE i \in S /\ ~ CanRetry(jobs[i])
    <3>1. jobs'[i] = Released(jobs[i], "uncertain")
      BY <2>4 DEF RecoverExpired
    <3>2. jobs'[i].status = "uncertain" /\ jobs'[i].attempts = jobs[i].attempts
      BY <2>1, <3>1, ReleasedFields DEF Status, Terminal
    <3> QED
      BY <3>2 DEF Quiet
  <2> QED
    BY <2>2, <2>3, <2>4
<1> QED
  BY <1>1, <1>2, CallsEnd DEF QuietRows

(* Crashes, publishers and broker are quiet.                               *)
LEMMA OutsideQuiet ==
  ASSUME TypeOK, Crash \/ Transport
  PROVE  QuietRows /\ NoNewCall /\ UNCHANGED history
<1>1. UNCHANGED <<jobs, history>>
  BY DEF Crash, WorkerCrash, FailWriteThrows, Transport, jobVars
<1>2. handlers' \subseteq handlers
  BY DEF Crash, WorkerCrash, FailWriteThrows, Return, Transport, jobVars
<1> QED
  BY <1>1, <1>2, QuietStutter, CallsEnd

(* A quiet step keeps the argument.                                        *)
LEMMA QuietKeeps ==
  ASSUME TypeOK, TypeOK', Fenced, QuietRows, NoNewCall, UNCHANGED history
  PROVE  Fenced'
<1>1. ASSUME NEW j \in Job
      PROVE  /\ Quiet(jobs[j], jobs'[j])
             /\ jobs[j].status = "absent" => jobs[j].attempts = 0
             /\ jobs'[j].attempts = jobs[j].attempts
  BY DEF QuietRows, Quiet, Fenced, ClaimsCounted
<1>2. ClaimsCounted'
  <2> SUFFICES ASSUME NEW j \in Job
               PROVE  /\ Len(history[j].claimants) = jobs'[j].attempts
                      /\ jobs'[j].status = "absent" => jobs'[j].attempts = 0
                      /\ jobs'[j].status = "running"
                           => jobs'[j].owner = history[j].claimants[jobs'[j].attempts]
    BY DEF ClaimsCounted
  <2> QED
    BY <1>1 DEF Fenced, ClaimsCounted, Quiet
<1>3. ASSUME NEW g \in handlers'
      PROVE  Claimant(g)'
  <2>1. PICK h \in handlers :
          g.job = h.job /\ g.worker = h.worker /\ g.attempt = h.attempt
    BY DEF NoNewCall
  <2>2. h.job \in Job
    BY DEF TypeOK, Handler
  <2>3. Claimant(h) /\ jobs'[h.job].attempts = jobs[h.job].attempts
    BY <1>1, <2>2 DEF Fenced
  <2> QED
    BY <2>1, <2>3 DEF Claimant
<1>4. FencedBetweenWorkers'
  BY <1>1 DEF Fenced, FencedBetweenWorkers, Quiet
<1> QED
  BY <1>2, <1>3, <1>4 DEF Fenced

(* A claim adds its worker at the end of the history of its job: the       *)
(* claims of earlier calls stay where they are.                            *)
LEMMA ClaimFenced ==
  ASSUME TypeOK, Fenced, NEW k \in waiting, NEW w \in Worker, ClaimJob(w, k)
  PROVE  Fenced'
<1> DEFINE n == jobs[k.job].attempts + 1
           old == history[k.job].claimants
           new == [job |-> k.job, worker |-> w, attempt |-> n, msg |-> k,
                   phase |-> "working"]
<1>1. k.job \in Job /\ jobs[k.job] \in JobRecord /\ old \in Seq(Worker)
  BY DEF TypeOK, OutboxTypeOK, Key, ClaimHistory
<1>2. /\ new.job = k.job /\ new.worker = w /\ new.attempt = n
      /\ handlers' = handlers \cup {new}
  BY DEF ClaimJob
<1>3. /\ jobs'[k.job].status = "running" /\ jobs'[k.job].owner = w
      /\ jobs'[k.job].attempts = n
  BY <1>1 DEF ClaimJob, TypeOK, JobRecord
<1>4. history'[k.job].claimants = Append(old, w)
  BY <1>1 DEF ClaimJob, TypeOK, ClaimHistory
<1>5. ASSUME NEW i \in Job, i # k.job
      PROVE  jobs'[i] = jobs[i] /\ history'[i] = history[i]
  BY <1>1, <1>5 DEF ClaimJob, TypeOK
<1>6. Len(old) = jobs[k.job].attempts /\ jobs[k.job].attempts \in Nat
  BY <1>1 DEF Fenced, ClaimsCounted, JobRecord
<1> HIDE DEF new, old
<1>7. /\ Len(Append(old, w)) = n /\ Append(old, w)[n] = w
      /\ \A i \in 1..jobs[k.job].attempts : Append(old, w)[i] = old[i]
  BY <1>1, <1>6
<1> HIDE DEF n
<1>8. n \in Nat /\ n > jobs[k.job].attempts /\ n >= 1
  BY <1>6 DEF n
<1>9. ClaimsCounted'
  <2> SUFFICES ASSUME NEW i \in Job
               PROVE  /\ Len(history'[i].claimants) = jobs'[i].attempts
                      /\ jobs'[i].status = "absent" => jobs'[i].attempts = 0
                      /\ jobs'[i].status = "running" =>
                           jobs'[i].owner = history'[i].claimants[jobs'[i].attempts]
    BY DEF ClaimsCounted
  <2>1. CASE i = k.job
    BY <1>3, <1>4, <1>7, <2>1
  <2>2. CASE i # k.job
    BY <1>5, <2>2 DEF Fenced, ClaimsCounted
  <2> QED
    BY <2>1, <2>2
<1>10. ASSUME NEW g \in handlers'
       PROVE  Claimant(g)'
  <2>1. CASE g = new
    BY <1>2, <1>3, <1>4, <1>7, <1>8, <2>1 DEF Claimant
  <2>2. CASE g \in handlers
    <3>1. g.job \in Job /\ Claimant(g)
      BY <2>2 DEF TypeOK, Handler, Fenced
    <3>2. CASE g.job = k.job
      <4>1. g.attempt \in 1..jobs[k.job].attempts /\ old[g.attempt] = g.worker
        BY <3>1, <3>2 DEF Claimant, old
      <4>2. g.attempt \in 1..n
        BY <1>6, <1>8, <4>1
      <4> QED
        BY <1>3, <1>4, <1>7, <3>2, <4>1, <4>2 DEF Claimant
    <3>3. CASE g.job # k.job
      BY <1>5, <3>1, <3>3 DEF Claimant
    <3> QED
      BY <3>2, <3>3
  <2> QED
    BY <1>2, <2>1, <2>2
<1>11. FencedBetweenWorkers'
  BY <1>3, <1>5 DEF Fenced, FencedBetweenWorkers
<1> QED
  BY <1>9, <1>10, <1>11 DEF Fenced

(* A completion that names the worker writes a receipt of the owner's.     *)
LEMMA CompleteFenced ==
  ASSUME TypeOK, Fenced, NEW h \in handlers, Complete(h)
  PROVE  Fenced'
<1>1. h.job \in Job /\ jobs[h.job] \in JobRecord
  BY DEF TypeOK, Handler
<1>2. handlers' = handlers \ {h}
  BY DEF Complete, Return
<1>3. CASE UNCHANGED <<jobs, history>>
  BY <1>2, <1>3 DEF Fenced, ClaimsCounted, Claimant, FencedBetweenWorkers
<1>4. CASE /\ jobs[h.job].status = "running"
           /\ jobs[h.job].kind = "unfenced" \/ Owned(h)
           /\ jobs' = [jobs EXCEPT ![h.job] = Released(@, "succeeded")]
           /\ history' = [history EXCEPT ![h.job].receipt = h.attempt]
  <2>1. PICK new : new = Released(jobs[h.job], "succeeded")
    OBVIOUS
  <2>2. new.status = "succeeded" /\ new.attempts = jobs[h.job].attempts
    BY <1>1, <2>1, ReleasedFields DEF Status, Terminal
  <2>3. new.kind = jobs[h.job].kind
    BY <1>1, <2>1 DEF Released, JobRecord
  <2>4. jobs'[h.job] = new
    BY <1>1, <1>4, <2>1 DEF TypeOK
  <2>5. /\ history'[h.job].receipt = h.attempt
        /\ \A i \in Job : history'[i].claimants = history[i].claimants
    BY <1>1, <1>4 DEF TypeOK, ClaimHistory
  <2>6. ASSUME NEW i \in Job, i # h.job
        PROVE  jobs'[i] = jobs[i] /\ history'[i] = history[i]
    BY <1>1, <1>4, <2>6 DEF TypeOK
  <2>7. ClaimsCounted'
    <3> SUFFICES ASSUME NEW i \in Job
                 PROVE  /\ Len(history'[i].claimants) = jobs'[i].attempts
                        /\ jobs'[i].status = "absent" => jobs'[i].attempts = 0
                        /\ jobs'[i].status = "running" =>
                             jobs'[i].owner = history'[i].claimants[jobs'[i].attempts]
      BY DEF ClaimsCounted
    <3>1. CASE i = h.job
      BY <2>2, <2>4, <2>5, <3>1 DEF Fenced, ClaimsCounted
    <3>2. CASE i # h.job
      BY <2>6, <3>2 DEF Fenced, ClaimsCounted
    <3> QED
      BY <3>1, <3>2
  <2>8. ASSUME NEW g \in handlers'
        PROVE  Claimant(g)'
    <3>1. g \in handlers /\ g.job \in Job /\ Claimant(g)
      BY <1>2 DEF TypeOK, Handler, Fenced
    <3>2. jobs'[g.job].attempts = jobs[g.job].attempts
      BY <2>2, <2>4, <2>6, <3>1
    <3> QED
      BY <2>5, <3>1, <3>2 DEF Claimant
  <2>9. ASSUME NEW i \in Job,
               jobs'[i].status = "succeeded", jobs'[i].kind # "unfenced"
        PROVE  history'[i].claimants[history'[i].receipt]
                 = history'[i].claimants[jobs'[i].attempts]
    <3>1. CASE i = h.job
      <4>1. Owned(h) /\ Claimant(h)
        BY <1>4, <2>3, <2>4, <2>9, <3>1 DEF Fenced
      <4>2. history[i].claimants[jobs[i].attempts] = h.worker
        BY <1>1, <3>1, <4>1 DEF Owned, Fenced, ClaimsCounted
      <4> QED
        BY <2>2, <2>4, <2>5, <3>1, <4>1, <4>2 DEF Claimant
    <3>2. CASE i # h.job
      BY <2>6, <2>9, <3>2 DEF Fenced, FencedBetweenWorkers
    <3> QED
      BY <3>1, <3>2
  <2> QED
    BY <2>7, <2>8, <2>9 DEF Fenced, FencedBetweenWorkers
<1> QED
  BY <1>3, <1>4 DEF Complete

(* Each step of the system keeps the argument.                             *)
LEMMA FencedStep ==
  ASSUME TypeOK, TypeOK', Fenced, [Next]_vars
  PROVE  Fenced'
<1>1. CASE UNCHANGED vars
  BY <1>1 DEF vars, jobVars, Fenced, ClaimsCounted, Claimant, FencedBetweenWorkers
<1>2. ASSUME NEW j \in Job, Api(j) \/ Clock(j)
      PROVE  Fenced'
  BY <1>2, ApiQuiet, QuietKeeps
<1>3. ASSUME NEW k \in waiting, Delivery(k)
      PROVE  Fenced'
  <2>1. CASE \E w \in Worker : ClaimJob(w, k)
    BY <2>1, ClaimFenced
  <2>2. CASE DuplicateMessage(k) \/ ClaimFails(k)
    <3>1. UNCHANGED <<jobs, handlers, history>>
      BY <2>2 DEF DuplicateMessage, ClaimFails, jobVars
    <3>2. QuietRows /\ NoNewCall
      BY <3>1, QuietStutter, CallsEnd
    <3> QED
      BY <3>1, <3>2, QuietKeeps
  <2> QED
    BY <1>3, <2>1, <2>2 DEF Delivery
<1>4. ASSUME NEW h \in handlers, Renew(h) \/ HandlerStep(h)
      PROVE  Fenced'
  <2>1. CASE Complete(h)
    BY <2>1, CompleteFenced
  <2>2. CASE ~ Complete(h)
    <3>1. QuietRows /\ NoNewCall /\ UNCHANGED history
      BY <1>4, <2>2, HandlerQuiet
    <3> QED
      BY <3>1, QuietKeeps
  <2> QED
    BY <2>1, <2>2
<1>5. ASSUME NEW S \in SUBSET Job, RecoverExpired(S)
      PROVE  Fenced'
  BY <1>5, RecoveryQuiet, QuietKeeps
<1>6. CASE Crash \/ Transport
  BY <1>6, OutsideQuiet, QuietKeeps
<1> QED
  BY <1>1, <1>2, <1>3, <1>4, <1>5, <1>6 DEF Next

(* The receipt of a succeeded job was written by the worker of its newest  *)
(* attempt, wherever the completion names the worker: for any number of    *)
(* workers and of calls a worker runs at a time, whatever crashes, lost    *)
(* leases and redeliveries came before.                                    *)
THEOREM FencedBetweenWorkersAlways == Spec => []FencedBetweenWorkers
<1>1. Init => Fenced
  BY DEF Init, NoJob, Fenced, ClaimsCounted, FencedBetweenWorkers
<1>2. TypeOK /\ TypeOK' /\ Fenced /\ [Next]_vars => Fenced'
  BY FencedStep
<1>3. Fenced => FencedBetweenWorkers
  BY DEF Fenced
<1> QED
  BY <1>1, <1>2, <1>3, TypeCorrect, PTL DEF Spec
=============================================================================
