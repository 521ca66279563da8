------------------------------ MODULE CronRuns ------------------------------
(***************************************************************************)
(* One published cron job: the tick that turns its due slots into durable  *)
(* runs (cron/postgres-store.ts), the execution of a run by the workers    *)
(* (cron/worker.ts, under execution-jobs/dispatcher.ts) and the edits of   *)
(* the schedule (routers/cron.ts).                                         *)
(*                                                                         *)
(* A run is named by its slot: the table holds one run per (job_id,        *)
(* scheduled_for), and the execution job by its run.  The schedule fires   *)
(* once per unit of time.  Delivery is module ExecutionJobs' business:     *)
(* here a job that waits may be claimed, and a claim may be lost.          *)
(***************************************************************************)
EXTENDS Integers, FiniteSets

CONSTANTS
  Horizon,     \* bound on the clock
  Manual,      \* slots of manual runs: <now>#<run id>, never reused
  Policies,    \* missed-run policies in use: the resident ticker has one of
               \* them, POST /cron/internal/tick always replays
  Worker,      \* worker ids of the execution workers
  None,        \* next_run_at, lease_owner and pending edits that are NULL
  Editor,      \* concurrent PATCH /cron/jobs/:id requests
  EditKinds,   \* what the requests ask for
  RetryBound,  \* bound on the attempts at which an operator still retries
  MaxFaults    \* bound on crashes and failing statements

ASSUME CronAssumption ==
  /\ Horizon \in Nat /\ MaxFaults \in Nat /\ RetryBound \in Nat
  /\ Policies \subseteq {"replay", "coalesce"}
  /\ EditKinds \subseteq {"title", "pause", "publish", "reschedule"}
  /\ None \notin Worker
  /\ Manual \cap Int = {} /\ None \notin Int

VARIABLES
  now,        \* the clock
  cronJob,    \* the row of cron_jobs: status, next_run_at, last_terminal_status
  runs,       \* status of the run of each slot
  stale,      \* running runs older than takeover_policy.after_minutes
  jobs,       \* the execution job of each run
  calls,      \* executeClaimedCronJob calls in the memory of the workers
  edits,      \* what each PATCH has read and computed, until it writes
  handled,    \* how often the handler of each slot was called (history)
  faults      \* faults so far

vars == <<now, cronJob, runs, stale, jobs, calls, edits, handled, faults>>

Time == 1 .. Horizon
Slot == Time \cup Manual
RunResult == {"succeeded", "skipped", "failed", "needs_takeover"}
RunStatus == {"absent", "queued", "running"} \cup RunResult
JobStatus == {"absent", "queued", "running", "retrying", "succeeded", "failed",
              "uncertain"}
CallPhase == {"claimed", "handling", "returned", "caught", "finished",
              "duplicate", "notQueued", "threw"}
Call == [slot : Slot, worker : Worker, phase : CallPhase,
         result : RunResult \cup {"none"}]
NoJob == [status |-> "absent", attempts |-> 0, max |-> 1, owner |-> None]

(* One invariant for the types of the whole state.                         *)
TypeOK ==
  /\ now \in 0..Horizon
  /\ cronJob \in [status : {"published", "paused"}, policy : Policies,
                  next : (1 .. Horizon + 1) \cup {None},
                  last : RunResult \cup {"none"}]
  /\ runs \in [Slot -> RunStatus]
  /\ stale \subseteq Slot
  /\ jobs \in [Slot -> [status : JobStatus, attempts : Nat, max : Nat,
                        owner : Worker \cup {None}]]
  /\ calls \subseteq Call
  /\ edits \in [Editor -> {None} \cup [status : {"published", "paused"},
                                       next : (1 .. Horizon + 1) \cup {None}]]
  /\ handled \in [Slot -> Nat]
  /\ faults \in 0..MaxFaults

Init ==
  /\ now = 0
  /\ \E policy \in Policies :
       cronJob = [status |-> "published", policy |-> policy, next |-> 1, last |-> "none"]
  /\ runs = [s \in Slot |-> "absent"]
  /\ stale = {}
  /\ jobs = [s \in Slot |-> NoJob]
  /\ calls = {}
  /\ edits = [e \in Editor |-> None]
  /\ handled = [s \in Slot |-> 0]
  /\ faults = 0

Fault == faults < MaxFaults /\ faults' = faults + 1

-----------------------------------------------------------------------------
(* The tick and the manual run.                                            *)

(* nextFor: the next firing strictly after an instant.                     *)
NextFor(t) == t + 1

(* Mutation: only the runs that have not started are taken over.           *)
TakeOverQueued(old, S) ==
  LET new == {s \in S : runs[s] = "absent"}
  IN  /\ stale' = stale \ old
      /\ runs' = [s \in Slot |-> CASE s \in new -> "queued"
                                  [] s \in old /\ runs[s] = "queued" -> "needs_takeover"
                                  [] OTHER -> runs[s]]
      /\ jobs' = [s \in Slot |-> IF s \in new
                                 THEN [NoJob EXCEPT !.status = "queued"]
                                 ELSE jobs[s]]

(* The runs in "old" are taken over; each slot of S gets a run and its     *)
(* execution job, inserted together, unless it has a run already.          *)
TakeOverAndDispatch(old, S) ==
  LET new == {s \in S : runs[s] = "absent"}
  IN  /\ stale' = stale \ old
      /\ runs' = [s \in Slot |-> CASE s \in new -> "queued"
                                  [] s \in old -> "needs_takeover"
                                  [] OTHER -> runs[s]]
      /\ jobs' = [s \in Slot |-> IF s \in new
                                 THEN [NoJob EXCEPT !.status = "queued"]
                                 ELSE jobs[s]]

(* pgTickCronDue, one serializable transaction: takes over the running     *)
(* runs that are too old, then queues the due slot and advances the        *)
(* schedule.  SKIP LOCKED passes over rows another transaction holds.      *)
Tick ==
  \E old \in SUBSET stale, locked \in BOOLEAN :
    LET due == /\ cronJob.status = "published"
               /\ cronJob.next # None
               /\ cronJob.next <= now
               /\ ~ locked
        from == IF cronJob.policy = "coalesce" THEN now ELSE cronJob.next
    IN  /\ old # {} \/ due
        /\ TakeOverAndDispatch(old, IF due THEN {cronJob.next} ELSE {})
        /\ cronJob' = [cronJob EXCEPT
             !.next = IF due THEN NextFor(from) ELSE @,
             !.last = IF old # {} THEN "needs_takeover" ELSE @]
        /\ UNCHANGED <<now, calls, edits, handled, faults>>

(* pgEnqueueManualCronRun: a paused job may be run by hand.                *)
RunNow(m) ==
  /\ runs[m] = "absent"
  /\ TakeOverAndDispatch({}, {m})
  /\ UNCHANGED <<now, cronJob, calls, edits, handled, faults>>

-----------------------------------------------------------------------------
(* PATCH /cron/jobs/:id reads the row, computes status and next_run_at     *)
(* from what it read, and writes both without a version check.             *)

(* Mutation: every edit computes the next slot from the clock.             *)
EditedFromNow(kind) == [status |-> cronJob.status, next |-> NextFor(now)]

Edited(kind) ==
  LET status == CASE kind = "pause" -> "paused"
                  [] kind = "publish" -> "published"
                  [] OTHER -> cronJob.status
      restart == \/ kind = "reschedule"
                 \/ status = "published" /\ cronJob.status # "published"
  IN  [status |-> status,
       next |-> IF status = "paused" THEN None
                ELSE IF restart THEN NextFor(now) ELSE cronJob.next]

EditReads(e, kind) ==
  /\ edits[e] = None
  /\ edits' = [edits EXCEPT ![e] = Edited(kind)]
  /\ UNCHANGED <<now, cronJob, runs, stale, jobs, calls, handled, faults>>

EditWrites(e) ==
  /\ edits[e] # None
  /\ cronJob' = [cronJob EXCEPT !.status = edits[e].status, !.next = edits[e].next]
  /\ edits' = [edits EXCEPT ![e] = None]
  /\ UNCHANGED <<now, runs, stale, jobs, calls, handled, faults>>

-----------------------------------------------------------------------------
(* A worker executes the job of a run.                                     *)

Move(c, phase, result) ==
  calls' = (calls \ {c}) \cup {[c EXCEPT !.phase = phase, !.result = result]}

(* pgClaimExecutionJobById, for a message that names the job.              *)
Claim(w, s) ==
  /\ jobs[s].status \in {"queued", "retrying"}
  /\ jobs' = [jobs EXCEPT ![s].status = "running", ![s].owner = w,
                          ![s].attempts = @ + 1]
  /\ calls' = calls \cup {[slot |-> s, worker |-> w, phase |-> "claimed",
                           result |-> "none"]}
  /\ UNCHANGED <<now, cronJob, runs, stale, edits, handled, faults>>

(* The call goes on to the handler, or to what it reports instead.         *)
StartAs(c, phase) ==
  /\ c.phase = "claimed"
  /\ Move(c, phase, "none")
  /\ runs' = IF phase = "handling" THEN [runs EXCEPT ![c.slot] = "running"] ELSE runs
  /\ handled' = IF phase = "handling" THEN [handled EXCEPT ![c.slot] = @ + 1] ELSE handled
  /\ UNCHANGED <<now, cronJob, stale, jobs, edits, faults>>

(* Mutation: a running run is handled again.                               *)
StartRunAgain(c) ==
  StartAs(c, IF runs[c.slot] \in {"queued", "running"} THEN "handling" ELSE "duplicate")

(* pgStartCronRun: queued becomes running; otherwise its status decides.   *)
StartRun(c) ==
  StartAs(c, CASE runs[c.slot] = "queued" -> "handling"
               [] runs[c.slot] = "running" -> "notQueued"
               [] OTHER -> "duplicate")

(* Mutation: the catch branch finishes the run without a status.           *)
HandlerEndsNameless(c) ==
  /\ c.phase = "handling"
  /\ \/ \E r \in RunResult : Move(c, "returned", r)
     \/ Move(c, "caught", "none")
  /\ UNCHANGED <<now, cronJob, runs, stale, jobs, edits, handled, faults>>

(* The handler returns a result, or throws (or is not registered) and the  *)
(* run is to be finished as failed.                                        *)
HandlerEnds(c) ==
  /\ c.phase = "handling"
  /\ \/ \E r \in RunResult : Move(c, "returned", r)
     \/ Move(c, "caught", "failed")
  /\ UNCHANGED <<now, cronJob, runs, stale, jobs, edits, handled, faults>>

(* pgFinishCronRun: by run id, whatever the status of the run.             *)
FinishRun(c) ==
  /\ c.phase \in {"returned", "caught"}
  /\ Move(c, "finished", c.result)
  /\ runs' = [runs EXCEPT ![c.slot] = c.result]
  /\ stale' = stale \ {c.slot}
  /\ cronJob' = [cronJob EXCEPT !.last = c.result]
  /\ UNCHANGED <<now, jobs, edits, handled, faults>>

(* A statement of the call throws.  When the one that finishes the run     *)
(* does, the catch branch finishes the run as failed; all others reach the *)
(* dispatcher, as do the reads before the handler is called.               *)
StatementFails(c) ==
  /\ Fault
  /\ \/ c.phase = "returned" /\ Move(c, "caught", "failed")
     \/ c.phase \in CallPhase \ {"returned", "threw"}
        /\ Move(c, "threw", c.result)
  /\ UNCHANGED <<now, cronJob, runs, stale, jobs, edits, handled>>

(* Mutation: the receipt is written whatever has become of the job.        *)
ReportUnguarded(c) ==
  /\ c.phase \in {"finished", "duplicate", "notQueued", "threw"}
  /\ calls' = calls \ {c}
  /\ jobs' = [jobs EXCEPT ![c.slot].status =
                 IF c.phase = "duplicate" \/ (c.phase = "finished" /\ c.result # "failed")
                 THEN "succeeded" ELSE "failed"]
  /\ UNCHANGED <<now, cronJob, runs, stale, edits, handled, faults>>

(* pgCompleteExecutionJob or pgFailExecutionJob ends the call.  Neither    *)
(* names the worker, save the failure written by the dispatcher's catch    *)
(* branch.  A low-risk job with attempts left is retried.                  *)
Report(c) ==
  /\ c.phase \in {"finished", "duplicate", "notQueued", "threw"}
  /\ calls' = calls \ {c}
  /\ LET job == jobs[c.slot]
         ok == c.phase = "duplicate" \/ (c.phase = "finished" /\ c.result # "failed")
         status == CASE ok -> "succeeded"
                     [] ~ ok /\ job.attempts < job.max -> "retrying"
                     [] OTHER -> "failed"
     IN  jobs' = IF /\ job.status = "running"
                    /\ c.phase = "threw" => job.owner = c.worker
                 THEN [jobs EXCEPT ![c.slot].status = status,
                                   ![c.slot].owner = None]
                 ELSE jobs
  /\ UNCHANGED <<now, cronJob, runs, stale, edits, handled, faults>>

(* The failure write threw as well, or the process died.                   *)
CallVanishes(c) ==
  /\ Fault
  /\ calls' = calls \ {c}
  /\ UNCHANGED <<now, cronJob, runs, stale, jobs, edits, handled>>

(* The lease of a running job ran out, and a worker's tick recovers it.    *)
RecoverLease(s) ==
  /\ jobs[s].status = "running"
  /\ jobs' = [jobs EXCEPT
       ![s].status = IF jobs[s].attempts < jobs[s].max THEN "retrying" ELSE "uncertain",
       ![s].owner = None]
  /\ UNCHANGED <<now, cronJob, runs, stale, calls, edits, handled, faults>>

(* The administrator delivers a failed job again.                          *)
Retry(s) ==
  /\ jobs[s].status = "failed" /\ jobs[s].attempts <= RetryBound
  /\ jobs' = [jobs EXCEPT
       ![s].status = "queued",
       ![s].max = IF @ <= jobs[s].attempts THEN jobs[s].attempts + 1 ELSE @]
  /\ UNCHANGED <<now, cronJob, runs, stale, calls, edits, handled, faults>>

-----------------------------------------------------------------------------
Advance == /\ now < Horizon
           /\ now' = now + 1
           /\ UNCHANGED <<cronJob, runs, stale, jobs, calls, edits, handled, faults>>

(* after_minutes have passed since a run started.                          *)
GrowOld(s) == /\ runs[s] = "running" /\ s \notin stale
              /\ stale' = stale \cup {s}
              /\ UNCHANGED <<now, cronJob, runs, jobs, calls, edits, handled, faults>>

CallStep(c) == StartRun(c) \/ HandlerEnds(c) \/ FinishRun(c) \/ Report(c)

Next ==
  \/ Advance
  \/ Tick
  \/ \E m \in Manual : RunNow(m)
  \/ \E e \in Editor : EditWrites(e) \/ \E kind \in EditKinds : EditReads(e, kind)
  \/ \E s \in Slot : \/ GrowOld(s) \/ RecoverLease(s) \/ Retry(s)
                     \/ \E w \in Worker : Claim(w, s)
  \/ \E c \in calls : CallStep(c) \/ StatementFails(c) \/ CallVanishes(c)

Spec == Init /\ [][Next]_vars

(* The clock and the resident ticker run, and no transaction holds a row   *)
(* of a stale run for ever; messages are delivered and calls end; a lease  *)
(* nobody renews is recovered.                                             *)
TakesOver(s) == s \in stale /\ Tick /\ s \notin stale'
Unattended(s) == ~ \E c \in calls : c.slot = s /\ c.worker = jobs[s].owner
Fairness ==
  /\ WF_vars(Advance)
  /\ WF_vars(Tick)
  /\ \A s \in Slot : /\ WF_vars(GrowOld(s)) /\ WF_vars(TakesOver(s))
                     /\ WF_vars(Unattended(s) /\ RecoverLease(s))
                     /\ WF_vars(\E w \in Worker : Claim(w, s))
                     /\ WF_vars(\E c \in calls : c.slot = s /\ CallStep(c))

FairSpec == Spec /\ Fairness

-----------------------------------------------------------------------------
(* Properties.                                                             *)

(* The handler of a run is called at most once, whatever is delivered,     *)
(* recovered, retried by the administrator or taken over meanwhile.        *)
HandlerRunsOnce == \A s \in Slot : handled[s] <= 1

(* Under replay no slot of a published schedule is passed over, by a tick  *)
(* or by an edit that writes back a next_run_at it read before the tick.   *)
NoSlotSkipped ==
  (cronJob.policy = "replay" /\ cronJob.next # None) =>
     \A t \in Time : t < cronJob.next => runs[t] # "absent"

(* Every run ends or is taken over, whatever became of its job and its     *)
(* worker.  One that never started may be left queued, when its execution  *)
(* job needs a person; one that has started may not, for it is never       *)
(* queued again (StartedForGood in CronRunsProofs).                        *)
NeedsAPerson(s) == runs[s] = "queued" /\ jobs[s].status \in {"failed", "uncertain"}
RunsSettle ==
  \A s \in Slot :
    (runs[s] \in {"queued", "running"}) ~> (runs[s] \in RunResult \/ NeedsAPerson(s))

(* The execution jobs move as module JobLedger says.                       *)
Ledger == INSTANCE JobLedger
  WITH Job <- Slot,
       ledger <- [s \in Slot |-> [status |-> jobs[s].status,
                                  attempts |-> jobs[s].attempts,
                                  max |-> jobs[s].max, risk |-> "low"]]
JobsFollowLedger == Ledger!Spec
=============================================================================
