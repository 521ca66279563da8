----------------------------- MODULE CrawlQueue -----------------------------
(***************************************************************************)
(* The crawl queue of one crawler instance (crawl/runtime-gates.ts and the *)
(* crawl operations of runtime/action-operations.ts).  The remote crawler  *)
(* runs one task at a time, so a start request takes the instance if it is *)
(* idle and waits in the table runtime_crawl_jobs otherwise.  Four kinds   *)
(* of execution job drive a crawl: starter, monitor, reconcile and sweep.  *)
(*                                                                         *)
(* An execution job is modelled by what ExecutionJobs grants it: it is     *)
(* inserted once per idempotency key, runs one handler call at a time, is  *)
(* put back while attempts are left when the call throws or its worker     *)
(* dies, and is over otherwise.  Delays of jobs are not modelled: a        *)
(* pending job runs any time later.                                        *)
(*                                                                         *)
(* What runs under the advisory lock of the instance, or is one            *)
(* transaction, is one action.  Every remote call, and every statement     *)
(* that follows one, is an action of its own; "calls" holds where each     *)
(* handler or request is.                                                  *)
(***************************************************************************)
EXTENDS Integers, Sequences, FiniteSets

CONSTANTS
  Crawl,           \* ids of runtime_crawl_jobs
  None,            \* no crawl, no job
  QueueMaxDepth,   \* CRAWLER_QUEUE_MAX_DEPTH
  AnHour,          \* CRAWLER_UNCERTAIN_NO_TASK_MAX_MS, in steps of "age"
  TwoHours,        \* CRAWLER_MONITOR_MAX_MS
  ADay,            \* CRAWLER_QUEUE_MAX_WAIT_MS and CRAWLER_UNCERTAIN_MAX_MS
  StartPolls,      \* monitor sequence at which a missing receipt is given up
  MaxAttempts,     \* max_attempts of the jobs (3 and 4 in the code)
  PollBound,       \* bound on the sequence of a crawl's monitors
  ReconcileBound,  \* bound on the reconcile jobs of a crawl
  MaxFaults        \* bound on process crashes

ASSUME CrawlAssumption ==
  /\ None \notin Crawl
  /\ {QueueMaxDepth, MaxAttempts} \subseteq Nat \ {0}
  /\ {StartPolls, PollBound, ReconcileBound, MaxFaults} \subseteq Nat
  /\ {AnHour, TwoHours, ADay} \subseteq Nat \ {0}
  /\ AnHour <= ADay /\ TwoHours <= ADay
  /\ StartPolls <= PollBound

VARIABLES
  crawls,   \* the rows of runtime_crawl_jobs
  order,    \* the ids in the order of (created_at, id)
  jobs,     \* the execution jobs, by idempotency key
  calls,    \* handler calls and requests in the memory of a process
  starts,   \* how often start_crawl was called for a crawl, and how many of
            \* these calls a crash cut off from recording the answer (history)
  faults

vars == <<crawls, order, jobs, calls, starts, faults>>

Live == {"starting", "running", "stopping"}
Occupying == Live \cup {"uncertain"}     \* ACTIVE_RUNTIME_STATES
Over == {"succeeded", "failed", "cancelled"}
State == {"absent", "queued"} \cup Occupying \cup Over

JobKey == [type : {"starter"}, crawl : Crawl, n : {0}]
     \cup [type : {"monitor"}, crawl : Crawl, n : 0..PollBound]
     \cup [type : {"reconcile"}, crawl : Crawl, n : 0..ReconcileBound]
     \cup [type : {"sweep"}, crawl : {None}, n : {0}]
Starter(c) == [type |-> "starter", crawl |-> c, n |-> 0]
Monitor(c, n) == [type |-> "monitor", crawl |-> c, n |-> n]
Reconcile(c, n) == [type |-> "reconcile", crawl |-> c, n |-> n]
Sweep == [type |-> "sweep", crawl |-> None, n |-> 0]

Point == {"dispatching",                                            \* start gate
          "selected", "monitoring", "calling",                      \* starter
          "started", "start failed",                                \* both
          "waiting", "expired", "expired without task", "polling",  \* monitor
          "abandoning", "requeueing", "checking",                   \* reconcile
          "reconciling", "draining"}                                \* several
Call == [crawl : Crawl \cup {None}, job : JobKey \cup {None}, at : Point,
         throws : BOOLEAN]

CrawlRecord == [state : State, task : BOOLEAN, age : 0..ADay, stalled : BOOLEAN]
StartCount == [called : Nat, cut : Nat]
JobRecord == [status : {"absent", "pending", "running", "over"},
              attempts : 0..MaxAttempts]

TypeOK ==
  /\ crawls \in [Crawl -> CrawlRecord]
  /\ order \in Seq(Crawl)
  /\ jobs \in [JobKey -> JobRecord]
  /\ calls \subseteq Call
  /\ starts \in [Crawl -> StartCount]
  /\ faults \in 0..MaxFaults

Init ==
  /\ crawls = [c \in Crawl |-> [state |-> "absent", task |-> FALSE,
                                age |-> 0, stalled |-> FALSE]]
  /\ order = <<>>
  /\ jobs = [k \in JobKey |-> [status |-> "absent", attempts |-> 0]]
  /\ calls = {}
  /\ starts = [c \in Crawl |-> [called |-> 0, cut |-> 0]]
  /\ faults = 0

-----------------------------------------------------------------------------
(* The tables.                                                             *)

In(states) == {c \in Crawl : crawls[c].state \in states}
Older(d, c) == \E m, n \in DOMAIN order : order[m] = d /\ order[n] = c /\ m < n
Oldest(S) == {c \in S : ~ \E d \in S : Older(d, c)}

(* UPDATE ... SET state WHERE id AND state IN from.                        *)
Move(c, from, to) ==
  crawls' = IF crawls[c].state \in from
            THEN [crawls EXCEPT ![c].state = to, ![c].stalled = FALSE]
            ELSE crawls

(* The receipt of start_crawl: recorded only while the crawl is starting.  *)
RecordTask(c) ==
  crawls' = IF crawls[c].state = "starting"
            THEN [crawls EXCEPT ![c].state = "running", ![c].task = TRUE,
                                ![c].stalled = FALSE]
            ELSE crawls

Insert(c, state) ==
  /\ crawls' = [crawls EXCEPT ![c].state = state]
  /\ order' = Append(order, c)

(* pgEnqueueExecutionJob: ON CONFLICT (idempotency_key) DO NOTHING.        *)
WithJob(js, k) ==
  IF js[k].status = "absent" THEN [js EXCEPT ![k].status = "pending"] ELSE js

(* enqueueReconcile: a new key every time, but deduplicate_active on the   *)
(* crawl, and the job being executed is active too.                        *)
ActiveJob(k) == jobs[k].status \in {"pending", "running"}
Watched(c) == \E n \in 0..ReconcileBound : ActiveJob(Reconcile(c, n))
FreshReconciles(c) == {n \in 0..ReconcileBound :
                         \A m \in n..ReconcileBound :
                           jobs[Reconcile(c, m)].status = "absent"}
NextReconcile(c) == CHOOSE n \in FreshReconciles(c) :
                      \A m \in FreshReconciles(c) : n <= m
WithReconcile(js, c) ==
  IF Watched(c) \/ FreshReconciles(c) = {} THEN js
  ELSE WithJob(js, Reconcile(c, NextReconcile(c)))

-----------------------------------------------------------------------------
(* Calls.                                                                  *)

NewCall(c, k, at) == [crawl |-> c, job |-> k, at |-> at, throws |-> FALSE]
Begin(x) == calls' = calls \cup {x}
Goto(x, at) == calls' = (calls \ {x}) \cup {[x EXCEPT !.at = at]}
GotoThrowing(x, at) ==
  calls' = (calls \ {x}) \cup {[x EXCEPT !.at = at, !.throws = TRUE]}

(* What a call leaves its job in, on top of the jobs js.                   *)
Spent == [status |-> "over", attempts |-> 0]

(* Mutation: one attempt more than max_attempts.                           *)
EndOfOnceMore(x, js, throws) ==
  IF x.job = None THEN js
  ELSE [js EXCEPT ![x.job] =
          IF throws /\ @.attempts <= MaxAttempts THEN [@ EXCEPT !.status = "pending"]
          ELSE Spent]

EndOf(x, js, throws) ==
  IF x.job = None THEN js
  ELSE [js EXCEPT ![x.job] =
          IF throws /\ @.attempts < MaxAttempts THEN [@ EXCEPT !.status = "pending"]
          ELSE Spent]
End(x, js) == /\ calls' = calls \ {x}
              /\ jobs' = EndOf(x, js, x.throws)
Throw(x) == /\ calls' = calls \ {x}
            /\ jobs' = EndOf(x, jobs, TRUE)

-----------------------------------------------------------------------------
(* Requests of users and of the scheduler.                                 *)

(* Mutations: the gate forgets the crawl at work; it forgets the crawls    *)
(* that wait; the first monitor is not part of the reservation.            *)
StartGateIgnoresRemote(c) ==
  /\ crawls[c].state = "absent" /\ In({"queued"}) = {}
  /\ Insert(c, "starting")
  /\ jobs' = WithJob(jobs, Monitor(c, 0))
  /\ Begin(NewCall(c, None, "dispatching"))
  /\ UNCHANGED <<starts, faults>>
StartGateJumpsQueue(c) ==
  /\ crawls[c].state = "absent" /\ In(Occupying) = {}
  /\ Insert(c, "starting")
  /\ jobs' = WithJob(jobs, Monitor(c, 0))
  /\ Begin(NewCall(c, None, "dispatching"))
  /\ UNCHANGED <<starts, faults>>
StartGateUnmonitored(c) ==
  /\ crawls[c].state = "absent"
  /\ In(Occupying) = {} /\ In({"queued"}) = {}
  /\ Insert(c, "starting")
  /\ Begin(NewCall(c, None, "dispatching"))
  /\ UNCHANGED <<jobs, starts, faults>>

(* start_crawl under the instance lock: take the idle instance, with the   *)
(* first monitor in the same transaction.                                  *)
StartGate(c) ==
  /\ crawls[c].state = "absent"
  /\ In(Occupying) = {} /\ In({"queued"}) = {}
  /\ Insert(c, "starting")
  /\ jobs' = WithJob(jobs, Monitor(c, 0))
  /\ Begin(NewCall(c, None, "dispatching"))
  /\ UNCHANGED <<starts, faults>>

(* ... or wait in the queue, with a sweep behind it: ensureSweepScheduled  *)
(* has one fixed key per instance.  A full queue rejects without a change. *)
(* The scheduler's enqueueSystemCrawl always waits, and drains afterwards. *)
QueueRequest(c, system) ==
  /\ crawls[c].state = "absent"
  /\ system \/ In(Occupying) # {} \/ In({"queued"}) # {}
  /\ Cardinality(In({"queued"})) < QueueMaxDepth
  /\ Insert(c, "queued")
  /\ jobs' = WithJob(jobs, Sweep)
  /\ IF system THEN Begin(NewCall(c, None, "draining")) ELSE UNCHANGED calls
  /\ UNCHANGED <<starts, faults>>

Answer == {"started", "start failed"}

(* The remote start, called by the gate or by the starter: a receipt with  *)
(* a task id, or an error that leaves open whether the task runs.          *)
CallStart(x) ==
  /\ x.at \in {"dispatching", "calling"}
  /\ starts' = [starts EXCEPT ![x.crawl].called = @ + 1]
  /\ \E at \in Answer : Goto(x, at)
  /\ UNCHANGED <<order, crawls, jobs, faults>>

RecordStart(x) ==
  /\ x.at = "started"
  /\ RecordTask(x.crawl)
  /\ End(x, jobs)
  /\ UNCHANGED <<order, starts, faults>>

(* The catch branch of the gate: the UPDATE has no condition on the state. *)
GateStartFailed(x) ==
  /\ x.at = "start failed" /\ x.job = None
  /\ Move(x.crawl, State, "uncertain")
  /\ End(x, jobs)
  /\ UNCHANGED <<order, starts, faults>>

(* stop_crawl: the state is checked again by the UPDATE.  A receipt "idle" *)
(* ends the crawl at once, without a drain.                                *)
StopGate(c) ==
  /\ crawls[c].state \in {"running", "stopping"} /\ crawls[c].task
  /\ \E to \in {"cancelled", "stopping"} : Move(c, {"running", "stopping"}, to)
  /\ crawls' # crawls
  /\ UNCHANGED <<order, jobs, calls, starts, faults>>

(* runtime.crawl.dequeue: cancel what waits or is in doubt, then drain.    *)
Dequeue(c) ==
  /\ crawls[c].state \in {"queued", "uncertain"}
  /\ Move(c, {"queued", "uncertain"}, "cancelled")
  /\ Begin(NewCall(c, None, "draining"))
  /\ UNCHANGED <<order, jobs, starts, faults>>

-----------------------------------------------------------------------------
(* drainCrawlQueue, under the instance lock and in one transaction: cancel *)
(* what waited a day, and if the instance is free dispatch a starter for   *)
(* the head of the queue.  The sweep re-arms itself afterwards if crawls   *)
(* are left waiting.                                                       *)
TimedOut == {c \in In({"queued"}) : crawls[c].age = ADay}
CancelTimedOut(cs) ==
  [c \in Crawl |-> IF c \in TimedOut THEN [cs[c] EXCEPT !.state = "cancelled"]
                   ELSE cs[c]]
HeadOfQueue == Oldest(In({"queued"}) \ TimedOut)

Drain(x) ==
  /\ x.at = "draining"
  /\ crawls' = CancelTimedOut(crawls)
  /\ LET started == IF In(Occupying) = {} /\ HeadOfQueue # {}
                    THEN WithJob(jobs, Starter(CHOOSE c \in HeadOfQueue : TRUE))
                    ELSE jobs
     IN  End(x, IF x.job = Sweep /\ HeadOfQueue # {} THEN WithJob(started, Sweep)
                ELSE started)
  /\ UNCHANGED <<order, starts, faults>>

-----------------------------------------------------------------------------
(* Execution jobs: a worker claims one, and the handler reads the crawl.   *)

Claim(k) ==
  /\ jobs[k].status = "pending"
  /\ jobs' = [jobs EXCEPT ![k].status = "running", ![k].attempts = @ + 1]

(* A claim whose handler finds nothing to do.                              *)
ClaimForNothing(k) ==
  /\ jobs[k].status = "pending"
  /\ jobs' = [jobs EXCEPT ![k] = Spent]
  /\ UNCHANGED calls

RunMonitor(c, n) ==
  LET k == Monitor(c, n) IN
  /\ IF crawls[c].state \notin Live THEN ClaimForNothing(k)
     ELSE /\ Claim(k)
          /\ Begin(NewCall(c, k,
               CASE crawls[c].age >= TwoHours /\ crawls[c].task -> "expired"
                 [] crawls[c].age >= TwoHours /\ ~ crawls[c].task ->
                      "expired without task"
                 [] crawls[c].age < TwoHours /\ crawls[c].task -> "polling"
                 [] OTHER -> "waiting"))
  /\ UNCHANGED <<crawls, order, starts, faults>>

(* No receipt of the start yet: wait, or give it up.  The UPDATE asks for  *)
(* remote_task_id IS NULL and for no state.                                *)
AwaitReceipt(x) ==
  /\ x.at = "waiting"
  /\ IF x.job.n >= StartPolls
     THEN /\ IF crawls[x.crawl].task THEN UNCHANGED crawls
             ELSE Move(x.crawl, State, "uncertain")
          /\ Goto(x, "reconciling") /\ UNCHANGED jobs
     ELSE /\ End(x, WithJob(jobs, Monitor(x.crawl, x.job.n + 1)))
          /\ UNCHANGED crawls
  /\ UNCHANGED <<order, starts, faults>>

(* get_crawl_status: a terminal state, none yet, or an error.              *)
PollTerminal(x) ==
  /\ x.at = "polling"
  /\ \E to \in Over : Move(x.crawl, Live, to)
  /\ Goto(x, "draining")
  /\ UNCHANGED <<order, jobs, starts, faults>>

PollAgain(x) ==
  /\ x.at = "polling" /\ x.job.n < PollBound
  /\ End(x, IF crawls[x.crawl].state \in Live
            THEN WithJob(jobs, Monitor(x.crawl, x.job.n + 1)) ELSE jobs)
  /\ UNCHANGED <<crawls, order, starts, faults>>

PollFails(x) ==
  /\ x.at = "polling"
  /\ IF jobs[x.job].attempts >= MaxAttempts
     THEN /\ Move(x.crawl, Live, "uncertain")
          /\ GotoThrowing(x, "reconciling") /\ UNCHANGED jobs
     ELSE Throw(x) /\ UNCHANGED crawls
  /\ UNCHANGED <<order, starts, faults>>

(* autoStopCrawl, two hours after the request.                             *)
AutoStop(x) ==
  /\ \/ /\ x.at = "expired"
        /\ \/ Move(x.crawl, Occupying, "cancelled") /\ Goto(x, "draining")
           \/ Move(x.crawl, Occupying, "uncertain") /\ Goto(x, "reconciling")
     \/ /\ x.at = "expired without task"
        /\ Move(x.crawl, Occupying, "uncertain") /\ Goto(x, "reconciling")
  /\ UNCHANGED <<order, jobs, starts, faults>>

EnqueueReconcile(x) ==
  /\ x.at = "reconciling"
  /\ End(x, WithReconcile(jobs, x.crawl))
  /\ UNCHANGED <<crawls, order, starts, faults>>

-----------------------------------------------------------------------------
(* starter *)

RunStarter(c) ==
  LET k == Starter(c) IN
  /\ IF crawls[c].state # "queued" THEN ClaimForNothing(k)
     ELSE Claim(k) /\ Begin(NewCall(c, k, "selected"))
  /\ UNCHANGED <<crawls, order, starts, faults>>

(* The revalidation failed.                                                *)
RefuseStart(x) ==
  /\ x.at = "selected"
  /\ Move(x.crawl, {"queued"}, "cancelled")
  /\ Goto(x, "draining")
  /\ UNCHANGED <<order, jobs, starts, faults>>

(* Under the instance lock; "instance_busy" ends the job as a success.     *)
Adopt(x) ==
  /\ x.at = "selected"
  /\ IF In(Occupying) = {} /\ crawls[x.crawl].state = "queued"
     THEN /\ Move(x.crawl, {"queued"}, "starting")
          /\ Goto(x, "monitoring") /\ UNCHANGED jobs
     ELSE End(x, jobs) /\ UNCHANGED crawls
  /\ UNCHANGED <<order, starts, faults>>

FirstMonitor(x) ==
  /\ x.at = "monitoring"
  /\ Goto(x, "calling")
  /\ jobs' = WithJob(jobs, Monitor(x.crawl, 0))
  /\ UNCHANGED <<crawls, order, starts, faults>>

(* Mutation: a start that failed goes back to the queue for the retry.     *)
StarterRequeues(x) ==
  /\ x.at = "start failed" /\ x.job # None
  /\ Move(x.crawl, {"starting"}, "queued")
  /\ Throw(x)
  /\ UNCHANGED <<order, starts, faults>>

(* The catch branch of the starter: uncertain, to be reconciled, and the   *)
(* job fails.                                                              *)
StarterFailed(x) ==
  /\ x.at = "start failed" /\ x.job # None
  /\ Move(x.crawl, {"starting"}, "uncertain")
  /\ GotoThrowing(x, "reconciling")
  /\ UNCHANGED <<order, jobs, starts, faults>>

-----------------------------------------------------------------------------
(* reconcile *)

RunReconcile(c, n) ==
  LET k == Reconcile(c, n)
      task == crawls[c].task
      age == crawls[c].age IN
  /\ IF crawls[c].state # "uncertain" THEN ClaimForNothing(k)
     ELSE /\ Claim(k)
          /\ Begin(NewCall(c, k,
               CASE age = ADay \/ (~ task /\ age >= AnHour) -> "abandoning"
                 [] age # ADay /\ task -> "checking"
                 [] OTHER -> "requeueing"))
  /\ UNCHANGED <<crawls, order, starts, faults>>

Abandon(x) ==
  /\ x.at = "abandoning"
  /\ Move(x.crawl, {"uncertain"}, "failed")
  /\ Goto(x, "draining")
  /\ UNCHANGED <<order, jobs, starts, faults>>

(* No task id, or the remote is still at work: check again later.  The     *)
(* executing job still is "running" when its successor is enqueued.        *)
ReconcileLater(x) ==
  /\ x.at \in {"requeueing", "checking"}
  /\ End(x, WithReconcile(jobs, x.crawl))
  /\ UNCHANGED <<crawls, order, starts, faults>>

ReconcileTerminal(x) ==
  /\ x.at = "checking"
  /\ \E to \in Over : Move(x.crawl, {"uncertain"}, to)
  /\ Goto(x, "draining")
  /\ UNCHANGED <<order, jobs, starts, faults>>

(* The check itself failed: swallowed, nothing is enqueued.                *)
ReconcileFails(x) ==
  /\ x.at = "checking"
  /\ End(x, jobs)
  /\ UNCHANGED <<crawls, order, starts, faults>>

-----------------------------------------------------------------------------
(* sweep: cancel what waited a day, put a stalled start back, drain.       *)
RunSweep ==
  /\ Claim(Sweep)
  /\ crawls' = [c \in Crawl |->
                  IF /\ crawls[c].state = "starting"
                     /\ ~ crawls[c].task /\ crawls[c].stalled
                  THEN [crawls[c] EXCEPT !.state = "queued", !.stalled = FALSE]
                  ELSE CancelTimedOut(crawls)[c]]
  /\ Begin(NewCall(None, Sweep, "draining"))
  /\ UNCHANGED <<order, starts, faults>>

-----------------------------------------------------------------------------
(* The environment.                                                        *)

(* created_at recedes; an older crawl is never the younger one.            *)
GrowOld(c) ==
  /\ crawls[c].state \notin {"absent"} \cup Over /\ crawls[c].age < ADay
  /\ \A d \in Crawl : Older(d, c) =>
       crawls[d].state \in Over \/ crawls[d].age > crawls[c].age
  /\ crawls' = [crawls EXCEPT ![c].age = @ + 1]
  /\ UNCHANGED <<order, jobs, calls, starts, faults>>

(* Half an hour in starting: a remote call times out long before that      *)
(* (thirty seconds, mcp/remote.ts), so no process still works on the start. *)
Starting(c) == \E x \in calls :
  /\ x.crawl = c
  /\ x.at \in {"dispatching", "started", "start failed", "monitoring", "calling"}
Stalls(c) ==
  /\ crawls[c].state = "starting" /\ ~ crawls[c].stalled
  /\ ~ Starting(c)
  /\ crawls' = [crawls EXCEPT ![c].stalled = TRUE]
  /\ UNCHANGED <<order, jobs, calls, starts, faults>>

(* The process of a call dies.  A request is gone; a job is put back by    *)
(* the lease recovery while attempts are left.                             *)
Crash(x) ==
  /\ faults < MaxFaults
  /\ faults' = faults + 1
  /\ Throw(x)
  /\ starts' = IF x.at \in Answer THEN [starts EXCEPT ![x.crawl].cut = @ + 1]
               ELSE starts
  /\ UNCHANGED <<crawls, order>>

-----------------------------------------------------------------------------
RunJob ==
  \/ \E c \in Crawl : \/ RunStarter(c)
                      \/ \E n \in 0..PollBound : RunMonitor(c, n)
                      \/ \E n \in 0..ReconcileBound : RunReconcile(c, n)
  \/ RunSweep

Step(x) ==
  \/ CallStart(x) \/ RecordStart(x) \/ GateStartFailed(x) \/ StarterFailed(x)
  \/ Drain(x)
  \/ AwaitReceipt(x) \/ PollTerminal(x) \/ PollAgain(x) \/ PollFails(x)
  \/ AutoStop(x) \/ EnqueueReconcile(x)
  \/ RefuseStart(x) \/ Adopt(x) \/ FirstMonitor(x)
  \/ Abandon(x) \/ ReconcileLater(x) \/ ReconcileTerminal(x) \/ ReconcileFails(x)

Next ==
  \/ \E c \in Crawl : \/ StartGate(c)
                      \/ \E system \in BOOLEAN : QueueRequest(c, system)
                      \/ StopGate(c) \/ Dequeue(c)
                      \/ GrowOld(c) \/ Stalls(c)
  \/ RunJob
  \/ \E x \in calls : Step(x) \/ Crash(x)

Spec == Init /\ [][Next]_vars

(* Workers take every pending job, a process that does not die finishes    *)
(* its calls, and time passes.  Users need not do anything.                *)
RunJobOf(c) == \/ RunStarter(c)
               \/ \E n \in 0..PollBound : RunMonitor(c, n)
               \/ \E n \in 0..ReconcileBound : RunReconcile(c, n)
Fairness ==
  /\ WF_vars(RunSweep)
  /\ \A c \in Crawl : /\ WF_vars(RunJobOf(c))
                      /\ WF_vars(\E x \in calls : x.crawl = c /\ Step(x))
                      /\ WF_vars(GrowOld(c))
                      /\ WF_vars(Stalls(c))
  /\ WF_vars(\E x \in calls : x.crawl = None /\ Step(x))

FairSpec == Spec /\ Fairness

-----------------------------------------------------------------------------
(* Properties.                                                              *)

(* At most one crawl of the instance is starting, running or stopping:     *)
(* the start gate, the starter's adoption, the sweep's revival and late    *)
(* receipts never let a second one in while the first is there.            *)
AtMostOneLive == \A c, d \in In(Live) : c = d

(* First in, first out: a crawl starts only when no older crawl waits.     *)
(* The gate looks at the queue; the starter does not when it adopts, and   *)
(* was dispatched by an earlier drain.                                     *)
FifoStart ==
  [][\A c \in Crawl :
       (crawls[c].state # "starting" /\ crawls'[c].state = "starting")
         => ~ \E d \in In({"queued"}) : Older(d, c)']_vars

(* start_crawl is called once per crawl, through retries of the starter,   *)
(* late receipts and revivals by the sweep, and once more for each of its  *)
(* calls whose process died before it recorded the answer: only then does  *)
(* the crawl look as if it had never been started, and a retry dispatch it *)
(* again against the comment of the starter (runtime-gates.ts:481-482).    *)
StartedOnceUnlessCut == \A c \in Crawl : starts[c].called <= 1 + starts[c].cut

(* The reserved crawl and its first monitor commit together: a crawl that  *)
(* took the idle instance does not stay in starting, even if the process   *)
(* that called the remote dies before it recorded the outcome.             *)
GateStartResolves ==
  \A c \in Crawl :
    (crawls[c].state = "starting" /\ jobs[Starter(c)].status = "absent")
      ~> (crawls[c].state # "starting")
=============================================================================
