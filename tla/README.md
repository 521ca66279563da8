# TLA+ models of the KOL backend

This directory holds TLA+ specifications of the parts of the backend
(`src/backend/src`) whose correctness depends on interleavings, failures and
time: the durable execution jobs and their transport, the queue of the remote
crawler, the cron runs, the review engine with its timeouts, the sending of
mail, the confirmed writes of agents, the runs of a task, and the publication
of knowledge.  TLC model-checks them on small instances; TLAPS proves the
safety properties of each of them for every value of the constants.

`tlc -workers 2 -config Jobs.cfg MCExecutionJobs` runs one of the
configurations of the table in section 3, `tlapm MailSendProofs.tla` checks the
proofs of one module.

## 1. The system

The backend is a TypeScript API server with resident processes beside it, over
one PostgreSQL database, one Redis with BullMQ, and remote MCP servers.

```
 API routes ──┐                                  ┌── worker:execution (N)
 cron tick  ──┼─ transaction ─> execution_jobs ──┤   claim, handler, receipt
 handlers   ──┘      and        execution_outbox │   tick: recover leases
                                     │           │
                          worker:outbox (N) ── BullMQ (message = outbox row)
```

Nothing that matters is carried by the message: it names a job, and the row in
PostgreSQL decides.  Every other subsystem with asynchronous work (crawler,
cron, planning, mail synchronisation, knowledge publication, review timeouts)
is a job type with a handler.

| Component | State | Operations | Hard because | Correct when | Module |
|---|---|---|---|---|---|
| Job store, dispatcher, execution worker, operator routes | `execution_jobs`, handler calls in memory | enqueue, claim, renew, checkpoint, complete, fail, recover leases, retry, cancel | lost leases, crashes, calls that outlive their claim, failing statements | attempts within budget, no replay of high-risk effects, ownership only while running, no worker completes another's claim, every job ends | `ExecutionJobs`, `JobLedger` |
| Outbox publisher, BullMQ | `execution_outbox`, broker | claim rows, add, mark, back off | two publishers, crash between add and mark, silent deduplication | no waiting job without a row or message | `Outbox` |
| Crawl queue | `runtime_crawl_jobs`, four job types | start and stop gates, system request, dequeue, drain, starter, monitor, reconcile, sweep | every remote call may fail in doubt; late receipts; crashes | one crawl at a time, FIFO, a second start only after a crash, starts by the gate resolve | `CrawlQueue` |
| Cron | `cron_jobs`, `cron_runs`, one execution job per run | tick, run now, PATCH, start, finish, report, take over | recovered leases, retries, takeover racing completion, stale reads | handler once per run, no slot skipped, runs settle | `CronRuns` |
| Runtime actions | `runtime_actions` with a snapshot and versions | propose, confirm (claim under versions), dispatch, finish | several executions of one action; grants that change between check and claim; a lease lost or a process dead while dispatching; a gate that queues instead of sending | one remote write per action, "rejected" only if no request was sent | `RuntimeActions`, `Effect` |
| Mail send confirmation | `drafts`, `mail_send_attempts`, `reply_send_basis` | confirm, bind, claim, load, recheck, send, record | crash after the claim, replayed request, mail that comes in, edits under way | at most one mail per draft, a refused one never goes out | `MailSend`, `Effect` |
| Review engine and timeouts | `review_instances` with a version, `review.timeout` jobs | decide, complete, transfer, countersign, amend, resubmit, withdraw, retry, time out | stale requests, timers racing decisions, people who leave, second rounds | no decision lost or taken back, approval earned at every node, somebody always has the task | `ReviewEngine`, `Review` |
| Task runs: tickets, tasks, Host sessions | `tickets`, `task_runs`, the Host's memory of asks | send, admit, queue, launch, finish, stop, accept, reopen, acknowledge, recover at boot | late ends of turns, two asks of one run, action outcomes after the turn, writers that look at no status, restarts | nothing that ended is revived, completed has its receipt, who runs has somebody at work | `TaskRuns` |
| Knowledge publication, scopes | documents, applications, confirmations, publication jobs | confirm, apply, decide, execute, recover, save scope, archive | high-risk job of unknown fate, second confirmation, competing revisions | only the approved material, over the version it was made from; nothing stays frozen | `KnowledgePublication` |
| Crawl results and deduplication | result rows | collect, retry collection | partial failure | results once per ended crawl | — |
| Approval plan, queue, WeCom | approvals and callbacks | submit, approve, call back | duplicated callbacks | fulfilled once | — |
| Mail synchronisation | cursors per mailbox | sync with checkpoints | cancel at a checkpoint | no gap between cursor and facts | job type only |
| Creator ownership and import | ownership rows | claim, release, import | two employees, remote authority | one owner | — |
| Stages | stage graph | advance | one transaction per request | legal transitions only | — |
| Agents, skills, ontology, connectors, auth, reports, frontend | catalogues | — | no concurrency beyond a transaction | — | — |

`PROJECT.json` lists every component with its files, and every hazard met
while reading, at its line, with the property that covers it or the reason
why none does.

## 2. Modules

```
 Outbox <─EXTENDS─ ExecutionJobs ──INSTANCE──> JobLedger <──INSTANCE── CronRuns
                     ^       ^
     MCExecutionJobs ┘       └ ExecutionJobsProofs

 RuntimeActions ──INSTANCE──> Effect <──INSTANCE── MailSend
        ^                        ^                    ^
 RuntimeActionsProofs           └──── INSTANCE ──MailSendProofs

 ReviewEngineProofs ──> ReviewEngine ──INSTANCE──> Review

 CronRuns            TaskRuns            KnowledgePublication         CrawlQueue
    ^                   ^                        ^                        ^
 CronRunsProofs    TaskRunsProofs    KnowledgePublicationProofs    CrawlQueueProofs
```

`JobLedger`, `Effect` and `Review` are abstract: what a component promises, in
a page.  Every other module follows the code, and every one has an MC module
with its model values.

**Outbox** — the rows of `execution_outbox` by idempotency key, the publishers'
leases and memory, and the broker.  A row is pending or retrying when it is in
`rows` and neither claimed nor published; `ready` says that `available_at` has
passed.  `ClaimOutboxRow`, `QueueAdd`, `MarkPublished` and `PublishFails` are
the four steps of `drainOnce`, separated because a publisher may die between
any two and another one may take the row over once the lease ran out (a claim
of a claimed row is always enabled: leases run out at any time).  BullMQ is
external: a set of waiting messages, a set of active ones, and the set of ids
it retains, for which `add` is a no-op.  `Stall` redelivers a message of a
consumer that stopped renewing its lock, `Forget` drops a completed id after
its retention.

**ExecutionJobs** — the rows of `execution_jobs` and the handler calls in the
workers' memory.  An action is one SQL statement or one transaction.  What a
call remembers between two of them is a record in `handlers` (job, worker,
attempt, message, phase); `phase` says where in
`dispatchClaimedExecutionJobInner` it is.  Time is two booleans per job: `due`
(`next_attempt_at` has passed) and `lease` (held or over).  `KindOf` assigns
each job one of three ways in which the branches of the dispatcher end:
`checked` (registered handlers and `mail.sync`: checkpoint, then a completion
that names the worker), `planned` (planning jobs and `review.timeout`: no
checkpoint, completion names the worker) and `unfenced` (`cron.run` and the
`work_order` jobs: completion names no worker, and neither does the failure of
a malformed payload).  `history` is a history variable: the worker that claimed
each attempt, and the attempt whose receipt a succeeded job carries.  `dropped`
records messages lost to a failing claim query.

**JobLedger** — what a job promises, as one record per job with status,
attempts, max and risk, and eight kinds of step (accept, start, succeed, give
up, try again, doubt, withdraw, reopen).  `ExecutionJobs` implements it under
the mapping that forgets owners, leases, messages and handlers; `CronRuns`
implements it too, with the slot as job.

**CrawlQueue** — `runtime_crawl_jobs` of one crawler instance, the jobs that
drive it, and the calls in flight.  Whatever runs under the instance's advisory
lock, or is one transaction, is one action; each remote call, and each
statement after one, is an action of its own.  `calls` holds the position of
every handler and request between two actions.  `starts` is a history variable:
how often `start_crawl` was called for a crawl, and how many of these calls a
crash cut off before they recorded the answer.  Execution jobs are reduced to
what `ExecutionJobs` grants: inserted once per key, one handler call at a time,
back to pending while attempts are left.  This reduction is an assumption, and
the run JobsFence shows a way in which it can fail.

**CronRuns** — one cron job with its schedule of one slot per unit of time, its
runs, and the execution job of each run.  `edits` holds what a PATCH computed
from its read until it writes; `stale` holds the runs older than the take-over
deadline; `calls` the `executeClaimedCronJob` calls.

**Effect** — one write to the outside world: open, claimed, then done, refused
or doubtful, with `sent` (a request may be on its way) and `times` (how often
it happened); an effect within the program's own tables happens as it is
attempted (`Perform`).  It happens at most once, done means it happened,
refused means it never will.

**RuntimeActions** — one row of `runtime_actions`, its `runtime.confirm` job and
the executions of it.  `binding` is one version number for all that the claim
compares (connector, grants, tool, policy, schema, credentials); 0 is what the
snapshot was taken of.  An execution is in one phase of `SkillExecution.call`:
checked, claimed, sent, answered, or on one of its ways out.  `QueueCrawl` is
the gate of `start_crawl` that finds the crawler busy: it commits a queued crawl
and answers for it with no request sent, and `StartQueuedCrawl` is the starter
that takes this crawl up later, whatever the action says by then.  What happens
between the two is `CrawlQueue`'s matter, and so is a crash in the gate of an
idle crawler, after it has reserved the instance: its sweep puts the crawl into
the queue.  `stop_crawl` always calls the remote.  `Direct` are executions that
call `SkillExecution.confirm` without a job. The resident program has none of
these; they are what `waitForRuntimeActionTerminal` and the test at
`tests/skill-runtime-execution.test.ts:515` are about, and without them the
claim would have nobody to compete with.  The job is high risk with one attempt,
so neither recovery nor the operator's retry brings it back.

**MailSend** — one draft with its attempt, the basis of each request and what
the user saw when confirming (`token`, a history variable).  A call of the send
route is in one of eleven phases between `Open` and its return; `revising` is
the chat turn that has read the draft and not yet written it.  `wire` and
`accepted` are the provider.

**ReviewEngine** — one instance under one published form.  The walk
(`advanceReview`), the decisions and the operations are operators on an
instance; a request computes the next instance from the row it read (`Hold`
keeps it in `sessions`) and `Commit` writes it if the version is unchanged;
`HandleTimeout` is one action because the worker locks the row.  Forms are
sequences of `FormNode`s whose lists name nobody twice (`validateDefinition`
and `advanceReview` see to it); `ValidateDefinition` chooses those of `Drafts`
that may be published.  `Walk` and `Among` are recursive functions, not
RECURSIVE operators, so that they can be reasoned about; what may be published
(`Bypass`) and the route of the values (`Route`) are stated with sets of nodes
and no recursion at all.  A deadline carries the number of the task it was set
for, which is what tells a reset one from one that was handed on.

**Review** — ballots are cast, one per person, step and round; a later round
starts anew; the outcome is final, and rests on a ballot of the last round.

**TaskRuns** — one task in one session.  `runs` are its `task_runs` rows, `asks`
the messages the Host works on (a phase each, from `checking` to `gone`),
`running`, `stopped` and `queue` the session's run control, `acts` the
controlled action an ask proposed, `toSync` the outcomes of actions that
`syncRuntimeTaskState` has not carried over yet.  `Finish` reads what
`FinishCommit` writes (inside one transaction, which locks the ticket and the
run, while the rows of actions are read without a lock).  `MoveRun` is the
common form of the writers of a bound task.  Its last statement looks for the
latest run by a snapshot that may be older than the lock it waited for: it may
miss runs that were created meanwhile (`Seen`).  Two writers have no condition
on what they overwrite: `RefuseTemplate`, the template branch of
`resolveBoundTask`, and `IllegalVerb` with `FailEveryRun`, the two statements
of `failKolAnalyzeIllegalVerb`.  The verdict on a verb is given in several places,
the end of a run among them; it may come at any time here, once per
behaviour.  `Restart` fails the runs that run, or passes over the task
(`skipped`), since the recovery skips a locked row.

**KnowledgePublication** — the versions of one document, their applications with
the decision of the review, the confirmations, the publication jobs of each
application and the handler calls of the workers.  A material is its revision
number, raised by `SaveScope`.  `Decide` is the decision together with the
triggers of migration 026 that enqueue the job in the same transaction.
`RecoverPublication` starts another job after the one whose fate is unknown,
for any administrator.

### Correspondence

`PROJECT.json` maps every definition to its lines.  The main entries:

| Code | Actions |
|---|---|
| `pgEnqueueExecutionJob` | `Enqueue` |
| `pgClaimExecutionJobById` by a consumer | `ClaimJob`, `DuplicateMessage`, `ClaimFails` |
| renewal timer | `Renew` |
| checkpoint, completion | `Checkpoint`, `Complete` |
| catch branch, `pgFailExecutionJob` | `HandlerThrows`, `FailWrite`, `MalformedFail`, `FailWriteThrows` |
| `pgRecoverExpiredExecutionJobs` | `RecoverExpired` |
| `POST /jobs/:id/retry`, `/cancel` | `ManualRetry`, `Cancel` |
| start gate | `StartGate` or `QueueRequest`, `CallStart`, `RecordStart` or `GateStartFailed` |
| `drainCrawlQueue` | `Drain` |
| `starterHandler` | `RunStarter`, `RefuseStart`, `Adopt`, `FirstMonitor`, `CallStart`, `RecordStart`, `StarterFailed` |
| `monitorRuntimeCrawl`, `autoStopCrawl` | `RunMonitor`, `AwaitReceipt`, `PollTerminal`, `PollAgain`, `PollFails`, `AutoStop`, `EnqueueReconcile` |
| `reconcileHandler`, `sweepHandler` | `RunReconcile` ... `ReconcileFails`, `RunSweep` |
| `pgTickCronDue` | `Tick` |
| PATCH of a cron job | `EditReads`, `EditWrites` |
| `executeClaimedCronJob` | `StartRun`, `HandlerEnds`, `FinishRun`, `Report`, `StatementFails` |
| `SkillExecution.call` of a confirmed action | `ReadAction`, `FailBeforeClaim`, `ClaimRuntimeAction`, `WaitForTerminal`, `QueueCrawl` or `Dispatch`, `FinishRuntimeAction`, `FailAfterClaim` |
| `runtime.confirm` handler and dispatcher | `StartJob`, `EndJob`, `LoseLease` |
| `POST /drafts/:id/send` | `Open`, `SetDraftStatus`, `BindCheck`, `Bind`, `Claim`, `SyncEmailCardFails` |
| `sendDraft` | `Load`, `Recheck`, `RejectStale`, `Dispatch`, `Answer`, `Fail`, `CompleteMailSend`, `MarkUnknown` |
| `patchDraftFromSnapshot`; PATCH of a draft | `BeginRevision`, `EndRevision`; `Patch` |
| `advanceReview`, `decideReview` | `AdvanceReview` with `Walk`, `Decide` |
| `applyReviewOperation`, `reassignTask` | `Complete`, `Reassign`, `Countersign`, `RequestAmendment`, `Resubmit` |
| `execute` of a review command | `Judge` ... `Retry`, then `Commit` or `GiveUp` |
| `review.timeout` | `SkipTimeout`, `HandleTimeout`, `FailTimeout` |
| `transitionTicket`; `POST /tasks/:id/runs`, `/acknowledge` | `TransitionTicket`; `CreateRun` or `AskForClarification`, `AcknowledgeTask` |
| message route, `launchAsk`, `finishBoundTask` | `SendMessage`, `RefuseTemplate`, `Admit`, `QueueBoundTask`, `Launch`, `StartBoundTask`, `PreparationFails`, `WorkEnds`, `FinishCommit`, `AfterRun` |
| `failKolAnalyzeIllegalVerb` | `IllegalVerb`, `FailEveryRun` |
| `failInterruptedTaskRuns` | `Restart` |
| `preparePublication`, `submitPublication` | `PreparePublication`, `SubmitPublication` |
| `executePublication` | `Claim`, `ExecutePublication`, `InfrastructureFails`, `CompleteJob` |
| `prepareRecovery`, `recoverPublication` | `PrepareRecovery`, `RecoverPublication` |

## 3. What is checked

| Run | Question | States |
|---|---|---|
| Jobs | Is a waiting job ever without a dispatch, can a worker complete what another one owns by now, does every job end, is the ledger implemented? | 617 k |
| CrawlSafety | Is there one live crawl, first in first out? | 4.1 M |
| CrawlOneCrawl | Does a start by the gate resolve, and is the remote started once but for calls that a crash cut off? | 84 k |
| Cron | Is a handler called once, do the jobs follow the ledger, does every run settle, and is no slot skipped? | 418 k |
| ReviewRequests | With two requests at a time, is a decision ever lost, revived or doubled? | 263 k |
| ReviewDeep | After up to six commands: does a review wait for somebody, was an approval earned, is an overdue task handled? | 231 k |
| MailSend | Is a draft mailed at most once, a refused request never, and does a send end? | 288 k |
| ActionConfirm | Is a confirmed write one external effect, and does its job say so truthfully? | 62 k |
| TaskRuns | Can anything late revive or complete a run that ended, or a task be completed without a receipt, and does somebody work on every running run? | 2.3 M |
| Publication | Does a version replace only what it was made from, does its receipt say so, and is a decided application closed? | 1.6 M |
| JobsFence | Does the checkpoint keep a late call from completing a newer attempt?  Not within one worker process (section 5). | — |
| TaskStranded | Can a task be left running with nothing that goes on?  It can (section 5). | — |

### Properties

* `DispatchCovered`: the four families of outbox keys never collide for a
  waiting job, and a message is never consumed while its job still needs it.
  Holds with the exception of a message whose claim query threw.
* `FencedBetweenWorkers`: a receipt is written by the worker whose lease it
  ends.  `AttemptFenced` says the same of single calls, and is violated.
* `EveryJobSettles`: an accepted job reaches a terminal status, with the same
  exception as `DispatchCovered`.
* `ImplementsLedger`, `JobsFollowLedger`: refinements of `JobLedger`: attempts
  within budget, no replay of a high-risk effect, nothing after an end.
* `AtMostOneLive`, `FifoStart`, `GateStartResolves`.  `StartedOnceUnlessCut`
  counts the starts of a crawl against the calls that a crash cut off; such a
  crash does start a crawl twice (section 5).
* `HandlerRunsOnce`, `NoSlotSkipped`.  `RunsSettle`: a run that started ends or
  is taken over; one that is queued also may be left to a person, when its job
  failed or is in doubt.  One formula says both, because a run that started is
  never queued again, which is the theorem `StartedForGood`.
* `KeepsReviewPromise`: refinement of `Review`.  `OpenTasksAreCurrent`,
  `NoDoubleTask`, `SomebodyMustAct`: the task list after any mixture of
  transfers, countersignatures, escalations, retries and second rounds.
  `ApprovalIsEarned`: recomputes the route of the form and asks every node on
  it for its rule, independently of how the walk got there.
  `OverdueIsHandled`: no overdue task is left, however it was handed out.
* `MailIsOneEffect`, `ActionIsOneEffect`: refinements of `Effect`.
  `AtMostOneMail`, `RejectedNeverSent`, `SendSettles`; `JobTellsTheTruth`,
  `ClaimSettles`.  For a crawl that was queued instead of requested the
  refinement is the weaker for a named case: a rejected action that left one
  is mapped to an effect in doubt (section 5).
* `NoRunRevived`: of a run that is over at most the word failed is written.
  `CompletedHasReceipt`.  `RunningRunHasAsk`: nobody looks for a run that nobody
  works on, so there must be none between two restarts, but for those that the
  recovery at boot passed over.  `RunningTaskHasRun` is violated.
* `ReplacesWhatItExpected` (an action property of three tables),
  `InForceHasReceipt` (of the two calls that a recovery may set to work on one
  application), `DecidedIsClosed`.

The definitions whose comment begins with "Mutation" are variants of a
definition with a plausible bug; with one of them in the place of the original
the named property fails in the named run, which shows that the run is able to
see the bug.

### Bounds

* Jobs: one job, because jobs meet only in `deduplicate_active` and in the
  choice of the rows one recovery locks; two workers of two slots, since the
  hazards are about the old and the new owner; every risk, every kind of
  handler, `MaxAttempts` 1 and 2, `RetryBound` 1 (an operator retries while at
  most one attempt is spent), one fault.  `Dedup` is empty; the proofs hold for
  every `Dedup`.
* CrawlSafety: two crawls are enough for a second one to come in or to jump the
  queue; one day is one step of `age` there.  CrawlOneCrawl has one crawl, two
  attempts per job, monitors 0 to 2 and two crashes.  A monitor at `PollBound`
  finds a terminal state, or fails: the remote crawl ends at last.  The limits
  of an hour and of two hours coincide; a day is one or two steps.
* Cron: one scheduled and one manual slot, two workers, one editor who changes
  the title, one fault.  With one scheduled slot the two policies coincide, so
  one of them is enough; that replay catches up over any number of slots is the
  theorem `NoSlotSkippedAlways`.
* ReviewRequests and ReviewDeep share four drafts: a joint node with
  countersignature, reminder, copy and handler; an any-of node with all-reject,
  transfer and escalation; a branching form with a sequential node and
  amendments; and one that bypasses every review, which must not be published.
  Three reviewers and the requester, one departure or return, two rounds.
  `MaxTask` (8) is a guard of every step that makes tasks (`Fits`) and never
  bites there.  The
  first run has two requests at a time and three commands, enough for any two
  to cross; the second has one at a time and six, enough for a transfer, a
  countersignature and a second round together.
* MailSend: two confirmations (a first and a renewed one), two calls (of one or
  of two requests), one edit, one incoming mail, one restart.  One text, since
  the properties tell edits apart by the draft's revision.
* ActionConfirm: three executions, one of them of the job; the third can wait
  for, overtake or outlive the other two.  One change of grants, one crash.
* TaskRuns: two asks and two runs, so that an ask may be late for a newer run or
  run the same one; one command of the user, verdict or restart.
* The violation runs have the least of everything that their trace needs: one
  worker with two slots; one ask and one run.
* Publication: two versions (a revision beside the version it is made from),
  two applications, three confirmations (two to submit and one to recover),
  one edit, two faults.

Symmetry is used only in runs without liveness (workers, crawls, requests).
All configurations switch the deadlock check off: the bounds let every
behaviour come to its end, where nothing is left to do.

### Fairness

* ExecutionJobs: weak fairness of the clock (`BecomesDue`), of the publishers'
  loop (`runOutboxPublisher` polls for ever), of handler calls (a call ends),
  of recovery (`setInterval` in every worker), and of a lease that nobody
  renews.  Strong fairness of the delivery of a job's messages: a slot of a
  consumer is not always free, but is so again and again, and BullMQ delivers
  in order.  Cancels, retries, crashes and failing statements are not fair.
* CrawlQueue: workers take pending jobs, a live process finishes its calls,
  and time passes.  Users need do nothing.
* CronRuns: the clock, the resident ticker, message delivery, the calls of a
  live worker and the recovery of unattended leases.  The take-over skips rows
  that are locked (`SKIP LOCKED`), but comes again with every tick, and no
  transaction of the program holds the row of a run for ever: a tick that takes
  a stale run over is fair for each run (`TakesOver`).
* ReviewEngine: the dispatcher gets to a `review.timeout` job that is due.
  Nobody has to answer, and no deadline has to pass.
* MailSend, RuntimeActions: a call that has started runs on, and an exchange
  with the remote ends (both clients have time limits); crashes are exceptions
  that `SendSettles` and `ClaimSettles` name.  Users need do nothing.
* TaskRuns, Review, JobLedger, Effect: none; their properties are about safety.
* KnowledgePublication: workers claim, calls end, and leases of dead workers
  are recovered.  Administrators need do nothing.

## 4. What is proved

From the named assumptions on the constants only (`OutboxAssumption`,
`JobsAssumption`, `CronAssumption`, `MailAssumption`, `ActionAssumption`,
`TaskRunsAssumption`, `PublicationAssumption`, `CrawlAssumption`,
`ReviewAssumption`), for every set of jobs, workers, publishers, slots, editors,
executions, texts, requests, calls, asks, versions, confirmations, crawls,
people, forms and sessions, and every bound (one theorem has a hypothesis of
its own, which the table names):

| Module | Theorem | States |
|---|---|---|
| ExecutionJobsProofs | `TypeCorrect` | `Spec => []TypeOK` |
| | `OwnedIffRunningAlways` | an owner and a lease exactly while running |
| | `AttemptsBoundedAlways` | never more starts than `max_attempts` |
| | `HighRiskStartsOnceAlways` | a high-risk job starts at most once |
| | `LedgerImplemented` | `Spec => ImplementsLedger` |
| | `DispatchCoveredAlways` | `Spec => []DispatchCovered` |
| | `FencedBetweenWorkersAlways` | `Spec => []FencedBetweenWorkers`, whatever `Concurrency` is |
| CrawlQueueProofs | `TypeCorrect` | `Spec => []TypeOK` |
| | `AtMostOneLiveAlways` | `Spec => []AtMostOneLive` |
| | `FifoStartAlways` | `Spec => FifoStart` |
| | `StartedOnceUnlessCutAlways` | `Spec => []StartedOnceUnlessCut` |
| RuntimeActionsProofs | `TypeCorrect` | `Spec => []TypeOK` |
| | `JobTellsTheTruthAlways` | `Spec => []JobTellsTheTruth` |
| | `ActionIsOneEffectAlways` | `Spec => ActionIsOneEffect` |
| MailSendProofs | `TypeCorrect` | `Spec => []TypeOK` |
| | `AtMostOneMailAlways` | `Spec => []AtMostOneMail` |
| | `RejectedNeverSentAlways` | `Spec => []RejectedNeverSent` |
| | `MailIsOneEffectAlways` | `Spec => MailIsOneEffect` |
| | `EffectIsSafe` | what an effect promises, from `Effect!Spec` |
| ReviewEngineProofs | `TypeCorrect` | `Spec => []TypeOK` |
| | `OpenTasksAreCurrentAlways` | `Spec => []OpenTasksAreCurrent` |
| | `NoDoubleTaskAlways` | `Spec => []NoDoubleTask` |
| | `SomebodyMustActAlways` | `Spec => []SomebodyMustAct` |
| | `ApprovalIsEarnedAlways` | `Spec => []ApprovalIsEarned` |
| | `ReviewPromiseKept` | `Spec => KeepsReviewPromise` |
| CronRunsProofs | `TypeCorrect` | `Spec => []TypeOK` |
| | `HandlerRunsOnceAlways` | `Spec => []HandlerRunsOnce` |
| | `LedgerImplemented` | `Spec => JobsFollowLedger` |
| | `StartedForGood` | a run that started is never queued again |
| | `NoSlotSkippedAlways` | `Spec => []NoSlotSkipped`, if no edit pauses, publishes or reschedules |
| TaskRunsProofs | `TypeCorrect` | `Spec => []TypeOK` |
| | `NoRunRevivedAlways` | `Spec => NoRunRevived` |
| | `CompletedHasReceiptAlways` | `Spec => []CompletedHasReceipt` |
| | `RunningRunHasAskAlways` | `Spec => []RunningRunHasAsk` |
| KnowledgePublicationProofs | `TypeCorrect` | `Spec => []TypeOK` |
| | `InForceHasReceiptAlways` | `Spec => []InForceHasReceipt` |
| | `ReplacesWhatItExpectedAlways` | `Spec => ReplacesWhatItExpected` |
| | `OneInForceAlways` | at most one version of a document is in force |

*Types.* One lemma per action or group of actions, combined by the cases of
`Next`.

*Budgets and ownership.* `AttemptsBounded` alone is not inductive: a claimable
job with its attempts used up would break it at its next claim.  The
strengthening `JobOK` adds that a claimable job has attempts left (strictly
below `max`, and none spent for a high-risk one), and how owner and lease
depend on the status.  The proof goes by rows: `Transition(old, new)` lists the
ways in which a single row can change, a lemma per action shows that it makes
only such changes, and the invariant and the refinement follow from
`Transition` alone.

*Refinement of the ledger.* `View` forgets all but status, attempts, max and
risk; each disjunct of `Transition` is a `Move` of the ledger or leaves the
view as it is.

*Dispatch.* `DispatchCovered` needs to know why a key is new.  `DispatchOK`
relates the rows of a job to its attempts: no row belongs to a later attempt;
while an attempt is running no retry, recovery or manual row of it exists, so
that the row inserted at its end is not swallowed by the ON CONFLICT clause; a
row that is `Alive` (not yet handed over, waiting, or dropped) exists for each
claimable job.  `DueFirst` supplies that messages are published only after
`available_at`, so that a consumer cannot discard a message as a duplicate
because its job is not due.

*Receipts.* A lease names a process, not a call, so the argument for
`FencedBetweenWorkers` goes through the history of the claims.  The invariant
(`Fenced`) says that the history has one claimant per attempt, that the owner
of a running row is the claimant of its newest attempt, and that a call is one
of its worker's claims.  All steps but the claim and the completion are
`Quiet`: no row becomes running or succeeded, and no call is new.  A completion
that names the worker then finds the owner, the newest claimant and the call's
own claimant the same.  That the attempt is the newest one does not follow,
and is false where a process has several slots (JobsFence).

*Crawls.* The types need that a job which waits has an attempt left and that
the job of every call has been inserted (`Typed`).  One lemma per group of
steps then shows that all but four of them only take crawls `Onward` (never
into starting, never back into the queue unless a start has stalled) and
dispatch no starter; `NextCases` collects them, and the other proofs only look
at the start gate, the queue request, the adoption, the drain, and `Onward`.

* `AtMostOneLive`: a crawl becomes live at the start gate or the adoption, and
  both find no occupant in the transaction that writes.
* `FifoStart`: the adoption does not look at the queue.  `InOrder` is what it
  relies on: once the starter of a crawl is dispatched, every older crawl is
  over or uncertain, and neither waits again.
* `StartedOnceUnlessCut`: `OneStart` says that one call at most works on the
  start of a crawl, and that a crawl which waits, or is in starting with no such
  call, has had every start it was given cut off by a crash (`Settled`).  Only
  such a crawl can be called again, by whichever starter: the sweep puts back
  none that has a call at work on it.

*One effect.* Both refinements rest on the same idea: the claim is a permit, and
whoever holds it is alone.  For actions the invariant says that at most one
execution is between its claim and its report, that nothing is on the wire or
carried out before it has dispatched, and which states of the action are
compatible with each phase, and that there is a queued crawl or a request, not
both; the proof that a refusal is true (`Effect`'s refused) needs that the
execution that writes `rejected` holds the permit and has sent nothing.  For
mail the permit is the attempt with status `sending` and a request id; the
invariant says that calls past the claim hold that id, one at a time, that mails
on the wire or accepted belong to a held or an ended attempt, and that a
`reply_stale` attempt, the only one `bindReplySend` deletes, has none.
`AtMostOneMail` and `RejectedNeverSent` follow.

*Cron runs.* `HandlerRunsOnce` becomes inductive with what the runs and the jobs
say of each other (`Begun`): a run that is absent or queued was never handled
and a job is there only with its run, so a dispatch is an `Accept` of the
ledger.  A run that has started never becomes queued again, whoever finishes it
or takes it over.  A waiting job has an attempt left (`Budgeted`), without which
a claim is not a `Start`.  `NoSlotSkipped` needs the same of every pending edit
(`Replayed`): the next_run_at it will write back was the schedule's once, and
slots that had a run then have it still.  The hypothesis of the theorem is
necessary: a pause, a publication or a new cron expression starts from the
clock by design.

*Task runs.* The steps are sorted by what they keep: all but the two that end an
ask leave what is over as it is, or call it failed, and keep recorded asks and
the queue's order (`KeptStep`), and one lemma shows that this keeps the
invariant `Memory`.  Its heart is `Settling`: the ask that holds the ticket's
lock is alone and its run is live, and if it read that its action succeeded, or
that there is none, that is so.  `NoRunRevived` follows from it at
`FinishCommit`, and at the other steps from their conditions on the run.
`CompletedHasReceipt` needs `Settling` as well, and `Recorded`: a recorded run
is the work of an ask that is over, so that its action cannot begin again.
`RunningRunHasAsk` is inductive beside `Memory`: but for the start of an ask's
work, a step sets no run running, and takes an ask from its work only together
with the run (`WorkKept`).

*Publication.* `executePublication` decides on rows it has locked, so that
`ReplacesWhatItExpected` and `OneInForce` are about its one transaction; the
rest of the proof shows that calls and confirmations stay within the
applications there are (`Related`).  For `InForceHasReceipt` every other step
leaves receipts as they are (`ReceiptStays`) and the material of a version in
force too (`MaterialStays`); `executePublication` closes only what waits, so it
takes no receipt back, and leaves one for what it publishes.

*Reviews.* The first four theorems rest on one invariant, `ReviewOK`: the row is
an instance in order (`InstanceOK`), and so is whatever a request has computed
and not yet written.  In order means

* `Base`: tasks are numbered by position, of rounds and nodes that have been
  reached, no two of one person at one node of one round, and none that judges
  of the requester;
* `Ahead`: the nodes after the current one have no task in this round, so that
  whoever the walk hands them to has none there;
* `OpenOK`: a task that asks for something is one of the current node and round
  and the instance is under review; suspended ones belong to an amendment;
* `Turn`: under review somebody is pending, at a sequential node nobody else,
  and those who wait come after.

`SomebodyMustAct` alone is not inductive: a transfer or a countersignature
splices tasks into the list, and whether the next in turn can be found is a
matter of their order.  A lemma per operation shows that it makes from an
instance in order another one; that a request acts on a stale row does no harm,
because it acts on the instance that it read and `Commit` writes the outcome
only over that version.

The walk is a recursive function over a form of any length, and so is the choice
of those present; what they return is shown by induction.  TLAPS cannot
instantiate the library's induction theorems, which take the predicate as an
operator; `Upwards` and `Downwards` say the same of a *set* of numbers that
stands for the predicate, and follow from the least element of a set
(`WFMin` of WellFoundedInduction).  `WalkUnfolds` shows from them that the
recursion defines a function at all, because the edges of a form that may be
published lead forward; `WalkLands` that it stops ahead of where it began, with
tasks only of nodes on the way.  `ReviewAssumption` says of forms no more than
`validateDefinition` requires.

*Approval.* `ApprovalIsEarned` compares the route of the form's values, a set of
nodes, with what a walk of many steps, interrupted by operations, has left
behind.  The invariant `Earned` says that an instance leaves a *trail*: a set of
nodes on the way along which its values lead, up to the current one, and every
judging node before that has agreed by its rule in this round.  An operation is
`Apart`: it leaves the tasks of the other nodes alone, and so the trail behind
it.  `WalkPasses` adds to the trail the nodes that the walk passes, which may
have nobody to ask.  A trail that has arrived at an end node is closed, and
contains the route.  `Undecided` (nothing has been said yet at the node under
review that would settle it) is what makes the step off a node the effect of its
rule.
`ApprovalBacked` uses `ValidateDefinition`: a trail without a judging node
would be a `Bypass`, and such a form is not published; so an approval rests on a
ballot of the last round, which the refinement needs.

*The promise.* `Heeds` says what an operation may make of ballots, round and
outcome; each operation heeds the instance it acts on.  A request, however, acts
on the row that it read, and this may have been replaced since.  `PromiseOK`
therefore relates every session to the row by the version: what a session holds
is earned, its version is at most the next one, and if it is exactly the next
one, it heeds the row.  A write raises the version and leaves all other sessions
behind, so their writes fail.  `PromiseStep` shows that each step keeps this and
leaves the row alone or heeds it, which is a step of `Review` or a stutter.  TLC
checked both invariants on the two review configurations before they were
proved.

Only model-checked: liveness (`EveryJobSettles`, `GateStartResolves`,
`RunsSettle`, `OverdueIsHandled`, `SendSettles`, `ClaimSettles`,
`DecidedIsClosed`), since TLAPS does not reason about `ENABLED` under fairness.
Every safety property of the passing runs is a theorem.

## 5. Where code and documents disagree

Two of these are runs whose one property is violated; `PROJECT.json` quotes the
lines.

1. **JobsFence** — `lease_owner` is the id of a process with four slots
   (`queue/execution-worker.ts:32`).  A call that lost its lease passes the
   checkpoint and completes the newer attempt of its own process, against
   `dispatcher.ts:162-164`.  Between two processes the fence holds.
2. **TaskStranded** — `finishBoundTask` reads that an action is being dispatched;
   the action ends, and its follow-up finds no completed run; the commit then
   writes running, for good, against `host/api.ts:744-745`.

The following were found while modelling and can be followed in the modules,
which take the steps named here.  They have no run of their own.

3. An edit by a chat turn checks that the draft is editable, outside the
   transaction that writes it.  A send that is confirmed and claimed in between
   goes out with the edited text, because the gateway reads the draft after the
   claim and compares it with nothing, against `gateway/send.ts:1` ("with a
   claimed human-confirmed snapshot").
4. The workers die after a start and before its task id is recorded, and stay
   away until the sweep takes the crawl for a stalled one: the starter's retry
   finds it queued and starts it again, against `runtime-gates.ts:481-482`.
   `StartedOnceUnlessCut` shows that nothing but such a crash can do it.
5. start_crawl's gate has queued a crawl when something after it throws: the
   action is rejected, the user is told that the remote did not execute it
   (`runtime/action-progress.ts:25`), and the crawl starts when its turn comes.
6. The change of a template (`host/api.ts:774`) and the verdict on an illegal
   verb (`host/kol-memory.ts:860`) set runs to failed that have ended, newer
   ones too, against `host/api.ts:927-928`.  `NoRunRevived` is what is left.
7. The recovery at boot skips a task whose row is locked
   (`host/task-run-recovery.ts:37`) and is not repeated: its run stays running,
   against line 29.
8. The unconditional UPDATEs to uncertain (`runtime-gates.ts:242`, `409`) bring
   an ended crawl back beside its successor, against `runtime-gates.ts:370`.
9. `stop_crawl` answered with idle ends a crawl without a drain, and the sweep
   behind the queue has a fixed key and runs once in the life of an instance,
   against `runtime-gates.ts:206`.
10. A reconcile job cannot enqueue its successor, being itself the active job it
    is deduplicated against, against `runtime-gates.ts:181`.
11. A late cron handler overwrites needs_takeover (`cron/postgres-store.ts:349`).
12. `knowledge-publication/service.ts:788` says that infrastructure failures
    "retry through the durable job"; the job is high risk and becomes uncertain
    instead.  If the review was rejected or withdrawn, `prepareRecovery` refuses
    as well, and the document stays frozen by its waiting application.
13. The timer of a transfer policy throws when the requester has left
    (`review-postgres-worker.ts:72`) until its attempts are spent: nobody is
    told of the overdue task.
14. A named list of reviewers counts as empty while one of them is absent
    (`review-resolver.ts:10`): those who remain can no longer act on the tasks
    they hold.
15. An overdue task is escalated once, unless its successor hands it over by
    hand: the new task is of source transfer and may escalate again.

Met while modelling, without a sentence of the repository to compare with: an
operator's retry bypasses `deduplicate_active`; a failing claim query loses the
message (BullMQ attempts 1) and with it the delivery of a queued job; the chain
of monitors ends when a receipt arrives between the monitor's read and its
update; a crawl's age counts its time in the queue; a PATCH may undo a pause
that was written after its read; a retried cron job succeeds as a duplicate
without calling its handler; a preparation that fails does not launch the next
ask of the queue (`host/api.ts:1260`), and a restart forgets the queue; two tabs
may work on one pending run; a clarification is written over whatever status the
task has (`routers/tasks.ts:1492`).

## 6. What is not modelled

* Isolation.  PostgreSQL runs at READ COMMITTED here unless a transaction asks
  for more.  A transaction that locks the rows it decides on is one action; one
  that decides on an unlocked read is split, or may act on stale data (`Hold`
  and `Commit` of a review, `Archive` of a document, the PATCH of a cron job,
  `Finish` of a run, the latest run that `MoveRun` sees).
* Clock skew: every process reads one clock.  Leases and deadlines run out at
  any time that the clock allows, so early expiry is covered.
* Failing database statements, except where the outcome matters: the claim and
  the failure write of ExecutionJobs, all of a call's in CronRuns, those of a
  publication, the refresh of the mail card.
* Crawls: the legacy table `crawl_jobs`, result collection, status payloads and
  the delays of jobs.
* Jobs: `pgClaimNextExecutionJob`, `pgQuarantineExecutionJob`,
  `pgPublishExecutionOutboxForJob`: no resident process calls them.
* Reviews: drafts and publication of forms, conditions over several fields,
  reviewers chosen by the requester, notifications, the in-memory service.
* Actions: how a proposal is made, the gates' own checks beyond a version, and
  tools that need no confirmation.  A queued crawl is composed with `CrawlQueue`
  by name only: here it is taken up at any time, there it may also be cancelled.
* Mail: several users of one draft, the refresh of memory after the receipt.
* Task runs: other tasks of the session, the model's turn, event streams; who
  holds the lock of a task's row at boot; a second verdict on a verb.
* Publication: entries, the manual release mode, the legacy chain
  `publishApprovedDocument`, the generation of a scope's index by the worker.
* The contents of handlers, cron expressions and time zones (a slot is a
  number; `NextFor` is the next slot), windows that end a schedule.
* Connection pools, and the processes' orderly shutdown.
* The frontend, the read models, reports, catalogues and the adapters of remote
  services, which are most of the repository's lines: they keep no state that
  several actors change, and what they do is a matter of formatting, queries
  and I/O.

## 7. Plan

1. Proofs: safety theorems that no run needs yet, such as the handler of a
   publication acting on the application it was started for, and lemmas for the
   components below.
2. The plan of the day (`postgres/today-plan-repository.ts`) with its two job
   types; the generation of a knowledge scope and its recovery.
3. Ownership and import of creators; crawl results once per ended crawl.
4. `ExecutionJobs` with two jobs of one object (`deduplicate_active`).
