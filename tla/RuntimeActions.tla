--------------------------- MODULE RuntimeActions ---------------------------
(***************************************************************************)
(* One write an agent proposed and the user has to confirm: the row of     *)
(* runtime_actions (runtime/action-store.ts), the routes that confirm and  *)
(* cancel it (action-operations.ts), the runtime.confirm job that carries  *)
(* it out (action-worker.ts) and the checked submission to the remote tool *)
(* (runtime/execution.ts).                                                 *)
(*                                                                         *)
(* The job is high risk and has one attempt (module ExecutionJobs): what   *)
(* matters of it here is that its lease may be lost while the execution    *)
(* goes on, and that nobody brings it back.  The store also promises to    *)
(* keep several executions of one action apart (action-store.ts:105); they *)
(* call SkillExecution.confirm without a job, as two at a time do in       *)
(* tests/skill-runtime-execution.test.ts:515.                              *)
(*                                                                         *)
(* The two tools with a gate of their own start and stop a crawl.  Where   *)
(* the crawler is busy, the gate of start_crawl sends nothing: it leaves a *)
(* queued crawl for another process to start (module CrawlQueue).          *)
(***************************************************************************)
EXTENDS Integers

CONSTANTS
  Exec,        \* executions of the action
  Direct,      \* those that have no job behind them; none in the resident program
  Nobody,      \* no execution
  MaxChanges,  \* bound on the changes of grants, tools, policies, credentials
  MaxCrashes   \* bound on the deaths of workers

ASSUME ActionAssumption ==
  /\ Nobody \notin Exec /\ Direct \subseteq Exec
  /\ MaxChanges \in Nat /\ MaxCrashes \in Nat

VARIABLES
  action,    \* state of the action
  binding,   \* version of everything its authorization rests on; 0 is what
             \* the snapshot of the proposal was taken of
  job,       \* status and lease owner of its runtime.confirm job
  execs,     \* the executions in memory
  wire,      \* executions whose request is on its way to the remote
  reached,   \* executions whose request the remote has carried out
  times,     \* how often the remote has carried the write out
  crawl,     \* the crawl that start_crawl's gate queued instead of a request
  crashes

vars == <<action, binding, job, execs, wire, reached, times, crawl, crashes>>

Phase == {"idle", "started", "checked", "stale", "waiting", "claimed", "queued",
          "sent", "answered", "refusedByRemote", "returned", "notDispatched", "threw"}

(* The state's types, in one invariant.                                    *)
TypeOK ==
  /\ action \in {"pending", "dispatching", "succeeded", "rejected", "uncertain", "cancelled"}
  /\ binding \in Nat
  /\ job \in [status : {"none", "queued", "running", "succeeded", "failed", "uncertain"},
              owner : Exec \cup {Nobody}]
  /\ execs \in [Exec -> [phase : Phase, basis : Nat]]
  /\ wire \subseteq Exec /\ reached \subseteq Exec
  /\ times \in Nat /\ crawl \in {"none", "queued", "started"} /\ crashes \in Nat

Init ==
  /\ action = "pending" /\ binding = 0
  /\ job = [status |-> "none", owner |-> Nobody]
  /\ execs = [e \in Exec |-> [phase |-> "idle", basis |-> 0]]
  /\ wire = {} /\ reached = {} /\ times = 0 /\ crawl = "none" /\ crashes = 0

At(e, phase) == execs[e].phase = phase
Goto(e, phase) == execs' = [execs EXCEPT ![e].phase = phase]
remote == <<wire, reached, times, crawl>>

(* The check an execution repeats: its job is still running in its hands.  *)
Checkpoint(e) == e \in Direct \/ job = [status |-> "running", owner |-> e]

(***************************************************************************)
(* The user, the queue, the administrators.                                *)
(***************************************************************************)
Confirm ==
  /\ action = "pending" /\ job.status = "none"
  /\ job' = [job EXCEPT !.status = "queued"]
  /\ UNCHANGED <<action, binding, execs, remote, crashes>>

Cancel ==
  /\ action = "pending" /\ action' = "cancelled"
  /\ UNCHANGED <<binding, job, execs, remote, crashes>>

ChangeBinding ==
  /\ binding < MaxChanges /\ binding' = binding + 1
  /\ UNCHANGED <<action, job, execs, remote, crashes>>

StartJob(e) ==
  /\ job.status = "queued" /\ At(e, "idle") /\ e \notin Direct
  /\ job' = [status |-> "running", owner |-> e]
  /\ Goto(e, "started")
  /\ UNCHANGED <<action, binding, remote, crashes>>

ConfirmDirectly(e) ==
  /\ At(e, "idle") /\ e \in Direct /\ Goto(e, "started")
  /\ UNCHANGED <<action, binding, job, remote, crashes>>

(* The lease runs out, under a live execution or after its worker died.    *)
LoseLease ==
  /\ job.status = "running"
  /\ job' = [status |-> "uncertain", owner |-> Nobody]
  /\ UNCHANGED <<action, binding, execs, remote, crashes>>

(***************************************************************************)
(* An execution up to the claim.                                           *)
(***************************************************************************)
(* confirm: the receipt of an action that is done already, a refusal of    *)
(* one that is not pending, or the checks of the submission.               *)
ReadAction(e) ==
  /\ At(e, "started")
  /\ execs' = [execs EXCEPT ![e] =
       [phase |-> IF ~Checkpoint(e) THEN "threw"
                  ELSE IF action = "succeeded" THEN "returned"
                  ELSE IF action # "pending" THEN "threw"
                  ELSE IF binding # 0 THEN "stale" ELSE "checked",
        basis |-> binding]]
  /\ UNCHANGED <<action, binding, job, remote, crashes>>

RejectPendingRuntimeAction(e) ==
  /\ At(e, "stale")
  /\ IF action = "pending" THEN action' = "rejected" /\ Goto(e, "notDispatched")
                           ELSE Goto(e, "threw") /\ UNCHANGED action
  /\ UNCHANGED <<binding, job, remote, crashes>>

(* Some other check of the submission fails before the claim.              *)
FailBeforeClaim(e) ==
  /\ execs[e].phase \in {"checked", "stale"} /\ Goto(e, "threw")
  /\ UNCHANGED <<action, binding, job, remote, crashes>>

(* The action is claimed under a lock and only on the basis that was       *)
(* checked; whoever comes second waits for the first one's outcome.        *)
ClaimRuntimeAction(e) ==
  /\ At(e, "checked")
  /\ \/ /\ action = "pending" /\ binding = execs[e].basis
        /\ action' = "dispatching" /\ Goto(e, "claimed")
     \/ /\ action = "pending" /\ binding # execs[e].basis
        /\ Goto(e, "threw") /\ UNCHANGED action
     \/ /\ action # "pending" /\ UNCHANGED action
        /\ Goto(e, IF action = "dispatching" THEN "waiting"
                   ELSE IF action = "succeeded" THEN "returned" ELSE "threw")
  /\ UNCHANGED <<binding, job, remote, crashes>>

(* Two seconds at most; only a receipt ends the wait well.                 *)
WaitForTerminal(e) ==
  /\ At(e, "waiting")
  /\ Goto(e, IF action = "succeeded" THEN "returned" ELSE "threw")
  /\ UNCHANGED <<action, binding, job, remote, crashes>>

(***************************************************************************)
(* The submission.                                                         *)
(***************************************************************************)
(* The execution counts as dispatched before the transport repeats the     *)
(* checks, which may keep the request from leaving.                        *)
Dispatch(e) ==
  /\ At(e, "claimed") /\ Checkpoint(e) /\ binding = execs[e].basis
  /\ wire' \in {wire, wire \cup {e}} /\ Goto(e, "sent")
  /\ UNCHANGED <<action, binding, job, reached, times, crawl, crashes>>

(* The crawler is busy: the gate of start_crawl commits a queued crawl and *)
(* answers for it, with none of the checks a request is put through.       *)
QueueCrawl(e) ==
  /\ At(e, "claimed") /\ crawl = "none"
  /\ crawl' = "queued" /\ Goto(e, "queued")
  /\ UNCHANGED <<action, binding, job, wire, reached, times, crashes>>

(* The starter takes the crawl out of the queue, whatever the action says. *)
StartQueuedCrawl ==
  /\ crawl = "queued" /\ crawl' = "started"
  /\ UNCHANGED <<action, binding, job, execs, wire, reached, times, crashes>>

(* The remote carries a request out some time after it was sent.           *)
RemoteExecutes(e) ==
  /\ e \in wire /\ wire' = wire \ {e}
  /\ reached' = reached \cup {e} /\ times' = times + 1
  /\ UNCHANGED <<action, binding, job, execs, crawl, crashes>>

(* It answers with a result, or with an error that tells nothing.          *)
RemoteAnswers(e) ==
  /\ At(e, "sent")
  /\ \/ e \in reached /\ Goto(e, "answered")
     \/ e \in wire \cup reached /\ Goto(e, "refusedByRemote")
  /\ UNCHANGED <<action, binding, job, remote, crashes>>

Finished(state) == action' = IF action = "dispatching" THEN state ELSE action

(* Mutation: an error of the remote has a state of its own.                *)
FinishAsError(e) ==
  /\ \/ /\ execs[e].phase \in {"queued", "answered"} /\ binding = execs[e].basis
        /\ Finished("succeeded") /\ \E phase \in {"returned", "threw"} : Goto(e, phase)
     \/ /\ At(e, "refusedByRemote") /\ binding = execs[e].basis
        /\ Finished("error") /\ \E phase \in {"returned", "threw"} : Goto(e, phase)
  /\ UNCHANGED <<binding, job, remote, crashes>>

(* The outcome is on record; what follows it may still throw.              *)
FinishRuntimeAction(e) ==
  /\ \/ /\ execs[e].phase \in {"queued", "answered"} /\ binding = execs[e].basis
        /\ Finished("succeeded") /\ \E phase \in {"returned", "threw"} : Goto(e, phase)
     \/ /\ At(e, "refusedByRemote") /\ binding = execs[e].basis
        /\ Finished("uncertain") /\ \E phase \in {"returned", "threw"} : Goto(e, phase)
  /\ UNCHANGED <<binding, job, remote, crashes>>

(* A failure leads to this place: refused for good, or nobody knows.       *)
Submitting == {"claimed", "queued", "sent", "answered", "refusedByRemote"}
Undispatched(e) == execs[e].phase \in {"claimed", "queued"}
Failed(e) == Goto(e, IF Undispatched(e) /\ action = "dispatching"
                     THEN "notDispatched" ELSE "threw")

(* Mutation: a failure is a refusal, whether or not the request was sent.  *)
FailIsRefusal(e) ==
  /\ execs[e].phase \in Submitting
  /\ Finished("rejected") /\ Failed(e)
  /\ UNCHANGED <<binding, job, remote, crashes>>

(* Mutation: a failure after the request was sent leaves the claim.        *)
FailLeavesClaim(e) ==
  /\ execs[e].phase \in Submitting
  /\ IF Undispatched(e) THEN Finished("rejected") ELSE UNCHANGED action
  /\ Failed(e)
  /\ UNCHANGED <<binding, job, remote, crashes>>

(* Any check, call or record that throws after the claim.  A crawl that    *)
(* was queued stays queued.                                                *)
FailAfterClaim(e) ==
  /\ execs[e].phase \in Submitting
  /\ Finished(IF Undispatched(e) THEN "rejected" ELSE "uncertain")
  /\ Failed(e)
  /\ UNCHANGED <<binding, job, remote, crashes>>

(* Mutation: what threw was not dispatched.                                *)
EndJobAsFailed(e) ==
  /\ execs[e].phase \in {"returned", "notDispatched", "threw"} /\ Goto(e, "idle")
  /\ job' = IF e \notin Direct /\ Checkpoint(e)
            THEN [status |-> IF At(e, "returned") THEN "succeeded" ELSE "failed",
                  owner |-> Nobody]
            ELSE job
  /\ UNCHANGED <<action, binding, remote, crashes>>

(* A high-risk job that throws is uncertain unless the handler vouches     *)
(* that nothing was dispatched.                                            *)
EndJob(e) ==
  /\ execs[e].phase \in {"returned", "notDispatched", "threw"} /\ Goto(e, "idle")
  /\ job' = IF e \notin Direct /\ Checkpoint(e)
            THEN [status |-> CASE At(e, "returned") -> "succeeded"
                               [] At(e, "notDispatched") -> "failed"
                               [] OTHER -> "uncertain",
                  owner |-> Nobody]
            ELSE job
  /\ UNCHANGED <<action, binding, remote, crashes>>

(* The worker dies; what it claimed stays claimed.                         *)
Crash(e) ==
  /\ crashes < MaxCrashes /\ ~At(e, "idle")
  /\ crashes' = crashes + 1 /\ Goto(e, "idle")
  /\ UNCHANGED <<action, binding, job, remote>>

Step(e) ==
  \/ ReadAction(e) \/ RejectPendingRuntimeAction(e) \/ FailBeforeClaim(e)
  \/ ClaimRuntimeAction(e)
  \/ WaitForTerminal(e) \/ QueueCrawl(e) \/ Dispatch(e) \/ RemoteAnswers(e)
  \/ FinishRuntimeAction(e) \/ FailAfterClaim(e) \/ EndJob(e)

Next ==
  \/ Confirm \/ Cancel \/ ChangeBinding \/ LoseLease \/ StartQueuedCrawl
  \/ \E e \in Exec : \/ StartJob(e) \/ ConfirmDirectly(e) \/ Step(e)
                     \/ RemoteExecutes(e) \/ Crash(e)

Spec == Init /\ [][Next]_vars

(* An execution that has started goes on until it ends or its worker dies. *)
FairSpec == Spec /\ \A e \in Exec : WF_vars(Step(e))

(***************************************************************************)
(* Properties.                                                             *)
(***************************************************************************)
(* The write is one effect, a request or a queued crawl: done once, and    *)
(* "rejected" only when the remote never gets to see a request of it; for  *)
(* every lease lost and every restart.  The one exception is named in the  *)
(* mapping: what throws after start_crawl's gate queued a crawl rejects    *)
(* the action, and the crawl starts when its turn comes (against           *)
(* action-progress.ts:25); such an action counts as in doubt here.         *)
AsEffect == INSTANCE Effect WITH
  stage <- CASE action = "pending" -> "open"
             [] action = "dispatching" -> "claimed"
             [] action = "succeeded" -> "done"
             [] action = "uncertain" -> "doubtful"
             [] action = "rejected" /\ crawl # "none" -> "doubtful"
             [] OTHER -> "refused",
  sent <- wire # {} \/ times > 0 \/ crawl # "none",
  times <- times + IF crawl = "none" THEN 0 ELSE 1
ActionIsOneEffect == AsEffect!Spec

(* What the job tells the user is true of the request: it succeeds only    *)
(* with one behind it, its own or the one it waited for, or with a crawl   *)
(* in the queue, and it fails only if no request was sent or ever will be  *)
(* by an execution of the action; anything else is uncertain               *)
(* (execution.ts:616-627, with pgFailExecutionJob's not_dispatched).       *)
JobTellsTheTruth ==
  /\ job.status = "succeeded" => wire # {} \/ times > 0 \/ crawl # "none"
  /\ job.status = "failed" => wire = {} /\ times = 0 /\ action = "rejected"

(* Unless its worker dies, a claimed action gets an outcome.               *)
ClaimSettles == action = "dispatching" ~> action # "dispatching" \/ crashes > 0
=============================================================================
