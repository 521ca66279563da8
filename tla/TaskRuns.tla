------------------------------ MODULE TaskRuns ------------------------------
(***************************************************************************)
(* A task, the runs recorded for it in task_runs, and the asks the Host    *)
(* works on for them in one session: the formal commands on the ticket     *)
(* (ticket-lifecycle.ts), the routes that create a run and acknowledge the *)
(* task (routers/tasks.ts), the session's queue (host/run-control.ts), the *)
(* writers of a bound task (host/api.ts), the follow-up of a runtime       *)
(* action (tasks/runtime-task-state.ts) and the recovery at boot           *)
(* (host/task-run-recovery.ts).                                            *)
(*                                                                         *)
(* A formal command carries the version its sender saw; one with an older  *)
(* version, or a repeated one, changes nothing and is left out.            *)
(***************************************************************************)
EXTENDS Naturals, SequencesExt

CONSTANTS
  MaxAsks,      \* bound on the messages sent to the session for the task
  MaxRuns,      \* bound on the runs of the task
  MaxEvents     \* bound on the user's commands on the ticket, the verdicts on
                \* its verbs and the Host's restarts, together

ASSUME TaskRunsAssumption ==
  {MaxAsks, MaxRuns, MaxEvents} \subseteq Nat

Ask == 1 .. MaxAsks      \* in the order they are sent
Nobody == 0

VARIABLES
  ticket,     \* the task's status and whether an acceptance of it is in force
  runs,       \* its runs in the order of their creation: status, and the ask
              \* whose worker is recorded with it
  acts,       \* state of the controlled action each ask's worker proposed
  asks,       \* the asks in the Host's memory
  running,    \* run-control: the session is marked running
  stopped,    \* run-control: the session was told to stop
  queue,      \* run-control: the asks that wait
  toSync,     \* asks whose action has an outcome not yet carried to the task
  verdict,    \* an illegal verb: its ticket has failed ("open"), and its runs too
  skipped,    \* runs the recovery at boot passed over
  events      \* commands, verdicts and restarts so far

vars == <<ticket, runs, acts, asks, running, stopped, queue, toSync, verdict, skipped, events>>
control == <<running, stopped, queue>>
aside == <<verdict, skipped>>

TicketStatus == {"pending", "queued", "accepted", "in_progress", "running", "completed",
                 "failed", "cancelled", "stopped", "needs_clarification",
                 "waiting_approval", "uncertain"}
RunStatus == {"pending", "queued", "running", "completed", "failed", "cancelled"}
ActionState == {"none", "pending", "dispatching", "succeeded", "rejected", "cancelled", "uncertain"}
Phase == {"idle", "checking", "enqueued", "launching", "marked", "working",
          "settling", "ended", "dropped", "gone"}

(* The state's types, in one invariant.                                    *)
TypeOK ==
  /\ ticket \in [status : TicketStatus, accepted : BOOLEAN]
  /\ runs \in Seq([status : RunStatus, by : Ask \cup {Nobody}]) /\ Len(runs) <= MaxRuns
  /\ acts \in [Ask -> ActionState]
  /\ asks \in [Ask -> [phase : Phase, run : 0 .. MaxRuns,
                       note : BOOLEAN,
                       result : {"ok", "failed", "clarify", "unprepared"}, saw : ActionState]]
  /\ running \in BOOLEAN /\ stopped \in BOOLEAN
  /\ queue \in Seq(Ask)
  /\ toSync \subseteq Ask
  /\ verdict \in {"none", "open", "passed"} /\ skipped \subseteq 1 .. MaxRuns
  /\ events \in 0 .. MaxEvents

Idle == [phase |-> "idle", run |-> 0, note |-> FALSE, result |-> "ok", saw |-> "none"]

Init ==
  /\ ticket = [status |-> "pending", accepted |-> FALSE]
  /\ runs = <<>> /\ acts = [a \in Ask |-> "none"] /\ asks = [a \in Ask |-> Idle]
  /\ running = FALSE /\ stopped = FALSE /\ queue = <<>>
  /\ toSync = {} /\ verdict = "none" /\ skipped = {} /\ events = 0

At(a, phase) == asks[a].phase = phase
RunOf(a) == asks[a].run
Goto(a, phase) == asks' = [asks EXCEPT ![a].phase = phase]
Gone == [Idle EXCEPT !.phase = "gone"]
Leave(a) == asks' = [asks EXCEPT ![a] = Gone]
Latest == Len(runs)
Live == {"pending", "queued", "running"}

(* finishBoundTask holds the ticket's row lock between its two steps.      *)
TicketFree == \A a \in Ask : ~At(a, "settling")

(* The latest run, as a statement sees it that waits for the ticket's lock:*)
(* its snapshot may miss runs that were created meanwhile.                 *)
Seen(r) == {q \in r .. Latest : \A n \in q + 1 .. Latest : runs[n].status = "pending"}

(* A writer of a bound task: the run moves by compare and set, and only    *)
(* the latest run moves the ticket.                                        *)
MoveRun(r, from, to, moves, status) ==
  /\ TicketFree
  /\ IF runs[r].status \in from
     THEN /\ runs' = [runs EXCEPT ![r].status = to]
          /\ \E latest \in Seen(r) :
               ticket' = IF r = latest /\ ticket.status \in moves
                         THEN [ticket EXCEPT !.status = status] ELSE ticket
     ELSE UNCHANGED <<runs, ticket>>

NotOver == TicketStatus \ {"completed", "cancelled", "stopped"}
BeingRun == {"running", "in_progress"}

(***************************************************************************)
(* The user's commands on the task.                                        *)
(***************************************************************************)
AllowedActions(status) ==
  IF status = "completed" THEN {"reopen"}
  ELSE IF status \in {"failed", "cancelled"} THEN {}
  ELSE {action \in {"cancel", "accept", "complete"} :
         \/ action = "cancel" /\ status \in {"pending", "queued", "needs_clarification"}
         \/ action = "accept" /\ status = "pending"
         \/ action = "complete" /\ status \in {"accepted", "waiting_approval", "in_progress"}}

Event == events < MaxEvents /\ events' = events + 1

TransitionTicket(action) ==
  /\ Event /\ TicketFree /\ action \in AllowedActions(ticket.status)
  /\ ticket' = CASE action = "complete" -> [status |-> "completed", accepted |-> TRUE]
                 [] action = "reopen" -> [status |-> "pending", accepted |-> FALSE]
                 [] action = "accept" -> [ticket EXCEPT !.status = "accepted"]
                 [] OTHER -> [ticket EXCEPT !.status = "cancelled"]
  /\ UNCHANGED <<runs, asks, control, acts, toSync, aside>>

AcknowledgeTask ==
  /\ Event /\ TicketFree /\ ticket.status \in {"pending", "queued"}
  /\ ticket' = [ticket EXCEPT !.status = "in_progress"]
  /\ UNCHANGED <<runs, asks, control, acts, toSync, aside>>

(* The request for a run lacks a field: the write has no condition, and    *)
(* what was checked before the intent was resolved may have changed.       *)
AskForClarification ==
  /\ Event /\ TicketFree
  /\ ticket' = [ticket EXCEPT !.status = "needs_clarification"]
  /\ UNCHANGED <<runs, asks, control, acts, toSync, aside>>

(* A verb kol_analyze does not allow, reported by a worker in the middle   *)
(* or at the end of its work, or by the user's route: the ticket fails,    *)
(* and in a statement of its own every run of it, over or not.             *)
IllegalVerb ==
  /\ Event /\ TicketFree /\ verdict = "none" /\ verdict' = "open"
  /\ ticket' = [ticket EXCEPT !.status = "failed"]
  /\ UNCHANGED <<runs, asks, control, acts, toSync, skipped>>

FailEveryRun ==
  /\ TicketFree /\ verdict = "open" /\ verdict' = "passed"
  /\ runs' = [r \in DOMAIN runs |-> [runs[r] EXCEPT !.status = "failed"]]
  /\ UNCHANGED <<ticket, asks, control, acts, toSync, skipped, events>>

CreateRun ==
  /\ TicketFree /\ Latest < MaxRuns
  /\ ticket.status \notin {"running", "completed", "cancelled"}
  /\ ticket' = [ticket EXCEPT !.status = "pending"]
  /\ runs' = Append(runs, [status |-> "pending", by |-> Nobody])
  /\ UNCHANGED <<asks, control, acts, toSync, aside, events>>

(***************************************************************************)
(* The session: an ask is checked, queued or run.                          *)
(***************************************************************************)
(* resolveBoundTask asks for a pending run; a session that is not running  *)
(* forgets that it was stopped.                                            *)
SendMessage(a, r) ==
  /\ At(a, "idle") /\ \A b \in Ask : b < a => ~At(b, "idle")
  /\ runs[r].status = "pending"
  /\ asks' = [asks EXCEPT ![a] = [Idle EXCEPT !.phase = "checking", !.run = r]]
  /\ stopped' = (stopped /\ running)
  /\ UNCHANGED <<ticket, runs, running, queue, acts, toSync, aside, events>>

(* The template of the run it found has changed: run and task are written  *)
(* whatever became of them meanwhile.                                      *)
RefuseTemplate(a) ==
  /\ At(a, "checking") /\ Leave(a) /\ TicketFree
  /\ runs' = [runs EXCEPT ![RunOf(a)].status = "failed"]
  /\ ticket' = [ticket EXCEPT !.status = "needs_clarification"]
  /\ UNCHANGED <<control, acts, toSync, aside, events>>

FailBoundTask(a) ==
  /\ At(a, "checking") /\ Leave(a)
  /\ \E status \in {"failed", "needs_clarification"} :
       MoveRun(RunOf(a), Live, "failed", NotOver, status)
  /\ UNCHANGED <<control, acts, toSync, aside, events>>

CancelBoundTask(r) == MoveRun(r, Live, "cancelled", TicketStatus \ {"completed", "cancelled"}, "cancelled")

(* What becomes of an admitted ask: behind the run in progress, cancelled  *)
(* in a stopped session, or run.                                           *)
Admit(a) ==
  /\ At(a, "checking")
  /\ \/ /\ running /\ queue' = Append(queue, a)
        /\ asks' = [asks EXCEPT ![a].phase = "enqueued", ![a].note = TRUE]
        /\ UNCHANGED <<ticket, runs, running>>
     \/ /\ ~running /\ stopped /\ CancelBoundTask(RunOf(a)) /\ Leave(a)
        /\ UNCHANGED <<running, queue>>
     \/ /\ ~running /\ ~stopped /\ running' = TRUE /\ Goto(a, "marked")
        /\ UNCHANGED <<ticket, runs, queue>>
  /\ UNCHANGED <<stopped, acts, toSync, aside, events>>

(* Written after the ask is in the queue, which may have moved meanwhile.  *)
QueueBoundTask(a) ==
  /\ asks[a].note /\ asks' = [asks EXCEPT ![a].note = FALSE]
  /\ MoveRun(RunOf(a), {"pending"}, "queued", NotOver, "queued")
  /\ UNCHANGED <<control, acts, toSync, aside, events>>

RemoveQueued(a) ==
  /\ \E i \in DOMAIN queue : queue[i] = a /\ queue' = RemoveAt(queue, i)
  /\ CancelBoundTask(RunOf(a)) /\ Leave(a)
  /\ UNCHANGED <<running, stopped, acts, toSync, aside, events>>

(* Taken from the queue: whoever marked the session meanwhile is not seen. *)
Launch(a) ==
  /\ At(a, "launching")
  /\ IF stopped THEN CancelBoundTask(RunOf(a)) /\ Leave(a) /\ UNCHANGED running
     ELSE running' = TRUE /\ Goto(a, "marked") /\ UNCHANGED <<ticket, runs>>
  /\ UNCHANGED <<stopped, queue, acts, toSync, aside, events>>

(* The work begins whether or not the run could be marked running.         *)
StartBoundTask(a) ==
  /\ At(a, "marked") /\ Goto(a, "working")
  /\ MoveRun(RunOf(a), {"pending", "queued"}, "running", TicketStatus, "running")
  /\ UNCHANGED <<control, acts, toSync, aside, events>>

Stop ==
  /\ ~stopped /\ stopped' = TRUE
  /\ running' = (running /\ \E a \in Ask : asks[a].phase \in {"working", "settling", "ended", "dropped"})
  /\ UNCHANGED <<ticket, runs, asks, queue, acts, toSync, aside, events>>

(***************************************************************************)
(* The work and its end.                                                   *)
(***************************************************************************)
(* Mutation: stopping closes the task and forgets its run.                 *)
StopTaskOnly(a) ==
  /\ At(a, "working") /\ stopped /\ Goto(a, "ended")
  /\ MoveRun(RunOf(a), {"running"}, "running", BeingRun, "stopped")
  /\ UNCHANGED <<control, acts, toSync, aside, events>>

StoppedBoundTask(a) ==
  /\ At(a, "working") /\ stopped /\ Goto(a, "ended")
  /\ MoveRun(RunOf(a), {"running"}, "cancelled", BeingRun, "stopped")
  /\ UNCHANGED <<control, acts, toSync, aside, events>>

(* Mutation: the turn is over, so the task is.                             *)
TurnOutcome(result, action) ==
  CASE result = "clarify" -> "needs_clarification"
    [] result \in {"failed", "unprepared"} -> "failed"
    [] OTHER -> "completed"

(* Mutation: a task that waits for the remote has a state of its own.      *)
OutcomeWithDispatch(result, action) ==
  CASE result = "clarify" -> "needs_clarification"
    [] result \in {"failed", "unprepared"} -> "failed"
    [] action \in {"dispatching", "uncertain", "cancelled"} -> action
    [] action = "rejected" -> "failed"
    [] action = "pending" -> "waiting_approval"
    [] OTHER -> "completed"

TaskRunOutcome(result, action) ==
  CASE result = "clarify" -> "needs_clarification"
    [] result \in {"failed", "unprepared"} -> "failed"
    [] action \in {"uncertain", "cancelled"} -> action
    [] action = "rejected" -> "failed"
    [] action = "dispatching" -> "running"
    [] action = "pending" -> "waiting_approval"
    [] OTHER -> "completed"

LockTaken(a, result) == [asks[a] EXCEPT !.phase = "settling", !.result = result, !.saw = acts[a]]
WorkOver(a, result) ==
  [asks[a] EXCEPT !.phase = IF result = "unprepared" THEN "dropped" ELSE "ended",
                  !.result = "ok", !.saw = "none"]

(* Mutation: the end of an ask is written whatever became of its run.      *)
FinishAlways(a, result) ==
  /\ TicketFree
  /\ asks' = [asks EXCEPT ![a] = LockTaken(a, result)]
  /\ UNCHANGED <<ticket, runs, stopped, queue, acts, toSync, aside, events>>

(* The work ends, and finishBoundTask begins: a run that is over already   *)
(* stays as it is; for the others the actions are read, and the outcome is *)
(* committed under the lock.                                               *)
Finish(a, result) ==
  /\ TicketFree
  /\ asks' = [asks EXCEPT ![a] = IF runs[RunOf(a)].status \in Live
                                 THEN LockTaken(a, result) ELSE WorkOver(a, result)]
  /\ UNCHANGED <<ticket, runs, stopped, queue, acts, toSync, aside, events>>

WorkEnds(a) ==
  /\ At(a, "working") /\ UNCHANGED running
  /\ \E result \in {"ok", "failed", "clarify"} : Finish(a, result)

(* The messages a run begins with cannot be stored: the mark is cleared    *)
(* and nobody takes the next ask from the queue.                           *)
PreparationFails(a) ==
  /\ At(a, "working") /\ acts[a] = "none"
  /\ running' = FALSE /\ Finish(a, "unprepared")

FinishCommit(a) ==
  LET outcome == TaskRunOutcome(asks[a].result, asks[a].saw)
  IN /\ At(a, "settling")
     /\ asks' = [asks EXCEPT ![a] = WorkOver(a, asks[a].result)]
     /\ runs' = [runs EXCEPT ![RunOf(a)] = [by |-> a, status |->
          IF outcome \in {"failed", "needs_clarification"} THEN "failed" ELSE "completed"]]
     /\ ticket' = IF RunOf(a) = Latest /\ ticket.status \notin {"cancelled", "stopped"}
                  THEN [ticket EXCEPT !.status = outcome] ELSE ticket
     /\ UNCHANGED <<control, acts, toSync, aside, events>>

(* afterRun: the mark is cleared and the next ask launched; after a failed *)
(* preparation neither happens any more.                                   *)
AfterRun(a) ==
  /\ \/ At(a, "dropped") /\ Leave(a) /\ UNCHANGED <<running, queue>>
     \/ /\ At(a, "ended") /\ running' = FALSE
        /\ IF stopped \/ queue = <<>>
           THEN Leave(a) /\ UNCHANGED queue
           ELSE /\ queue' = Tail(queue)
                /\ asks' = [asks EXCEPT ![a] = Gone, ![Head(queue)].phase = "launching"]
  /\ UNCHANGED <<ticket, runs, stopped, acts, toSync, aside, events>>

(***************************************************************************)
(* The controlled action of a run and its follow-up.                       *)
(***************************************************************************)
ProposeAction(a) ==
  /\ At(a, "working") /\ acts[a] = "none"
  /\ acts' = [acts EXCEPT ![a] = "pending"]
  /\ UNCHANGED <<ticket, runs, asks, control, toSync, aside, events>>

MoveAction(a, from, to) ==
  /\ acts[a] = from /\ acts' = [acts EXCEPT ![a] = to]
  /\ toSync' = IF to = "dispatching" THEN toSync ELSE toSync \cup {a}
  /\ UNCHANGED <<ticket, runs, asks, control, aside, events>>

(* Confirmed, or cancelled by the user; then the remote's outcome.         *)
ActionMoves(a) ==
  \/ \E to \in {"dispatching", "rejected", "cancelled"} : MoveAction(a, "pending", to)
  \/ \E to \in {"succeeded", "rejected", "uncertain"} : MoveAction(a, "dispatching", to)

(* The task takes the outcome over when the run is recorded by then.       *)
SyncRuntimeTaskState(a) ==
  LET concerns == /\ Latest > 0 /\ runs[Latest] = [status |-> "completed", by |-> a]
                  /\ ticket.status \in {"running", "waiting_approval", "uncertain"}
  IN /\ a \in toSync /\ toSync' = toSync \ {a}
     /\ concerns => TicketFree
     /\ ticket' = IF concerns THEN [ticket EXCEPT !.status = TaskRunOutcome("ok", acts[a])]
                  ELSE ticket
     /\ UNCHANGED <<runs, acts, asks, control, aside, events>>

(***************************************************************************)
(* The Host restarts: its memory is gone, and the boot fails what ran, but *)
(* passes over a task whose row some transaction still holds.              *)
(***************************************************************************)
Restart ==
  /\ Event
  /\ asks' = [a \in Ask |-> IF At(a, "idle") THEN Idle ELSE Gone]
  /\ running' = FALSE /\ stopped' = FALSE /\ queue' = <<>>
  /\ \/ /\ runs' = [r \in DOMAIN runs |-> IF runs[r].status = "running"
                                  THEN [runs[r] EXCEPT !.status = "failed"] ELSE runs[r]]
        /\ ticket' = IF runs' # runs /\ ticket.status \in BeingRun
                     THEN [ticket EXCEPT !.status = "failed"] ELSE ticket
        /\ UNCHANGED skipped
     \/ /\ skipped' = skipped \cup {r \in DOMAIN runs : runs[r].status = "running"}
        /\ UNCHANGED <<runs, ticket>>
  /\ toSync' \in SUBSET toSync
  /\ verdict' = IF verdict = "open" THEN "passed" ELSE verdict
  /\ UNCHANGED acts

Step(a) ==
  \/ RefuseTemplate(a) \/ FailBoundTask(a) \/ Admit(a) \/ QueueBoundTask(a) \/ Launch(a)
  \/ StartBoundTask(a) \/ WorkEnds(a) \/ StoppedBoundTask(a) \/ PreparationFails(a)
  \/ FinishCommit(a) \/ AfterRun(a)

Next ==
  \/ \E action \in {"accept", "complete", "cancel", "reopen"} : TransitionTicket(action)
  \/ AcknowledgeTask \/ AskForClarification \/ IllegalVerb \/ FailEveryRun
  \/ CreateRun \/ Stop \/ Restart
  \/ \E a \in Ask : Step(a) \/ RemoveQueued(a) \/ ProposeAction(a)
                   \/ ActionMoves(a) \/ SyncRuntimeTaskState(a)
                   \/ \E r \in DOMAIN runs : SendMessage(a, r)

Spec == Init /\ [][Next]_vars

(***************************************************************************)
(* Properties.                                                             *)
(***************************************************************************)
(* "No branch can strand the task in running" (api.ts:744-745): a task     *)
(* shown as running has a latest run that runs, or that ended well with a  *)
(* controlled action that goes on or whose outcome is still to be carried  *)
(* over.  Not so: finishBoundTask reads the action, the action ends and    *)
(* finds no completed run, and the outcome "running" is committed.         *)
RunningTaskHasRun ==
  ticket.status = "running" =>
    /\ Latest > 0
    /\ \/ runs[Latest].status = "running"
       \/ /\ runs[Latest].status = "completed"
          /\ \/ acts[runs[Latest].by] \in {"pending", "dispatching"}
             \/ runs[Latest].by \in toSync

(* "A completed model turn is not a business receipt" (run-outcome.ts): a  *)
(* task nobody accepted is completed only when its latest run is, and the  *)
(* remote has carried out what the run proposed.  The verdict on a verb    *)
(* may call that run failed afterwards.                                    *)
CompletedHasReceipt ==
  ticket.status = "completed" /\ ~ticket.accepted =>
    /\ Latest > 0
    /\ \/ runs[Latest].status = "completed"
       \/ runs[Latest].status = "failed" /\ verdict = "passed"
    /\ runs[Latest].by \in Ask /\ acts[runs[Latest].by] \in {"none", "succeeded"}

(* "Late/duplicate completions cannot resurrect a stopped run or overwrite *)
(* a newer run" (api.ts:927-928): a run that is over is never brought back *)
(* or completed, and stays the work of the ask it was recorded for.  At    *)
(* most it is called failed, which a verdict on a verb and a change of its *)
(* template do whatever they find.                                         *)
NoRunRevived ==
  [][\A r \in DOMAIN runs : runs[r].status \notin Live =>
       runs'[r].status \in {runs[r].status, "failed"} /\ runs'[r].by = runs[r].by]_vars

(* Nobody looks for a run that nobody works on before the next restart: a  *)
(* run that is running has an ask at work, or about to commit its end,     *)
(* unless the recovery at boot passed over it.                             *)
RunningRunHasAsk ==
  \A r \in DOMAIN runs : runs[r].status = "running" /\ r \notin skipped =>
    \E a \in Ask : RunOf(a) = r /\ asks[a].phase \in {"working", "settling"}
=============================================================================
