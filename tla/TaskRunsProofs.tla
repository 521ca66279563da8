--------------------------- MODULE TaskRunsProofs ---------------------------
(***************************************************************************)
(* What a task shows is what became of its runs, for any number of asks,   *)
(* runs, commands and restarts.  The argument: finishBoundTask decides on  *)
(* a run that is live and keeps it so with the ticket's lock until it has  *)
(* written; a controlled action is proposed by a working ask only, so the  *)
(* actions of a run that was recorded can end and not begin; and an ask    *)
(* whose work is over does not work again, because nobody is queued twice. *)
(***************************************************************************)
EXTENDS TaskRuns, SequenceTheorems, TLAPS

Run == [status : RunStatus, by : Ask \cup {Nobody}]
Row == [phase : Phase, run : 0 .. MaxRuns, note : BOOLEAN,
        result : {"ok", "failed", "clarify", "unprepared"}, saw : ActionState]
Over == {"ended", "dropped", "gone"}

(* The queue holds asks that wait, each once.                              *)
Queued ==
  /\ \A i \in DOMAIN queue : At(queue[i], "enqueued")
  /\ \A i, j \in DOMAIN queue : queue[i] = queue[j] => i = j

(* An ask in the Host's memory has a run.                                  *)
Bound ==
  \A a \in Ask : asks[a].note \/ asks[a].phase \notin {"idle", "gone"} =>
                   RunOf(a) \in DOMAIN runs

(* The ask that holds the ticket's lock is alone, has a live run, and has  *)
(* read what its action still is, up to the end of one that is under way.  *)
Settling ==
  \A a \in Ask : At(a, "settling") =>
    /\ runs[RunOf(a)].status \in Live
    /\ asks[a].saw = "none" <=> acts[a] = "none"
    /\ asks[a].saw = "succeeded" => acts[a] = "succeeded"
    /\ \A b \in Ask : At(b, "settling") => b = a

(* A recorded run is the work of an ask that is over; only an ask          *)
(* completes a run.                                                        *)
Recorded ==
  \A r \in DOMAIN runs :
    /\ runs[r].by \in Ask => asks[runs[r].by].phase \in Over
    /\ runs[r].status = "completed" => runs[r].by \in Ask

Memory == TypeOK /\ Queued /\ Bound /\ Settling /\ Recorded

(* The steps of all asks but the one that settles: what is over stays over *)
(* and nobody takes the lock.                                              *)
AsksKept ==
  /\ asks' \in [Ask -> Row]
  /\ \A b \in Ask :
       /\ asks'[b].note \/ asks'[b].phase \notin {"idle", "gone"} =>
            asks'[b].run \in DOMAIN runs
       /\ asks[b].phase \in Over => asks'[b].phase \in Over
       /\ asks'[b].phase = "settling" => asks'[b] = asks[b]

(* Runs are added, live ones end without being completed, and one that is  *)
(* over is at most called failed.                                          *)
RunsKept ==
  /\ runs' \in Seq(Run) /\ Len(runs) <= Len(runs') /\ Len(runs') <= MaxRuns
  /\ \A r \in DOMAIN runs :
       /\ runs'[r].by = runs[r].by
       /\ runs'[r].status = "completed" => runs[r].status = "completed"
       /\ runs[r].status \notin Live => runs'[r].status \in {runs[r].status, "failed"}
  /\ \A r \in DOMAIN runs' \ DOMAIN runs :
       runs'[r].by = Nobody /\ runs'[r].status # "completed"
  /\ TicketFree' \/ runs' = runs

(* Only a working ask proposes an action; it never vanishes.               *)
ActsKept ==
  /\ acts' \in [Ask -> ActionState]
  /\ \A a \in Ask : /\ acts[a] = "none" /\ ~At(a, "working") => acts'[a] = "none"
                    /\ acts[a] # "none" => acts'[a] # "none"
                    /\ acts[a] = "succeeded" => acts'[a] = "succeeded"

(* The parts of the invariant, by name.                                    *)
LEMMA RunType ==
  ASSUME Memory
  PROVE  /\ runs \in Seq(Run) /\ Len(runs) \in Nat /\ DOMAIN runs = 1 .. Len(runs)
         /\ \A r \in DOMAIN runs : runs[r] \in Run
         /\ asks \in [Ask -> Row]
         /\ Nobody \notin Ask
<1>1. runs \in Seq(Run) /\ asks \in [Ask -> Row]
  BY DEF Memory, TypeOK, Run, Row
<1>2. Nobody \notin Ask
  BY DEF Nobody, Ask
<1> QED
  BY <1>1, <1>2

(* Such steps keep what is known of the asks in memory.                    *)
LEMMA KeptSteps ==
  ASSUME Memory, AsksKept, RunsKept, ActsKept
  PROVE  Bound' /\ Settling' /\ Recorded'
<1>1. DOMAIN runs \subseteq DOMAIN runs'
  BY RunType DEF RunsKept
<1>2. Bound'
  BY <1>1 DEF AsksKept, Bound, RunOf
<1>3. Settling'
  <2> SUFFICES ASSUME NEW a \in Ask, At(a, "settling")'
               PROVE  /\ runs'[asks'[a].run].status \in Live
                      /\ asks'[a].saw = "none" <=> acts'[a] = "none"
                      /\ asks'[a].saw = "succeeded" => acts'[a] = "succeeded"
                      /\ \A b \in Ask : At(b, "settling")' => b = a
    BY DEF Settling, RunOf
  <2>1. asks'[a] = asks[a] /\ At(a, "settling") /\ runs' = runs
    BY DEF AsksKept, RunsKept, At, TicketFree
  <2>2. \A b \in Ask : At(b, "settling")' => At(b, "settling")
    BY DEF AsksKept, At
  <2>3. ~ At(a, "working")
    BY <2>1 DEF At
  <2> QED
    BY <2>1, <2>2, <2>3 DEF Memory, Settling, ActsKept, RunOf
<1>4. Recorded'
  <2> SUFFICES ASSUME NEW r \in DOMAIN runs'
               PROVE  /\ runs'[r].by \in Ask => asks'[runs'[r].by].phase \in Over
                      /\ runs'[r].status = "completed" => runs'[r].by \in Ask
    BY DEF Recorded
  <2>1. CASE r \in DOMAIN runs
    BY <2>1 DEF Memory, Recorded, RunsKept, AsksKept
  <2>2. CASE r \notin DOMAIN runs
    BY <2>2, RunType DEF RunsKept
  <2> QED
    BY <2>1, <2>2
<1> QED
  BY <1>2, <1>3, <1>4

(* All such a step has to keep, the types of the rest included.            *)
Kept ==
  /\ AsksKept /\ RunsKept /\ ActsKept /\ Queued'
  /\ ticket' \in [status : TicketStatus, accepted : BOOLEAN]
  /\ running' \in BOOLEAN /\ stopped' \in BOOLEAN /\ queue' \in Seq(Ask)
  /\ toSync' \subseteq Ask /\ events' \in 0 .. MaxEvents
  /\ verdict' \in {"none", "open", "passed"} /\ skipped' \subseteq 1 .. MaxRuns

(* A step that keeps it keeps what is known of the Host's memory.          *)
LEMMA KeptMemory ==
  ASSUME Memory, Kept
  PROVE  Memory'
<1>1. Bound' /\ Settling' /\ Recorded'
  BY KeptSteps DEF Kept
<1>2. TypeOK'
  BY DEF Kept, AsksKept, RunsKept, ActsKept, TypeOK, Run, Row
<1> QED
  BY <1>1, <1>2 DEF Memory, Kept

(* What does not change is kept.                                           *)
LEMMA Unchanged ==
  ASSUME Memory
  PROVE  /\ UNCHANGED asks => /\ asks' \in [Ask -> Row] /\ AsksKept
         /\ UNCHANGED acts => ActsKept
         /\ UNCHANGED runs => RunsKept
         /\ queue' = queue /\ (\A b \in Ask : At(b, "enqueued") => At(b, "enqueued")') => Queued'
<1>1. UNCHANGED asks => asks' \in [Ask -> Row] /\ AsksKept
  BY RunType DEF AsksKept, Memory, Bound, RunOf
<1>2. UNCHANGED acts => ActsKept
  BY DEF ActsKept, Memory, TypeOK
<1>3. UNCHANGED runs => RunsKept
  BY RunType DEF RunsKept, Memory, TypeOK
<1>4. queue' = queue /\ (\A b \in Ask : At(b, "enqueued") => At(b, "enqueued")') => Queued'
  BY DEF Memory, TypeOK, Queued
<1> QED
  BY <1>1, <1>2, <1>3, <1>4

(* One ask moves on.                                                       *)
LEMMA OneAsk ==
  ASSUME Memory, NEW a \in Ask, NEW row \in Row, asks' = [asks EXCEPT ![a] = row],
         row.note \/ row.phase \notin {"idle", "gone"} => row.run \in DOMAIN runs,
         asks[a].phase \in Over => row.phase \in Over, row.phase # "settling"
  PROVE  /\ AsksKept
         /\ asks[a].phase # "enqueued" =>
              \A b \in Ask : At(b, "enqueued") => At(b, "enqueued")'
BY RunType DEF AsksKept, Memory, Bound, RunOf, At

(* The row of an ask that is not in memory.                                *)
LEMMA GoneRow ==
  /\ Idle \in Row /\ Idle.phase = "idle" /\ ~Idle.note
  /\ Gone \in Row /\ Gone.phase = "gone" /\ ~Gone.note
<1>1. 0 \in 0 .. MaxRuns
  BY TaskRunsAssumption
<1>2. Idle \in Row /\ Idle.phase = "idle" /\ ~Idle.note
  BY <1>1 DEF Idle, Row, Phase, ActionState
<1>3. Gone \in Row /\ Gone.phase = "gone" /\ ~Gone.note
  BY <1>2 DEF Gone, Row, Phase
<1> QED
  BY <1>2, <1>3

(* An ask leaves.                                                          *)
LEMMA LeaveKept ==
  ASSUME Memory, NEW a \in Ask, Leave(a)
  PROVE  /\ AsksKept
         /\ asks[a].phase # "enqueued" =>
              \A b \in Ask : At(b, "enqueued") => At(b, "enqueued")'
BY GoneRow, OneAsk DEF Leave, Over

(* Or changes its phase.                                                   *)
LEMMA GotoKept ==
  ASSUME Memory, NEW a \in Ask, NEW phase \in Phase \ {"settling"}, Goto(a, phase),
         asks[a].phase \notin {"idle", "gone", "ended", "dropped"}
  PROVE  /\ AsksKept
         /\ asks[a].phase # "enqueued" =>
              \A b \in Ask : At(b, "enqueued") => At(b, "enqueued")'
<1> DEFINE row == [asks[a] EXCEPT !.phase = phase]
<1>1. row \in Row /\ row.phase = phase /\ row.run = asks[a].run
  BY RunType DEF Row
<1>2. asks' = [asks EXCEPT ![a] = row]
  BY DEF Goto
<1>3. row.run \in DOMAIN runs
  BY <1>1 DEF Memory, Bound, RunOf
<1> HIDE DEF row
<1> QED
  BY <1>1, <1>2, <1>3, OneAsk DEF Over

(* A writer of a bound task ends or advances a live run, without           *)
(* completing it.                                                          *)
LEMMA MoveRunKept ==
  ASSUME Memory, AsksKept, NEW r \in DOMAIN runs, NEW from \in SUBSET Live,
         NEW to \in RunStatus \ {"completed"}, NEW moves, NEW status \in TicketStatus,
         MoveRun(r, from, to, moves, status)
  PROVE  RunsKept /\ ticket' \in [status : TicketStatus, accepted : BOOLEAN]
<1>1. TicketFree'
  BY DEF MoveRun, AsksKept, TicketFree, At
<1>2. CASE runs[r].status \in from
  <2> DEFINE run == [runs[r] EXCEPT !.status = to]
  <2>1. run \in Run /\ run.by = runs[r].by /\ run.status = to
    BY RunType DEF Run
  <2>2. runs' = [runs EXCEPT ![r] = run]
    BY <1>2 DEF MoveRun
  <2> HIDE DEF run
  <2>3. runs' \in Seq(Run) /\ Len(runs') = Len(runs) /\ DOMAIN runs' = DOMAIN runs
    BY <2>1, <2>2, RunType, ExceptSeq
  <2>4. RunsKept
    BY <1>1, <1>2, <2>1, <2>2, <2>3, RunType DEF RunsKept, Memory, TypeOK
  <2>5. [ticket EXCEPT !.status = status] \in [status : TicketStatus, accepted : BOOLEAN]
    BY DEF Memory, TypeOK
  <2>6. ticket' = ticket \/ ticket' = [ticket EXCEPT !.status = status]
    BY <1>2 DEF MoveRun
  <2> QED
    BY <2>4, <2>5, <2>6 DEF Memory, TypeOK
<1>3. CASE runs[r].status \notin from
  BY <1>3, Unchanged DEF MoveRun, Memory, TypeOK
<1> QED
  BY <1>2, <1>3

(* The user's commands on the task, and the follow-up of an action: they   *)
(* move the ticket, and touch no run.                                      *)
TicketStep ==
  \/ \E action \in {"accept", "complete", "cancel", "reopen"} : TransitionTicket(action)
  \/ AcknowledgeTask \/ AskForClarification \/ IllegalVerb \/ Stop
  \/ \E a \in Ask : SyncRuntimeTaskState(a)

(* A command of the user is counted.                                       *)
LEMMA EventType ==
  ASSUME Memory
  PROVE  /\ Event => events' \in 0 .. MaxEvents
         /\ events \in 0 .. MaxEvents
BY TaskRunsAssumption DEF Event, Memory, TypeOK

(* A ticket with another status.                                           *)
LEMMA TicketType ==
  ASSUME Memory, NEW status \in TicketStatus, NEW accepted \in BOOLEAN
  PROVE  /\ [ticket EXCEPT !.status = status] \in [status : TicketStatus, accepted : BOOLEAN]
         /\ [ticket EXCEPT !.status = status].status = status
         /\ [ticket EXCEPT !.status = status].accepted = ticket.accepted
         /\ [status |-> status, accepted |-> accepted]
              \in [status : TicketStatus, accepted : BOOLEAN]
         /\ ticket \in [status : TicketStatus, accepted : BOOLEAN]
BY DEF Memory, TypeOK

(* A step that writes the status of the ticket.                            *)
LEMMA TicketMoved ==
  ASSUME Memory, NEW status \in TicketStatus, ticket' = [ticket EXCEPT !.status = status]
  PROVE  ticket' \in [status : TicketStatus, accepted : BOOLEAN] /\ ticket'.status = status
BY TicketType

(* The outcome of a run is a status of a task.                             *)
LEMMA OutcomeType ==
  ASSUME NEW result, NEW action
  PROVE  TaskRunOutcome(result, action) \in TicketStatus
<1>1. CASE action \in {"uncertain", "cancelled"}
  BY <1>1 DEF TaskRunOutcome, TicketStatus
<1>2. CASE action \notin {"uncertain", "cancelled"}
  BY <1>2 DEF TaskRunOutcome, TicketStatus
<1> QED
  BY <1>1, <1>2

(* A command makes a ticket completed by acceptance only.                  *)
LEMMA TransitionType ==
  ASSUME Memory, NEW action \in {"accept", "complete", "cancel", "reopen"},
         TransitionTicket(action)
  PROVE  /\ ticket' \in [status : TicketStatus, accepted : BOOLEAN]
         /\ ticket'.status = "completed" => ticket'.accepted
<1>1. CASE action = "complete"
  BY <1>1 DEF TransitionTicket, TicketStatus
<1>2. CASE action = "reopen"
  BY <1>2 DEF TransitionTicket, TicketStatus
<1>3. CASE action = "accept"
  <2>1. ticket' = [ticket EXCEPT !.status = "accepted"] /\ "accepted" \in TicketStatus
    BY <1>3 DEF TransitionTicket, TicketStatus
  <2> QED
    BY <2>1, TicketType
<1>4. CASE action = "cancel"
  <2>1. ticket' = [ticket EXCEPT !.status = "cancelled"] /\ "cancelled" \in TicketStatus
    BY <1>4 DEF TransitionTicket, TicketStatus
  <2> QED
    BY <2>1, TicketType
<1> QED
  BY <1>1, <1>2, <1>3, <1>4

(* The commands on the ticket, stop, and the follow-up of an action leave  *)
(* asks and runs alone.                                                    *)
LEMMA TicketStepKept ==
  ASSUME Memory, TicketStep
  PROVE  Kept
<1> DEFINE Ticket == [status : TicketStatus, accepted : BOOLEAN]
<1>1. AsksKept /\ RunsKept /\ ActsKept /\ Queued'
  BY Unchanged DEF TicketStep, TransitionTicket, AcknowledgeTask, AskForClarification,
     IllegalVerb, Stop, SyncRuntimeTaskState, control, At
<1>2. /\ running \in BOOLEAN /\ stopped \in BOOLEAN /\ queue \in Seq(Ask)
      /\ toSync \subseteq Ask /\ ticket \in Ticket
      /\ verdict \in {"none", "open", "passed"} /\ skipped \subseteq 1 .. MaxRuns
  BY DEF Memory, TypeOK
<1>3. ASSUME NEW action \in {"accept", "complete", "cancel", "reopen"}, TransitionTicket(action)
      PROVE  ticket' \in Ticket
  BY <1>3, TransitionType
<1>4. AcknowledgeTask \/ AskForClarification \/ IllegalVerb => ticket' \in Ticket
  <2>1. {"in_progress", "needs_clarification", "failed"} \subseteq TicketStatus
    BY DEF TicketStatus
  <2>2. AcknowledgeTask => ticket' \in Ticket
    BY <2>1, TicketMoved DEF AcknowledgeTask
  <2>3. AskForClarification => ticket' \in Ticket
    BY <2>1, TicketMoved DEF AskForClarification
  <2>4. IllegalVerb => ticket' \in Ticket
    BY <2>1, TicketMoved DEF IllegalVerb
  <2> QED
    BY <2>2, <2>3, <2>4
<1>5. ASSUME NEW a \in Ask, SyncRuntimeTaskState(a) PROVE ticket' \in Ticket
  BY <1>2, <1>5, TicketType, OutcomeType, Zenon DEF SyncRuntimeTaskState
<1>6. CASE \E action \in {"accept", "complete", "cancel", "reopen"} : TransitionTicket(action)
  BY <1>1, <1>2, <1>3, <1>6, EventType DEF TransitionTicket, Kept, control, aside
<1>7. CASE AcknowledgeTask \/ AskForClarification \/ IllegalVerb
  BY <1>1, <1>2, <1>4, <1>7, EventType
  DEF AcknowledgeTask, AskForClarification, IllegalVerb, Kept, control, aside
<1>8. CASE Stop
  BY <1>1, <1>2, <1>8, EventType DEF Stop, Kept, aside
<1>9. CASE \E a \in Ask : SyncRuntimeTaskState(a)
  BY <1>1, <1>2, <1>5, <1>9, EventType DEF SyncRuntimeTaskState, Kept, control, aside
<1> QED
  BY <1>6, <1>7, <1>8, <1>9 DEF TicketStep

(* A new run, a controlled action and its outcomes.                        *)
LEMMA CreateRunKept ==
  ASSUME Memory, CreateRun
  PROVE  Kept
<1>1. AsksKept /\ ActsKept /\ Queued'
  BY Unchanged DEF CreateRun, control, At
<1>2. [status |-> "pending", by |-> Nobody] \in Run
  BY DEF Run, RunStatus
<1>3. /\ runs' \in Seq(Run) /\ Len(runs') = Len(runs) + 1
      /\ DOMAIN runs' = 1 .. (Len(runs) + 1)
      /\ \A r \in DOMAIN runs : runs'[r] = runs[r]
      /\ runs'[Len(runs) + 1] = [status |-> "pending", by |-> Nobody]
  BY <1>2, RunType, AppendProperties DEF CreateRun
<1>4. TicketFree'
  BY DEF CreateRun, TicketFree, At
<1>5. RunsKept
  BY <1>3, <1>4, RunType, TaskRunsAssumption DEF RunsKept, CreateRun, Latest
<1>6. ticket' \in [status : TicketStatus, accepted : BOOLEAN]
  <2>1. "pending" \in TicketStatus
    BY DEF TicketStatus
  <2> QED
    BY <2>1, TicketMoved DEF CreateRun
<1> QED
  BY <1>1, <1>5, <1>6 DEF CreateRun, Kept, Memory, TypeOK, control, aside

(* A controlled action is proposed by a working ask, and moves on.         *)
LEMMA ActionKept ==
  ASSUME Memory, NEW a \in Ask, ProposeAction(a) \/ ActionMoves(a)
  PROVE  Kept
<1>1. AsksKept /\ RunsKept /\ Queued'
  BY Unchanged DEF ProposeAction, ActionMoves, MoveAction, control, At
<1>2. ActsKept
  <2>1. acts \in [Ask -> ActionState]
    BY DEF Memory, TypeOK
  <2>2. CASE ProposeAction(a)
    BY <2>1, <2>2 DEF ProposeAction, ActsKept, ActionState, At
  <2>3. ASSUME NEW from \in {"pending", "dispatching"}, NEW to \in ActionState \ {"none"},
               MoveAction(a, from, to)
        PROVE  ActsKept
    BY <2>1, <2>3 DEF MoveAction, ActsKept
  <2> QED
    BY <2>2, <2>3 DEF ActionMoves, ActionState
<1> QED
  BY <1>1, <1>2 DEF ProposeAction, ActionMoves, MoveAction, Kept, Memory, TypeOK,
     control, aside

(* The steps of an ask up to the end of its work, save those that change   *)
(* the queue.                                                              *)
AskStep(a) ==
  \/ \E r \in DOMAIN runs : SendMessage(a, r)
  \/ RefuseTemplate(a) \/ FailBoundTask(a) \/ QueueBoundTask(a) \/ Launch(a)
  \/ StartBoundTask(a) \/ StoppedBoundTask(a)

(* An ask of the Host's memory is bound to a run.                          *)
LEMMA InMemory ==
  ASSUME Memory, NEW a \in Ask, asks[a].note \/ asks[a].phase \notin {"idle", "gone"}
  PROVE  RunOf(a) \in DOMAIN runs
BY DEF Memory, Bound

(* A message arrives with the run it is bound to.                          *)
LEMMA SendMessageKept ==
  ASSUME Memory, NEW a \in Ask, NEW r \in DOMAIN runs, SendMessage(a, r)
  PROVE  Kept
<1> DEFINE row == [Idle EXCEPT !.phase = "checking", !.run = r]
<1>1. r \in 0 .. MaxRuns
  BY RunType, TaskRunsAssumption DEF Memory, TypeOK
<1>2. row \in Row /\ row.phase = "checking" /\ row.run = r
  BY <1>1, GoneRow DEF Row, Phase
<1>3. asks' = [asks EXCEPT ![a] = row] /\ asks[a].phase = "idle"
  BY DEF SendMessage, At
<1> HIDE DEF row
<1>4. AsksKept /\ \A b \in Ask : At(b, "enqueued") => At(b, "enqueued")'
  BY <1>2, <1>3, OneAsk DEF Over
<1>5. RunsKept /\ ActsKept /\ Queued'
  BY <1>4, Unchanged DEF SendMessage
<1> QED
  BY <1>4, <1>5 DEF SendMessage, Kept, aside, Memory, TypeOK

(* A run is called failed, whatever it was.                                *)
LEMMA FailedRun ==
  ASSUME Memory, NEW r \in DOMAIN runs
  PROVE  LET run == [runs[r] EXCEPT !.status = "failed"] IN
         run \in Run /\ run.by = runs[r].by /\ run.status = "failed"
BY RunType DEF Run, RunStatus

(* The template of its run has changed.                                    *)
LEMMA RefuseTemplateKept ==
  ASSUME Memory, NEW a \in Ask, RefuseTemplate(a)
  PROVE  Kept
<1> DEFINE run == [runs[RunOf(a)] EXCEPT !.status = "failed"]
<1>1. RunOf(a) \in DOMAIN runs
  BY InMemory DEF RefuseTemplate, At
<1>2. run \in Run /\ run.by = runs[RunOf(a)].by /\ run.status = "failed"
  BY <1>1, FailedRun
<1>3. runs' = [runs EXCEPT ![RunOf(a)] = run]
  BY DEF RefuseTemplate
<1> HIDE DEF run
<1>4. AsksKept /\ \A b \in Ask : At(b, "enqueued") => At(b, "enqueued")'
  BY LeaveKept DEF RefuseTemplate, At
<1>5. TicketFree'
  BY <1>4 DEF RefuseTemplate, AsksKept, TicketFree, At
<1>6. runs' \in Seq(Run) /\ Len(runs') = Len(runs) /\ DOMAIN runs' = DOMAIN runs
  BY <1>1, <1>2, <1>3, RunType, ExceptSeq
<1>7. RunsKept
  BY <1>1, <1>2, <1>3, <1>5, <1>6, RunType DEF RunsKept, Memory, TypeOK
<1>8. ticket' \in [status : TicketStatus, accepted : BOOLEAN]
  <2>1. "needs_clarification" \in TicketStatus
    BY DEF TicketStatus
  <2> QED
    BY <2>1, TicketMoved DEF RefuseTemplate
<1> QED
  BY <1>4, <1>7, <1>8, Unchanged DEF RefuseTemplate, Kept, control, aside, Memory, TypeOK

(* Every run of the task is called failed.                                 *)
LEMMA FailEveryRunKept ==
  ASSUME Memory, FailEveryRun
  PROVE  Kept
<1>1. runs' = [r \in 1 .. Len(runs) |-> [runs[r] EXCEPT !.status = "failed"]]
  BY RunType DEF FailEveryRun
<1>2. AsksKept /\ ActsKept /\ Queued' /\ TicketFree'
  BY Unchanged DEF FailEveryRun, control, At, TicketFree
<1>3. runs' \in Seq(Run) /\ Len(runs') = Len(runs) /\ DOMAIN runs' = DOMAIN runs
  <2>1. runs' \in [1 .. Len(runs) -> Run]
    BY <1>1, RunType, FailedRun
  <2> QED
    BY <2>1, RunType
<1>4. \A r \in DOMAIN runs : runs'[r].by = runs[r].by /\ runs'[r].status = "failed"
  BY <1>1, RunType, FailedRun
<1>5. RunsKept
  BY <1>2, <1>3, <1>4, RunType DEF RunsKept, Memory, TypeOK
<1> QED
  BY <1>2, <1>5 DEF FailEveryRun, Kept, control, Memory, TypeOK

(* An ask goes through its phases up to the end of its work.               *)
LEMMA AskStepKept ==
  ASSUME Memory, NEW a \in Ask, AskStep(a)
  PROVE  Kept
<1>1. CASE \E r \in DOMAIN runs : SendMessage(a, r)
  BY <1>1, SendMessageKept
<1>2. CASE FailBoundTask(a)
  <2>1. RunOf(a) \in DOMAIN runs
    BY <1>2, InMemory DEF FailBoundTask, At
  <2>2. AsksKept /\ \A b \in Ask : At(b, "enqueued") => At(b, "enqueued")'
    BY <1>2, LeaveKept DEF FailBoundTask, At
  <2>3. PICK status \in {"failed", "needs_clarification"} :
          MoveRun(RunOf(a), Live, "failed", NotOver, status)
    BY <1>2 DEF FailBoundTask
  <2>4. RunsKept /\ ticket' \in [status : TicketStatus, accepted : BOOLEAN]
    BY <2>1, <2>2, <2>3, MoveRunKept DEF RunStatus, TicketStatus
  <2> QED
    BY <1>2, <2>2, <2>4, Unchanged DEF FailBoundTask, Kept, control, aside, Memory, TypeOK
<1>3. CASE QueueBoundTask(a)
  <2>1. RunOf(a) \in DOMAIN runs
    BY <1>3, InMemory DEF QueueBoundTask
  <2>2. AsksKept /\ \A b \in Ask : At(b, "enqueued") => At(b, "enqueued")'
    <3> DEFINE row == [asks[a] EXCEPT !.note = FALSE]
    <3>1. row \in Row /\ row.phase = asks[a].phase /\ row.run = asks[a].run
      BY RunType DEF Row
    <3>2. asks' = [asks EXCEPT ![a] = row] /\ asks[a].phase # "settling"
      BY <1>3 DEF QueueBoundTask, MoveRun, TicketFree, At
    <3> HIDE DEF row
    <3>3. AsksKept
      BY <2>1, <3>1, <3>2, OneAsk DEF RunOf
    <3> QED
      BY <3>1, <3>2, <3>3, RunType DEF At
  <2>3. MoveRun(RunOf(a), {"pending"}, "queued", NotOver, "queued")
    BY <1>3 DEF QueueBoundTask
  <2>4. RunsKept /\ ticket' \in [status : TicketStatus, accepted : BOOLEAN]
    BY <2>1, <2>2, <2>3, MoveRunKept DEF RunStatus, TicketStatus, Live
  <2> QED
    BY <1>3, <2>2, <2>4, Unchanged DEF QueueBoundTask, Kept, control, aside, Memory, TypeOK
<1>4. CASE Launch(a)
  <2>1. RunOf(a) \in DOMAIN runs
    BY <1>4, InMemory DEF Launch, At
  <2>2. AsksKept /\ \A b \in Ask : At(b, "enqueued") => At(b, "enqueued")'
    BY <1>4, LeaveKept, GotoKept DEF Launch, At, Phase
  <2>3. RunsKept /\ ticket' \in [status : TicketStatus, accepted : BOOLEAN]
    <3>1. CASE CancelBoundTask(RunOf(a))
      BY <2>1, <2>2, <3>1, MoveRunKept DEF CancelBoundTask, RunStatus, TicketStatus
    <3>2. CASE UNCHANGED <<ticket, runs>>
      BY <3>2, Unchanged DEF Memory, TypeOK
    <3> QED
      BY <1>4, <3>1, <3>2 DEF Launch
  <2> QED
    BY <1>4, <2>2, <2>3, Unchanged DEF Launch, Kept, aside, Memory, TypeOK
<1>5. CASE StartBoundTask(a)
  <2>1. RunOf(a) \in DOMAIN runs
    BY <1>5, InMemory DEF StartBoundTask, At
  <2>2. AsksKept /\ \A b \in Ask : At(b, "enqueued") => At(b, "enqueued")'
    BY <1>5, GotoKept DEF StartBoundTask, At, Phase
  <2>3. MoveRun(RunOf(a), {"pending", "queued"}, "running", TicketStatus, "running")
    BY <1>5 DEF StartBoundTask
  <2>4. RunsKept /\ ticket' \in [status : TicketStatus, accepted : BOOLEAN]
    BY <2>1, <2>2, <2>3, MoveRunKept DEF RunStatus, TicketStatus, Live
  <2> QED
    BY <1>5, <2>2, <2>4, Unchanged DEF StartBoundTask, Kept, control, aside, Memory, TypeOK
<1>6. CASE StoppedBoundTask(a)
  <2>1. RunOf(a) \in DOMAIN runs
    BY <1>6, InMemory DEF StoppedBoundTask, At
  <2>2. AsksKept /\ \A b \in Ask : At(b, "enqueued") => At(b, "enqueued")'
    BY <1>6, GotoKept DEF StoppedBoundTask, At, Phase
  <2>3. MoveRun(RunOf(a), {"running"}, "cancelled", BeingRun, "stopped")
    BY <1>6 DEF StoppedBoundTask
  <2>4. RunsKept /\ ticket' \in [status : TicketStatus, accepted : BOOLEAN]
    BY <2>1, <2>2, <2>3, MoveRunKept DEF RunStatus, TicketStatus, Live
  <2> QED
    BY <1>6, <2>2, <2>4, Unchanged DEF StoppedBoundTask, Kept, control, aside, Memory, TypeOK
<1>7. CASE RefuseTemplate(a)
  BY <1>7, RefuseTemplateKept
<1> QED
  BY <1>1, <1>2, <1>3, <1>4, <1>5, <1>6, <1>7 DEF AskStep

(* The steps that change the queue.                                        *)
LEMMA QueueType ==
  ASSUME Memory
  PROVE  /\ queue \in Seq(Ask) /\ DOMAIN queue = 1 .. Len(queue) /\ Len(queue) \in Nat
         /\ \A i \in DOMAIN queue : queue[i] \in Ask
BY DEF Memory, TypeOK

(* A sequence without its i-th element.                                    *)
LEMMA RemovedAt ==
  ASSUME NEW S, NEW s \in Seq(S), NEW i \in 1 .. Len(s)
  PROVE  /\ RemoveAt(s, i) \in Seq(S) /\ DOMAIN RemoveAt(s, i) = 1 .. (Len(s) - 1)
         /\ \A k \in DOMAIN RemoveAt(s, i) :
              RemoveAt(s, i)[k] = s[IF k < i THEN k ELSE k + 1]
<1> DEFINE front == SubSeq(s, 1, i - 1)
           rest == SubSeq(s, i + 1, Len(s))
<1>0. Len(s) \in Nat /\ i \in Int /\ Len(s) - 1 \in Int
  OBVIOUS
<1>1. /\ front \in Seq(S) /\ Len(front) = i - 1
      /\ \A k \in 1 .. (i - 1) : front[k] = s[k]
  BY SubSeqProperties
<1>2. /\ rest \in Seq(S) /\ Len(rest) = Len(s) - i
      /\ \A k \in 1 .. (Len(s) - i) : rest[k] = s[k + i]
  BY SubSeqProperties
<1>3. RemoveAt(s, i) = front \o rest
  BY DEF RemoveAt
<1> HIDE DEF front, rest
<1>7. Len(front) + Len(rest) = Len(s) - 1
  BY <1>0, <1>1, <1>2
<1>4. /\ front \o rest \in Seq(S) /\ Len(front \o rest) = Len(s) - 1
      /\ \A k \in 1 .. (Len(s) - 1) :
           (front \o rest)[k] = IF k <= i - 1 THEN front[k] ELSE rest[k - (i - 1)]
  <2>1. /\ front \o rest \in Seq(S) /\ Len(front \o rest) = Len(front) + Len(rest)
        /\ \A k \in 1 .. (Len(front) + Len(rest)) :
             (front \o rest)[k] = IF k <= Len(front) THEN front[k] ELSE rest[k - Len(front)]
    BY <1>1, <1>2, ConcatProperties
  <2> QED
    BY <1>1, <1>7, <2>1
<1>5. ASSUME NEW k \in 1 .. (Len(s) - 1)
      PROVE  (front \o rest)[k] = s[IF k < i THEN k ELSE k + 1]
  <2>0. k < i \/ k >= i
    BY <1>0
  <2>1. CASE k < i
    BY <1>1, <1>4, <2>1
  <2>2. CASE k >= i
    <3>1. k - (i - 1) \in 1 .. (Len(s) - i) /\ k - (i - 1) + i = k + 1
      BY <2>2
    <3> QED
      BY <1>2, <1>4, <2>2, <3>1
  <2> QED
    BY <2>0, <2>1, <2>2
<1>6. DOMAIN (front \o rest) = 1 .. (Len(s) - 1)
  BY <1>4
<1> QED
  BY <1>3, <1>4, <1>5, <1>6

(* An ask is admitted: launched, or put into the queue once.               *)
LEMMA AdmitKept ==
  ASSUME Memory, NEW a \in Ask, Admit(a)
  PROVE  Kept
<1>1. RunOf(a) \in DOMAIN runs /\ asks[a].phase = "checking"
  BY InMemory DEF Admit, At
<1>2. ticket \in [status : TicketStatus, accepted : BOOLEAN] /\ running \in BOOLEAN
  BY DEF Memory, TypeOK
<1>3. CASE queue' = Append(queue, a) /\ UNCHANGED <<ticket, runs, running>>
           /\ asks' = [asks EXCEPT ![a].phase = "enqueued", ![a].note = TRUE]
  <2> DEFINE row == [asks[a] EXCEPT !.phase = "enqueued", !.note = TRUE]
  <2>1. row \in Row /\ row.phase = "enqueued" /\ row.run = asks[a].run
    BY RunType DEF Row, Phase
  <2>2. asks' = [asks EXCEPT ![a] = row]
    BY <1>3
  <2> HIDE DEF row
  <2>3. AsksKept
    BY <1>1, <2>1, <2>2, OneAsk DEF RunOf, Over
  <2>4. \A b \in Ask : At(b, "enqueued") \/ b = a => At(b, "enqueued")'
    BY <2>1, <2>2, RunType DEF At
  <2>5. /\ queue' \in Seq(Ask) /\ DOMAIN queue' = 1 .. (Len(queue) + 1)
        /\ \A i \in 1 .. Len(queue) : queue'[i] = queue[i]
        /\ queue'[Len(queue) + 1] = a
    BY <1>3, QueueType, AppendProperties
  <2>6. \A i \in DOMAIN queue : queue[i] # a /\ At(queue[i], "enqueued")
    BY <1>1 DEF Memory, Queued, At
  <2>7. Queued'
    BY <2>4, <2>5, <2>6, QueueType DEF Memory, Queued
  <2> QED
    BY <1>2, <1>3, <2>3, <2>5, <2>7, Unchanged DEF Admit, Kept, aside, Memory, TypeOK
<1>4. CASE CancelBoundTask(RunOf(a)) /\ Leave(a) /\ UNCHANGED <<running, queue>>
  <2>1. AsksKept /\ \A b \in Ask : At(b, "enqueued") => At(b, "enqueued")'
    BY <1>1, <1>4, LeaveKept
  <2>2. RunsKept /\ ticket' \in [status : TicketStatus, accepted : BOOLEAN]
    BY <1>1, <1>4, <2>1, MoveRunKept DEF CancelBoundTask, RunStatus, TicketStatus
  <2> QED
    BY <1>4, <2>1, <2>2, Unchanged DEF Admit, Kept, aside, Memory, TypeOK
<1>5. CASE running' = TRUE /\ Goto(a, "marked") /\ UNCHANGED <<ticket, runs, queue>>
  <2>1. AsksKept /\ \A b \in Ask : At(b, "enqueued") => At(b, "enqueued")'
    BY <1>1, <1>5, GotoKept DEF Phase
  <2> QED
    BY <1>2, <1>5, <2>1, Unchanged DEF Admit, Kept, aside, Memory, TypeOK
<1> QED
  BY <1>3, <1>4, <1>5 DEF Admit

(* A queued ask is taken out of the queue by its user.                     *)
LEMMA RemoveQueuedKept ==
  ASSUME Memory, NEW a \in Ask, RemoveQueued(a)
  PROVE  Kept
<1>1. PICK i \in DOMAIN queue : queue[i] = a /\ queue' = RemoveAt(queue, i)
  BY DEF RemoveQueued
<1>2. At(a, "enqueued") /\ RunOf(a) \in DOMAIN runs
  BY <1>1, InMemory DEF Memory, Queued, At
<1>3. AsksKept
  BY LeaveKept DEF RemoveQueued
<1>4. RunsKept /\ ticket' \in [status : TicketStatus, accepted : BOOLEAN]
  BY <1>2, <1>3, MoveRunKept DEF RemoveQueued, CancelBoundTask, RunStatus, TicketStatus
<1>5. /\ queue' \in Seq(Ask) /\ DOMAIN queue' = 1 .. (Len(queue) - 1)
      /\ \A k \in DOMAIN queue' : queue'[k] = queue[IF k < i THEN k ELSE k + 1]
  BY <1>1, QueueType, RemovedAt
<1>6. \A b \in Ask \ {a} : asks'[b] = asks[b]
  BY RunType DEF RemoveQueued, Leave
<1>7. Queued'
  <2>1. \A k \in DOMAIN queue' : /\ (IF k < i THEN k ELSE k + 1) \in DOMAIN queue
                                 /\ (IF k < i THEN k ELSE k + 1) # i
    BY <1>1, <1>5, QueueType
  <2>2. \A k \in DOMAIN queue' : queue'[k] \in Ask \ {a} /\ At(queue'[k], "enqueued")
    BY <1>1, <1>5, <2>1, QueueType DEF Memory, Queued
  <2>3. \A k, l \in DOMAIN queue' : queue'[k] = queue'[l] => k = l
    BY <1>1, <1>5, <2>1, QueueType DEF Memory, Queued
  <2> QED
    BY <1>6, <2>2, <2>3 DEF Queued, At
<1> QED
  BY <1>3, <1>4, <1>5, <1>7, Unchanged DEF RemoveQueued, Kept, aside, Memory, TypeOK

(* An ask whose work is over launches the next of the queue.               *)
LEMMA AfterRunKept ==
  ASSUME Memory, NEW a \in Ask, AfterRun(a)
  PROVE  Kept
<1>1. asks[a].phase \in {"ended", "dropped"} /\ RunsKept /\ ActsKept
  BY Unchanged DEF AfterRun, At
<1>2. running' \in BOOLEAN
  BY DEF AfterRun, Memory, TypeOK
<1>3. CASE Leave(a) /\ UNCHANGED queue
  BY <1>1, <1>2, <1>3, LeaveKept, Unchanged DEF AfterRun, Kept, aside, Memory, TypeOK
<1>4. CASE /\ queue # <<>> /\ queue' = Tail(queue)
           /\ asks' = [asks EXCEPT ![a] = Gone, ![Head(queue)].phase = "launching"]
  <2> DEFINE h == queue[1]
             row == [asks[h] EXCEPT !.phase = "launching"]
  <2>1. h \in Ask /\ At(h, "enqueued") /\ h # a /\ Head(queue) = h /\ 1 \in DOMAIN queue
    BY <1>1, <1>4, QueueType DEF Memory, Queued, At
  <2>2. row \in Row /\ row.phase = "launching" /\ row.run = asks[h].run
    BY <2>1, RunType DEF Row, Phase
  <2>3. RunOf(h) \in DOMAIN runs
    BY <2>1, InMemory DEF At
  <2>4. asks' \in [Ask -> Row] /\ asks'[a] = Gone /\ asks'[h] = row
        /\ \A b \in Ask \ {a, h} : asks'[b] = asks[b]
    BY <1>4, <2>1, <2>2, GoneRow, RunType
  <2> HIDE DEF h, row
  <2>5. AsksKept
    BY <1>1, <2>1, <2>2, <2>3, <2>4, GoneRow DEF AsksKept, Memory, Bound, RunOf, Over, At
  <2>6. /\ queue' \in Seq(Ask) /\ DOMAIN queue' = 1 .. (Len(queue) - 1)
        /\ \A k \in DOMAIN queue' : queue'[k] = queue[k + 1] /\ k + 1 \in DOMAIN queue /\ k + 1 # 1
    BY <1>4, QueueType, HeadTailProperties
  <2>7. \A k \in DOMAIN queue' : queue'[k] \in Ask \ {a, h} /\ At(queue'[k], "enqueued")
    BY <1>1, <2>1, <2>6, QueueType DEF Memory, Queued, At, h
  <2>8. \A k, l \in DOMAIN queue' : queue'[k] = queue'[l] => k = l
    <3> SUFFICES ASSUME NEW k \in DOMAIN queue', NEW l \in DOMAIN queue', queue'[k] = queue'[l]
                 PROVE  k = l
      OBVIOUS
    <3>1. k + 1 = l + 1
      BY <2>6 DEF Memory, Queued
    <3> QED
      BY <2>6, <3>1, QueueType
  <2>9. Queued'
    BY <2>4, <2>7, <2>8 DEF Queued, At
  <2> QED
    BY <1>1, <1>2, <2>5, <2>6, <2>9 DEF AfterRun, Kept, aside, Memory, TypeOK
<1> QED
  BY <1>3, <1>4 DEF AfterRun

(* The Host restarts.                                                      *)
LEMMA RestartKept ==
  ASSUME Memory, Restart
  PROVE  Kept
<1>1. AsksKept /\ TicketFree'
  BY GoneRow, RunType DEF Restart, AsksKept, TicketFree, At, Over
<1>2. ASSUME runs' = [r \in DOMAIN runs |-> IF runs[r].status = "running"
                        THEN [runs[r] EXCEPT !.status = "failed"] ELSE runs[r]]
      PROVE  RunsKept
  <2>1. runs' \in Seq(Run) /\ Len(runs') = Len(runs) /\ DOMAIN runs' = DOMAIN runs
    <3>1. runs' \in [1 .. Len(runs) -> Run]
      BY <1>2, RunType, FailedRun
    <3> QED
      BY <3>1, RunType
  <2>2. \A r \in DOMAIN runs : /\ runs'[r].by = runs[r].by
                              /\ runs'[r].status = IF runs[r].status = "running"
                                                   THEN "failed" ELSE runs[r].status
    BY <1>2, RunType, FailedRun
  <2>3. ASSUME NEW r \in DOMAIN runs
        PROVE  /\ runs'[r].by = runs[r].by
               /\ runs'[r].status = "completed" => runs[r].status = "completed"
               /\ runs[r].status \notin Live => runs'[r].status \in {runs[r].status, "failed"}
    BY <2>2
  <2>4. Len(runs) <= MaxRuns
    BY DEF Memory, TypeOK
  <2> QED
    BY <1>1, <2>1, <2>3, <2>4, RunType DEF RunsKept
<1>3. RunsKept
  <2>1. CASE runs' = runs
    BY <2>1, Unchanged
  <2> QED
    BY <1>2, <2>1 DEF Restart
<1>4. ticket' \in [status : TicketStatus, accepted : BOOLEAN]
  <2>1. "failed" \in TicketStatus
    BY DEF TicketStatus
  <2>2. ticket' = [ticket EXCEPT !.status = "failed"] \/ ticket' = ticket
    BY DEF Restart
  <2> QED
    BY <2>1, <2>2, TicketMoved, TicketType
<1>5. Queued' /\ queue' \in Seq(Ask)
  BY DEF Restart, Queued
<1>6. skipped' \subseteq 1 .. MaxRuns /\ verdict' \in {"none", "open", "passed"}
  BY RunType, TaskRunsAssumption DEF Restart, Memory, TypeOK
<1> QED
  BY <1>1, <1>3, <1>4, <1>5, <1>6, EventType, Unchanged DEF Restart, Kept, Memory, TypeOK

(* An ask whose work is over keeps its run.                                *)
LEMMA WorkOverRow ==
  ASSUME Memory, NEW a \in Ask, NEW result
  PROVE  /\ WorkOver(a, result) \in Row /\ WorkOver(a, result).run = asks[a].run
         /\ WorkOver(a, result).phase \in {"ended", "dropped"}
<1> DEFINE phase == IF result = "unprepared" THEN "dropped" ELSE "ended"
<1>1. phase \in {"ended", "dropped"}
  OBVIOUS
<1>2. WorkOver(a, result) = [asks[a] EXCEPT !.phase = phase, !.result = "ok", !.saw = "none"]
  BY DEF WorkOver
<1> HIDE DEF phase
<1>3. phase \in Phase /\ "none" \in ActionState /\ asks[a] \in Row
  BY <1>1, RunType DEF Phase, ActionState
<1> QED
  BY <1>1, <1>2, <1>3 DEF Row

(* The end of an ask's work: it takes the lock, or finds its run over.     *)
LEMMA FinishMemory ==
  ASSUME Memory, NEW a \in Ask, At(a, "working"), running' \in BOOLEAN,
         NEW result \in {"ok", "failed", "clarify", "unprepared"}, Finish(a, result)
  PROVE  Memory'
<1> DEFINE live == runs[RunOf(a)].status \in Live
           row == IF live THEN LockTaken(a, result) ELSE WorkOver(a, result)
<1>1. acts[a] \in ActionState /\ "none" \in ActionState
  BY DEF Memory, TypeOK, ActionState
<1>2. row \in Row /\ row.phase \in (IF live THEN {"settling"} ELSE {"ended", "dropped"})
      /\ row.run = asks[a].run /\ (live => row.saw = acts[a])
  <2>1. CASE live
    BY <1>1, <2>1, RunType DEF LockTaken, Row, Phase
  <2>2. CASE ~ live
    BY <1>1, <2>2, WorkOverRow
  <2> QED
    BY <2>1, <2>2
<1>3. asks' = [asks EXCEPT ![a] = row] /\ UNCHANGED <<ticket, runs, queue, acts>>
  BY DEF Finish
<1>4. RunOf(a) \in DOMAIN runs
  BY InMemory DEF At
<1> HIDE DEF row, live
<1>5. asks' \in [Ask -> Row] /\ asks'[a] = row /\ \A b \in Ask \ {a} : asks'[b] = asks[b]
  BY <1>2, <1>3, RunType
<1>6. Bound'
  BY <1>2, <1>3, <1>4, <1>5 DEF Memory, Bound, RunOf
<1>7. Settling'
  <2>1. \A b \in Ask : asks'[b].phase = "settling" => b = a
    BY <1>5 DEF Finish, TicketFree, At
  <2>2. asks'[a].phase = "settling" =>
          /\ runs[asks'[a].run].status \in Live
          /\ asks'[a].saw = acts[a]
    BY <1>2, <1>5 DEF live, RunOf
  <2> QED
    BY <1>3, <2>1, <2>2 DEF Settling, At, RunOf
<1>8. Recorded'
  BY <1>2, <1>3, <1>5 DEF Memory, Recorded, At, Over
<1>9. Queued'
  BY <1>3, <1>5, Unchanged DEF At
<1>10. TypeOK'
  BY <1>5 DEF Finish, aside, Memory, TypeOK, Row
<1> QED
  BY <1>6, <1>7, <1>8, <1>9, <1>10 DEF Memory

(* What finishBoundTask writes of its run.                                 *)
LEMMA CommitRuns ==
  ASSUME Memory, NEW a \in Ask, FinishCommit(a)
  PROVE  LET outcome == TaskRunOutcome(asks[a].result, asks[a].saw)
             status == IF outcome \in {"failed", "needs_clarification"}
                       THEN "failed" ELSE "completed" IN
         /\ RunOf(a) \in DOMAIN runs /\ runs[RunOf(a)].status \in Live
         /\ runs' \in Seq(Run) /\ Len(runs') = Len(runs) /\ DOMAIN runs' = DOMAIN runs
         /\ runs'[RunOf(a)].status = status /\ runs'[RunOf(a)].by = a
         /\ \A r \in DOMAIN runs \ {RunOf(a)} : runs'[r] = runs[r]
<1> DEFINE outcome == TaskRunOutcome(asks[a].result, asks[a].saw)
           status == IF outcome \in {"failed", "needs_clarification"} THEN "failed" ELSE "completed"
           run == [by |-> a, status |-> status]
<1>1. run \in Run /\ run.by = a /\ run.status = status
  BY DEF Run, RunStatus
<1>2. runs' = [runs EXCEPT ![RunOf(a)] = run]
  BY DEF FinishCommit
<1>3. RunOf(a) \in DOMAIN runs /\ runs[RunOf(a)].status \in Live
  BY InMemory DEF FinishCommit, Memory, Settling, At
<1> HIDE DEF run
<1> QED
  BY <1>1, <1>2, <1>3, RunType, ExceptSeq DEF status, outcome

(* The end of an ask is recorded under the ticket's lock.                  *)
LEMMA FinishCommitMemory ==
  ASSUME Memory, NEW a \in Ask, FinishCommit(a)
  PROVE  Memory'
<1> DEFINE row == WorkOver(a, asks[a].result)
<1>1. row \in Row /\ row.phase \in {"ended", "dropped"} /\ row.run = asks[a].run
  BY WorkOverRow
<1>2. asks' = [asks EXCEPT ![a] = row] /\ At(a, "settling") /\ UNCHANGED <<queue, acts>>
  BY DEF FinishCommit, control
<1> HIDE DEF row
<1>3. asks' \in [Ask -> Row] /\ asks'[a] = row /\ \A b \in Ask \ {a} : asks'[b] = asks[b]
  BY <1>1, <1>2, RunType
<1>4. /\ RunOf(a) \in DOMAIN runs
      /\ runs' \in Seq(Run) /\ Len(runs') = Len(runs) /\ DOMAIN runs' = DOMAIN runs
      /\ runs'[RunOf(a)].by = a
      /\ \A r \in DOMAIN runs \ {RunOf(a)} : runs'[r] = runs[r]
  BY CommitRuns
<1>5. Bound'
  BY <1>1, <1>3, <1>4 DEF Memory, Bound, RunOf
<1>6. Settling'
  BY <1>1, <1>2, <1>3 DEF Memory, Settling, At
<1>7. Recorded'
  BY <1>1, <1>3, <1>4 DEF Memory, Recorded, Over
<1>8. Queued'
  BY <1>2, <1>3, Unchanged DEF At
<1>9. ticket' \in [status : TicketStatus, accepted : BOOLEAN]
  BY TicketType, OutcomeType DEF FinishCommit
<1>10. TypeOK'
  BY <1>3, <1>4, <1>9 DEF FinishCommit, control, aside, Memory, TypeOK, Row, Run
<1> QED
  BY <1>5, <1>6, <1>7, <1>8, <1>10 DEF Memory

-----------------------------------------------------------------------------
(* The invariant, and what a run that is over stays.                       *)

EndedStay ==
  \A r \in DOMAIN runs : runs[r].status \notin Live =>
    runs'[r].status \in {runs[r].status, "failed"} /\ runs'[r].by = runs[r].by

(* The steps but those of the end of an ask.                               *)
KeptStep ==
  \/ TicketStep \/ FailEveryRun \/ CreateRun \/ Restart
  \/ \E a \in Ask : \/ AskStep(a) \/ Admit(a) \/ RemoveQueued(a) \/ AfterRun(a)
                    \/ ProposeAction(a) \/ ActionMoves(a)

EndStep(a) ==
  \/ \E result \in {"ok", "failed", "clarify", "unprepared"} :
       At(a, "working") /\ running' \in BOOLEAN /\ Finish(a, result)
  \/ FinishCommit(a)

(* Every step is one of a kept kind, the end of an ask, or a stutter.      *)
LEMMA Steps ==
  ASSUME Memory, [Next]_vars
  PROVE  KeptStep \/ (\E a \in Ask : EndStep(a)) \/ UNCHANGED vars
<1>1. running \in BOOLEAN
  BY DEF Memory, TypeOK
<1>2. ASSUME NEW a \in Ask, WorkEnds(a) \/ PreparationFails(a) PROVE EndStep(a)
  BY <1>1, <1>2 DEF WorkEnds, PreparationFails, EndStep
<1> QED
  BY <1>2 DEF Next, Step, KeptStep, TicketStep, AskStep, EndStep

(* Steps of the kept kinds keep what they should.                          *)
LEMMA KeptStepKept ==
  ASSUME Memory, KeptStep
  PROVE  Kept
BY TicketStepKept, FailEveryRunKept, CreateRunKept, RestartKept, AskStepKept, AdmitKept,
   RemoveQueuedKept, AfterRunKept, ActionKept DEF KeptStep

(* Every step keeps the invariant, and a run that has ended its status.    *)
LEMMA MemoryStep ==
  ASSUME Memory, [Next]_vars
  PROVE  Memory' /\ EndedStay
<1>1. CASE KeptStep
  BY <1>1, KeptStepKept, KeptMemory DEF Kept, RunsKept, EndedStay
<1>2. ASSUME NEW a \in Ask, NEW result \in {"ok", "failed", "clarify", "unprepared"},
             At(a, "working"), running' \in BOOLEAN, Finish(a, result)
      PROVE  Memory' /\ EndedStay
  BY <1>2, FinishMemory DEF Finish, EndedStay
<1>3. ASSUME NEW a \in Ask, FinishCommit(a) PROVE Memory' /\ EndedStay
  BY <1>3, FinishCommitMemory, CommitRuns DEF EndedStay
<1>4. CASE UNCHANGED vars
  BY <1>4 DEF vars, Memory, TypeOK, Queued, Bound, Settling, Recorded, EndedStay, At, RunOf
<1> QED
  BY <1>1, <1>2, <1>3, <1>4, Steps DEF EndStep

(* The invariant holds in every reachable state.                           *)
LEMMA MemoryInvariant == Spec => []Memory
<1>1. Init => Memory
  <2> SUFFICES ASSUME Init PROVE Memory
    OBVIOUS
  <2>1. TypeOK
    <3>1. ticket \in [status : TicketStatus, accepted : BOOLEAN]
      BY DEF Init, TicketStatus
    <3>2. acts \in [Ask -> ActionState]
      BY DEF Init, ActionState
    <3>3. asks \in [Ask -> Row]
      BY GoneRow DEF Init
    <3>4. 0 <= MaxRuns /\ 0 \in 0 .. MaxEvents
      BY TaskRunsAssumption
    <3>5. runs \in Seq(Run) /\ Len(runs) = 0 /\ queue \in Seq(Ask)
      BY DEF Init
    <3>6. running \in BOOLEAN /\ stopped \in BOOLEAN /\ toSync \subseteq Ask /\ events = 0
      BY DEF Init
    <3>7. verdict \in {"none", "open", "passed"} /\ skipped \subseteq 1 .. MaxRuns
      BY DEF Init
    <3> QED
      BY <3>1, <3>2, <3>3, <3>4, <3>5, <3>6, <3>7 DEF TypeOK, Row, Run
  <2> QED
    BY <2>1, GoneRow DEF Init, Memory, Queued, Bound, Settling, Recorded, At
<1> QED
  BY <1>1, MemoryStep, PTL DEF Spec

(* Every reachable state of the ticket, its runs and the asks is well      *)
(* typed.                                                                  *)
THEOREM TypeCorrect == Spec => []TypeOK
<1>1. Memory => TypeOK
  BY DEF Memory
<1> QED
  BY <1>1, MemoryInvariant, PTL

(* Nothing brings a run back that is over, or takes it for the work of     *)
(* another ask, for any number of asks of one run, commands, verdicts and  *)
(* restarts.                                                               *)
THEOREM NoRunRevivedAlways == Spec => NoRunRevived
<1>1. Memory /\ [Next]_vars => [EndedStay]_vars
  BY MemoryStep
<1> QED
  BY <1>1, MemoryInvariant, PTL DEF Spec, NoRunRevived, EndedStay

-----------------------------------------------------------------------------
(* What the ticket says.                                                   *)

(* A ticket that is not completed but by acceptance says nothing wrong.    *)
LEMMA ToldQuiet ==
  ASSUME ticket'.status = "completed" => ticket'.accepted
  PROVE  CompletedHasReceipt'
BY DEF CompletedHasReceipt

(* The actions of a recorded run end and do not begin.                     *)
LEMMA ActsOfRecorded ==
  ASSUME Memory, ActsKept, NEW r \in DOMAIN runs, runs[r].by \in Ask,
         acts[runs[r].by] \in {"none", "succeeded"}
  PROVE  acts'[runs[r].by] \in {"none", "succeeded"}
BY DEF Memory, Recorded, ActsKept, At, Over

(* What is recorded of a run stays, or the verdict on a verb came over it. *)
RecordKept(r) ==
  runs[r].status \notin Live =>
    /\ runs'[r].by = runs[r].by
    /\ \/ runs'[r].status = runs[r].status
       \/ runs'[r].status = "failed" /\ verdict' = "passed"

(* A step that leaves the ticket alone, and of the latest run what is      *)
(* recorded, leaves what is told true.                                     *)
LEMMA ToldKept ==
  ASSUME Memory, CompletedHasReceipt, ActsKept, ticket' = ticket, Len(runs') = Len(runs),
         verdict = "passed" => verdict' = "passed",
         Latest \in DOMAIN runs => RecordKept(Latest)
  PROVE  CompletedHasReceipt'
<1> SUFFICES ASSUME ticket.status = "completed", ~ticket.accepted PROVE CompletedHasReceipt'
  BY ToldQuiet
<1>1. /\ Latest > 0 /\ Latest' = Latest
      /\ \/ runs[Latest].status = "completed"
         \/ runs[Latest].status = "failed" /\ verdict = "passed"
      /\ runs[Latest].by \in Ask /\ acts[runs[Latest].by] \in {"none", "succeeded"}
  BY DEF CompletedHasReceipt, Latest
<1>2. Latest \in DOMAIN runs
  BY <1>1, RunType DEF Latest
<1>3. acts'[runs[Latest].by] \in {"none", "succeeded"}
  BY <1>1, <1>2, ActsOfRecorded
<1>4. /\ runs'[Latest].by = runs[Latest].by
      /\ \/ runs'[Latest].status = "completed"
         \/ runs'[Latest].status = "failed" /\ verdict' = "passed"
  BY <1>1, <1>2 DEF Live, RecordKept
<1> QED
  BY <1>1, <1>3, <1>4 DEF CompletedHasReceipt

(* A step that touches neither ticket nor runs leaves what is told true.   *)
LEMMA ToldSame ==
  ASSUME Memory, CompletedHasReceipt, ActsKept, UNCHANGED <<ticket, runs, verdict>>
  PROVE  CompletedHasReceipt'
<1>1. \A r \in DOMAIN runs : RecordKept(r)
  BY DEF RecordKept
<1> QED
  BY <1>1, ToldKept

(* A writer of a bound task makes no ticket completed, and touches no      *)
(* recorded run.                                                           *)
LEMMA MoveRunTold ==
  ASSUME Memory, CompletedHasReceipt, ActsKept, UNCHANGED verdict,
         NEW r \in DOMAIN runs, NEW from \in SUBSET Live, NEW to, NEW moves,
         NEW status \in TicketStatus \ {"completed"}, MoveRun(r, from, to, moves, status)
  PROVE  CompletedHasReceipt'
<1>1. CASE runs[r].status \in from
  <2>1. ticket' = ticket \/ ticket' = [ticket EXCEPT !.status = status]
    BY <1>1 DEF MoveRun
  <2>2. CASE ticket' = [ticket EXCEPT !.status = status]
    BY <2>2, TicketMoved, ToldQuiet
  <2>3. CASE ticket' = ticket
    <3>1. runs' = [runs EXCEPT ![r].status = to]
      BY <1>1 DEF MoveRun
    <3>2. Len(runs') = Len(runs) /\ \A q \in DOMAIN runs \ {r} : runs'[q] = runs[q]
      BY <3>1, RunType
    <3>3. \A q \in DOMAIN runs : RecordKept(q)
      BY <1>1, <3>2 DEF RecordKept
    <3> QED
      BY <2>3, <3>2, <3>3, ToldKept
  <2> QED
    BY <2>1, <2>2, <2>3
<1>2. CASE runs[r].status \notin from
  BY <1>2, ToldSame DEF MoveRun
<1> QED
  BY <1>1, <1>2

(* The cancel that a run's task is given.                                  *)
LEMMA CancelTold ==
  ASSUME Memory, CompletedHasReceipt, ActsKept, UNCHANGED verdict,
         NEW r \in DOMAIN runs, CancelBoundTask(r)
  PROVE  CompletedHasReceipt'
BY MoveRunTold DEF CancelBoundTask, TicketStatus

(* The steps of an ask up to the end of its work, and those of the queue.  *)
LEMMA AskStepTold ==
  ASSUME Memory, CompletedHasReceipt, NEW a \in Ask,
         AskStep(a) \/ Admit(a) \/ RemoveQueued(a) \/ AfterRun(a)
  PROVE  CompletedHasReceipt'
<1>0. ActsKept /\ UNCHANGED verdict
  BY Unchanged DEF AskStep, Admit, RemoveQueued, AfterRun, SendMessage, RefuseTemplate,
     FailBoundTask, QueueBoundTask, Launch, StartBoundTask, StoppedBoundTask, aside
<1>1. CASE AfterRun(a) \/ \E r \in DOMAIN runs : SendMessage(a, r)
  BY <1>0, <1>1, ToldSame DEF AfterRun, SendMessage
<1>2. CASE FailBoundTask(a)
  <2>1. RunOf(a) \in DOMAIN runs
    BY <1>2, InMemory DEF FailBoundTask, At
  <2>2. PICK status \in {"failed", "needs_clarification"} :
          MoveRun(RunOf(a), Live, "failed", NotOver, status)
    BY <1>2 DEF FailBoundTask
  <2> QED
    BY <1>0, <2>1, <2>2, MoveRunTold DEF TicketStatus
<1>3. CASE QueueBoundTask(a)
  <2>1. RunOf(a) \in DOMAIN runs
    BY <1>3, InMemory DEF QueueBoundTask
  <2> QED
    BY <1>0, <1>3, <2>1, MoveRunTold DEF QueueBoundTask, TicketStatus, Live
<1>4. CASE Launch(a)
  <2>1. RunOf(a) \in DOMAIN runs
    BY <1>4, InMemory DEF Launch, At
  <2> QED
    BY <1>0, <1>4, <2>1, CancelTold, ToldSame DEF Launch
<1>5. CASE StartBoundTask(a)
  <2>1. RunOf(a) \in DOMAIN runs
    BY <1>5, InMemory DEF StartBoundTask, At
  <2> QED
    BY <1>0, <1>5, <2>1, MoveRunTold DEF StartBoundTask, TicketStatus, Live
<1>6. CASE StoppedBoundTask(a)
  <2>1. RunOf(a) \in DOMAIN runs
    BY <1>6, InMemory DEF StoppedBoundTask, At
  <2> QED
    BY <1>0, <1>6, <2>1, MoveRunTold DEF StoppedBoundTask, TicketStatus, Live
<1>7. CASE Admit(a)
  <2>1. RunOf(a) \in DOMAIN runs
    BY <1>7, InMemory DEF Admit, At
  <2> QED
    BY <1>0, <1>7, <2>1, CancelTold, ToldSame DEF Admit
<1>8. CASE RemoveQueued(a)
  <2>1. RunOf(a) \in DOMAIN runs
    BY <1>8, InMemory, QueueType DEF RemoveQueued, Memory, Queued, At
  <2> QED
    BY <1>0, <1>8, <2>1, CancelTold DEF RemoveQueued
<1>9. CASE RefuseTemplate(a)
  <2>1. "needs_clarification" \in TicketStatus
    BY DEF TicketStatus
  <2> QED
    BY <1>9, <2>1, TicketMoved, ToldQuiet DEF RefuseTemplate
<1> QED
  BY <1>1, <1>2, <1>3, <1>4, <1>5, <1>6, <1>7, <1>8, <1>9 DEF AskStep

(* A turn is called completed only if its action ended well, or it had     *)
(* none.                                                                   *)
LEMMA OutcomeSays ==
  ASSUME NEW result \in {"ok", "failed", "clarify", "unprepared"}, NEW action \in ActionState,
         TaskRunOutcome(result, action) = "completed"
  PROVE  action \in {"none", "succeeded"}
BY DEF TaskRunOutcome, ActionState

(* Whoever finishes says what became of the latest run.                    *)
LEMMA FinishCommitTold ==
  ASSUME Memory, CompletedHasReceipt, NEW a \in Ask, FinishCommit(a)
  PROVE  CompletedHasReceipt'
<1> DEFINE outcome == TaskRunOutcome(asks[a].result, asks[a].saw)
<1>1. /\ RunOf(a) \in DOMAIN runs /\ Len(runs') = Len(runs)
      /\ outcome = "completed" => runs'[RunOf(a)].status = "completed"
      /\ runs'[RunOf(a)].by = a
      /\ \A r \in DOMAIN runs \ {RunOf(a)} : runs'[r] = runs[r]
  BY CommitRuns
<1>2. outcome = "completed" => asks[a].saw \in {"none", "succeeded"}
  BY OutcomeSays, RunType DEF Row
<1>3. /\ asks[a].saw \in {"none", "succeeded"} => acts[a] \in {"none", "succeeded"}
      /\ UNCHANGED <<acts, verdict>>
  BY DEF FinishCommit, Memory, Settling, aside
<1>4. ticket' = IF RunOf(a) = Latest /\ ticket.status \notin {"cancelled", "stopped"}
                THEN [ticket EXCEPT !.status = outcome] ELSE ticket
  BY DEF FinishCommit
<1>5. outcome \in TicketStatus /\ Latest' = Latest
  BY <1>1, OutcomeType DEF Latest
<1> HIDE DEF outcome
<1>6. CASE RunOf(a) = Latest /\ ticket.status \notin {"cancelled", "stopped"}
  <2>1. ticket'.status = outcome
    BY <1>4, <1>5, <1>6, TicketType
  <2>2. Latest > 0
    BY <1>1, <1>6, RunType
  <2> QED
    BY <1>1, <1>2, <1>3, <1>5, <1>6, <2>1, <2>2 DEF CompletedHasReceipt
<1>7. CASE RunOf(a) = Latest /\ ticket.status \in {"cancelled", "stopped"}
  BY <1>4, <1>7, ToldQuiet
<1>8. CASE RunOf(a) # Latest
  <2>1. ActsKept
    BY <1>3, Unchanged
  <2>2. Latest \in DOMAIN runs => RecordKept(Latest)
    BY <1>1, <1>8 DEF RecordKept
  <2> QED
    BY <1>1, <1>3, <1>4, <1>8, <2>1, <2>2, ToldKept
<1> QED
  BY <1>6, <1>7, <1>8

(* So does the follow-up of an action.                                     *)
LEMMA SyncTold ==
  ASSUME Memory, CompletedHasReceipt, NEW a \in Ask, SyncRuntimeTaskState(a)
  PROVE  CompletedHasReceipt'
<1> DEFINE outcome == TaskRunOutcome("ok", acts[a])
<1>1. ActsKept /\ UNCHANGED <<runs, acts, verdict>>
  BY Unchanged DEF SyncRuntimeTaskState, aside
<1>2. CASE ticket' = ticket
  BY <1>1, <1>2, ToldSame
<1>3. CASE Latest > 0 /\ runs[Latest] = [status |-> "completed", by |-> a]
           /\ ticket' = [ticket EXCEPT !.status = outcome]
  <2>1. outcome = "completed" => acts[a] \in {"none", "succeeded"}
    BY OutcomeSays DEF Memory, TypeOK
  <2>2. ticket'.status = outcome
    BY <1>3, OutcomeType, TicketType
  <2> HIDE DEF outcome
  <2> QED
    BY <1>1, <1>3, <2>1, <2>2 DEF CompletedHasReceipt, Latest
<1> QED
  BY <1>2, <1>3 DEF SyncRuntimeTaskState

(* The verdict on a verb fails every run; the work recorded with it stays. *)
LEMMA FailEveryRunTold ==
  ASSUME Memory, CompletedHasReceipt, FailEveryRun
  PROVE  CompletedHasReceipt'
<1>1. ActsKept /\ ticket' = ticket /\ verdict' = "passed"
  BY Unchanged DEF FailEveryRun
<1>2. runs' = [r \in 1 .. Len(runs) |-> [runs[r] EXCEPT !.status = "failed"]]
  BY RunType DEF FailEveryRun
<1>3. Len(runs') = Len(runs)
  BY <1>2, RunType
<1>4. \A r \in DOMAIN runs : RecordKept(r)
  BY <1>1, <1>2, RunType, FailedRun DEF RecordKept
<1> QED
  BY <1>1, <1>3, <1>4, ToldKept

(* The recovery at boot fails the running runs, and their ticket with      *)
(* them, or passes over the task.                                          *)
LEMMA RestartTold ==
  ASSUME Memory, CompletedHasReceipt, Restart
  PROVE  CompletedHasReceipt'
<1>1. ActsKept /\ (verdict = "passed" => verdict' = "passed")
  BY Unchanged DEF Restart
<1>2. /\ Len(runs') = Len(runs)
      /\ \A r \in DOMAIN runs : runs[r].status # "running" => runs'[r] = runs[r]
  BY RunType DEF Restart
<1>3. \A r \in DOMAIN runs : RecordKept(r)
  BY <1>2 DEF RecordKept, Live
<1>4. ticket' = [ticket EXCEPT !.status = "failed"] \/ ticket' = ticket
  BY DEF Restart
<1>5. CASE ticket' = [ticket EXCEPT !.status = "failed"]
  <2>1. "failed" \in TicketStatus
    BY DEF TicketStatus
  <2> QED
    BY <1>5, <2>1, TicketMoved, ToldQuiet
<1>6. CASE ticket' = ticket
  BY <1>1, <1>2, <1>3, <1>6, ToldKept
<1> QED
  BY <1>4, <1>5, <1>6

(* Every step keeps what the ticket tells true.                            *)
LEMMA ToldStep ==
  ASSUME Memory, CompletedHasReceipt, [Next]_vars
  PROVE  CompletedHasReceipt'
<1>1. CASE KeptStep
  <2>0. ActsKept
    BY <1>1, KeptStepKept DEF Kept
  <2>1. ASSUME NEW action \in {"accept", "complete", "cancel", "reopen"}, TransitionTicket(action)
        PROVE  CompletedHasReceipt'
    BY <2>1, TransitionType, ToldQuiet
  <2>2. CASE AcknowledgeTask \/ AskForClarification \/ IllegalVerb \/ CreateRun
    <3>1. {"in_progress", "needs_clarification", "failed", "pending"} \subseteq TicketStatus
      BY DEF TicketStatus
    <3>2. PICK status \in {"in_progress", "needs_clarification", "failed", "pending"} :
            ticket' = [ticket EXCEPT !.status = status]
      BY <2>2 DEF AcknowledgeTask, AskForClarification, IllegalVerb, CreateRun
    <3>3. ticket'.status = status
      BY <3>1, <3>2, TicketMoved
    <3> QED
      BY <3>3, ToldQuiet
  <2>3. CASE Stop
    BY <2>0, <2>3, ToldSame DEF Stop, aside
  <2>4. ASSUME NEW a \in Ask, ProposeAction(a) \/ ActionMoves(a) PROVE CompletedHasReceipt'
    BY <2>0, <2>4, ToldSame DEF ProposeAction, ActionMoves, MoveAction, aside
  <2> QED
    BY <1>1, <2>1, <2>2, <2>3, <2>4, SyncTold, FailEveryRunTold, RestartTold, AskStepTold
    DEF KeptStep, TicketStep
<1>2. ASSUME NEW a \in Ask, NEW result \in {"ok", "failed", "clarify", "unprepared"},
             Finish(a, result)
      PROVE  CompletedHasReceipt'
  BY <1>2, Unchanged, ToldSame DEF Finish, aside
<1>3. CASE UNCHANGED vars
  BY <1>3, Unchanged, ToldSame DEF vars
<1> QED
  BY <1>1, <1>2, <1>3, FinishCommitTold, Steps DEF EndStep

(* A task nobody accepted is completed by a run the remote has a receipt   *)
(* for, or that proposed nothing, for any number of asks, runs, commands,  *)
(* verdicts, restarts and outcomes of actions.                             *)
THEOREM CompletedHasReceiptAlways == Spec => []CompletedHasReceipt
<1>1. Init => CompletedHasReceipt
  BY DEF Init, CompletedHasReceipt
<1> QED
  BY <1>1, ToldStep, MemoryInvariant, PTL DEF Spec
-----------------------------------------------------------------------------
(* Who works on a run.                                                     *)

AtWork == {"working", "settling"}

(* Steps that set no run running, and take nobody from a run that runs.    *)
WorkKept ==
  /\ skipped \subseteq skipped'
  /\ \A r \in DOMAIN runs' : runs'[r].status = "running" =>
                             r \in DOMAIN runs /\ runs[r].status = "running"
  /\ \A b \in Ask : asks[b].phase \in AtWork =>
       \/ asks'[b].phase \in AtWork /\ asks'[b].run = asks[b].run
       \/ runs'[RunOf(b)].status # "running"

(* They leave every running run its ask.                                   *)
LEMMA WorkStays ==
  ASSUME RunningRunHasAsk, WorkKept
  PROVE  RunningRunHasAsk'
<1> SUFFICES ASSUME NEW r \in DOMAIN runs', runs'[r].status = "running", r \notin skipped'
             PROVE  \E a \in Ask : asks'[a].run = r /\ asks'[a].phase \in AtWork
  BY DEF RunningRunHasAsk, RunOf, AtWork
<1>1. PICK a \in Ask : RunOf(a) = r /\ asks[a].phase \in AtWork
  BY DEF WorkKept, RunningRunHasAsk, AtWork
<1>2. asks'[a].phase \in AtWork /\ asks'[a].run = r
  BY <1>1 DEF WorkKept, RunOf
<1> QED
  BY <1>2

(* A step that changes no ask at work and sets no run running is such a    *)
(* step.                                                                   *)
LEMMA OthersWork ==
  ASSUME Memory, RunningRunHasAsk, UNCHANGED skipped,
         \A b \in Ask : asks[b].phase \in AtWork =>
           asks'[b].phase = asks[b].phase /\ asks'[b].run = asks[b].run,
         \A r \in DOMAIN runs' : runs'[r].status = "running" =>
           r \in DOMAIN runs /\ runs[r].status = "running"
  PROVE  RunningRunHasAsk'
<1>1. WorkKept
  BY DEF WorkKept
<1> QED
  BY <1>1, WorkStays

(* A writer of a bound task changes the status of its run only.            *)
LEMMA MovedRun ==
  ASSUME Memory, NEW r \in DOMAIN runs, NEW from, NEW to, NEW moves, NEW status,
         MoveRun(r, from, to, moves, status)
  PROVE  /\ DOMAIN runs' = DOMAIN runs
         /\ \A q \in DOMAIN runs \ {r} : runs'[q] = runs[q]
         /\ runs[r].status \in from => runs'[r].status = to
         /\ runs[r].status \notin from => runs'[r] = runs[r]
<1>1. CASE runs[r].status \in from
  <2>1. runs' = [runs EXCEPT ![r].status = to]
    BY <1>1 DEF MoveRun
  <2>2. runs[r] \in [status : RunStatus, by : Ask \cup {Nobody}]
    BY RunType DEF Run
  <2> QED
    BY <1>1, <2>1, <2>2, RunType
<1>2. CASE runs[r].status \notin from
  BY <1>2 DEF MoveRun
<1> QED
  BY <1>1, <1>2

(* Unless it starts the run, it sets none running.                         *)
LEMMA MoveRunWork ==
  ASSUME Memory, RunningRunHasAsk, UNCHANGED skipped,
         \A b \in Ask : asks[b].phase \in AtWork =>
           asks'[b].phase = asks[b].phase /\ asks'[b].run = asks[b].run,
         NEW r \in DOMAIN runs, NEW from, NEW to \in RunStatus \ {"running"},
         NEW moves, NEW status, MoveRun(r, from, to, moves, status)
  PROVE  RunningRunHasAsk'
<1>1. \A q \in DOMAIN runs' : runs'[q].status = "running" =>
        q \in DOMAIN runs /\ runs[q].status = "running"
  BY MovedRun
<1> QED
  BY <1>1, OthersWork

(* An ask that is not at work changes, and nobody else.                    *)
LEMMA OthersStay ==
  ASSUME Memory, NEW a \in Ask, asks[a].phase \notin AtWork, NEW row,
         asks' = [asks EXCEPT ![a] = row]
  PROVE  \A b \in Ask : asks[b].phase \in AtWork =>
           asks'[b].phase = asks[b].phase /\ asks'[b].run = asks[b].run
BY RunType

(* The steps of an ask up to the start of its work, and those of the queue.*)
LEMMA AskStepWork ==
  ASSUME Memory, RunningRunHasAsk, NEW a \in Ask,
         AskStep(a) \/ Admit(a) \/ RemoveQueued(a) \/ AfterRun(a)
  PROVE  RunningRunHasAsk'
<1> DEFINE Stay == \A b \in Ask : asks[b].phase \in AtWork =>
                     asks'[b].phase = asks[b].phase /\ asks'[b].run = asks[b].run
<1>0. UNCHANGED skipped
  BY DEF AskStep, Admit, RemoveQueued, AfterRun, SendMessage, RefuseTemplate,
     FailBoundTask, QueueBoundTask, Launch, StartBoundTask, StoppedBoundTask, aside
<1>01. {"failed", "queued", "cancelled"} \subseteq RunStatus \ {"running"}
  BY DEF RunStatus
<1>1. ASSUME NEW r \in DOMAIN runs, SendMessage(a, r) PROVE RunningRunHasAsk'
  <2>1. Stay
    BY <1>1, OthersStay DEF SendMessage, At, AtWork
  <2> QED
    BY <1>0, <1>1, <2>1, OthersWork DEF SendMessage
<1>2. CASE FailBoundTask(a)
  <2>1. RunOf(a) \in DOMAIN runs
    BY <1>2, InMemory DEF FailBoundTask, At
  <2>2. Stay
    BY <1>2, OthersStay DEF FailBoundTask, Leave, At, AtWork
  <2> QED
    BY <1>0, <1>01, <1>2, <2>1, <2>2, MoveRunWork DEF FailBoundTask
<1>3. CASE QueueBoundTask(a)
  <2>1. RunOf(a) \in DOMAIN runs
    BY <1>3, InMemory DEF QueueBoundTask
  <2>2. Stay
    BY <1>3, RunType DEF QueueBoundTask, Row
  <2> QED
    BY <1>0, <1>01, <1>3, <2>1, <2>2, MoveRunWork DEF QueueBoundTask
<1>4. CASE Launch(a)
  <2>1. RunOf(a) \in DOMAIN runs
    BY <1>4, InMemory DEF Launch, At
  <2>2. Stay
    BY <1>4, OthersStay DEF Launch, Leave, Goto, At, AtWork
  <2> QED
    BY <1>0, <1>01, <1>4, <2>1, <2>2, MoveRunWork, OthersWork DEF Launch, CancelBoundTask
<1>5. CASE Admit(a)
  <2>1. RunOf(a) \in DOMAIN runs
    BY <1>5, InMemory DEF Admit, At
  <2>2. \A b \in Ask \ {a} : asks'[b] = asks[b]
    BY <1>5, RunType DEF Admit, Leave, Goto
  <2>3. Stay
    BY <1>5, <2>2 DEF Admit, At, AtWork
  <2> QED
    BY <1>0, <1>01, <1>5, <2>1, <2>3, MoveRunWork, OthersWork DEF Admit, CancelBoundTask
<1>6. CASE RemoveQueued(a)
  <2>1. RunOf(a) \in DOMAIN runs /\ At(a, "enqueued")
    BY <1>6, InMemory, QueueType DEF RemoveQueued, Memory, Queued, At
  <2>2. Stay
    BY <1>6, <2>1, OthersStay DEF RemoveQueued, Leave, At, AtWork
  <2> QED
    BY <1>0, <1>01, <1>6, <2>1, <2>2, MoveRunWork DEF RemoveQueued, CancelBoundTask
<1>7. CASE AfterRun(a)
  <2>1. asks[a].phase \in {"ended", "dropped"} /\ UNCHANGED runs
    BY <1>7 DEF AfterRun, At
  <2>2. CASE Leave(a)
    <3>1. Stay
      BY <2>1, <2>2, OthersStay DEF Leave, AtWork
    <3> QED
      BY <1>0, <2>1, <3>1, OthersWork
  <2>3. CASE /\ queue # <<>>
             /\ asks' = [asks EXCEPT ![a] = Gone, ![Head(queue)].phase = "launching"]
    <3>1. Head(queue) \in Ask /\ At(Head(queue), "enqueued")
      BY <2>3, QueueType DEF Memory, Queued
    <3>2. \A b \in Ask \ {a, Head(queue)} : asks'[b] = asks[b]
      BY <2>3, <3>1, RunType
    <3>3. Stay
      BY <2>1, <3>1, <3>2 DEF At, AtWork
    <3> QED
      BY <1>0, <2>1, <3>3, OthersWork
  <2> QED
    BY <1>7, <2>2, <2>3 DEF AfterRun
<1>8. CASE RefuseTemplate(a)
  <2>1. RunOf(a) \in DOMAIN runs
    BY <1>8, InMemory DEF RefuseTemplate, At
  <2>2. Stay
    BY <1>8, OthersStay DEF RefuseTemplate, Leave, At, AtWork
  <2>3. DOMAIN runs' = DOMAIN runs /\ \A q \in DOMAIN runs \ {RunOf(a)} : runs'[q] = runs[q]
    BY <1>8, RunType DEF RefuseTemplate
  <2>4. runs'[RunOf(a)].status = "failed"
    BY <1>8, <2>1, RunType, FailedRun DEF RefuseTemplate
  <2> QED
    BY <1>0, <2>2, <2>3, <2>4, OthersWork
<1>9. CASE StartBoundTask(a)
  <2>1. RunOf(a) \in DOMAIN runs
    BY <1>9, InMemory DEF StartBoundTask, At
  <2>2. /\ asks'[a].phase = "working" /\ asks'[a].run = RunOf(a)
        /\ \A b \in Ask \ {a} : asks'[b] = asks[b]
    BY <1>9, RunType DEF StartBoundTask, Goto, RunOf, Row
  <2>3. MoveRun(RunOf(a), {"pending", "queued"}, "running", TicketStatus, "running")
    BY <1>9 DEF StartBoundTask
  <2>4. DOMAIN runs' = DOMAIN runs /\ \A q \in DOMAIN runs \ {RunOf(a)} : runs'[q] = runs[q]
    BY <2>1, <2>3, MovedRun
  <2> SUFFICES ASSUME NEW r \in DOMAIN runs', runs'[r].status = "running", r \notin skipped'
               PROVE  \E b \in Ask : asks'[b].run = r /\ asks'[b].phase \in AtWork
    BY DEF RunningRunHasAsk, RunOf, AtWork
  <2>5. CASE r = RunOf(a)
    BY <2>2, <2>5 DEF AtWork
  <2>6. CASE r # RunOf(a)
    <3>1. r \in DOMAIN runs /\ runs[r].status = "running" /\ r \notin skipped
      BY <1>0, <2>4, <2>6
    <3>2. PICK b \in Ask : RunOf(b) = r /\ asks[b].phase \in AtWork
      BY <3>1 DEF RunningRunHasAsk, AtWork
    <3>3. asks'[b] = asks[b]
      BY <2>2, <2>6, <3>2
    <3> QED
      BY <3>2, <3>3 DEF RunOf
  <2> QED
    BY <2>5, <2>6
<1>10. CASE StoppedBoundTask(a)
  <2>1. RunOf(a) \in DOMAIN runs
    BY <1>10, InMemory DEF StoppedBoundTask, At
  <2>2. \A b \in Ask \ {a} : asks'[b] = asks[b]
    BY <1>10, RunType DEF StoppedBoundTask, Goto
  <2>3. MoveRun(RunOf(a), {"running"}, "cancelled", BeingRun, "stopped")
    BY <1>10 DEF StoppedBoundTask
  <2>4. /\ runs'[RunOf(a)].status # "running"
        /\ \A q \in DOMAIN runs' : runs'[q].status = "running" =>
             q \in DOMAIN runs /\ runs[q].status = "running"
    BY <2>1, <2>3, MovedRun
  <2>5. WorkKept
    BY <1>0, <2>2, <2>4 DEF WorkKept, RunOf
  <2> QED
    BY <2>5, WorkStays
<1> QED
  BY <1>1, <1>2, <1>3, <1>4, <1>5, <1>6, <1>7, <1>8, <1>9, <1>10 DEF AskStep

(* The end of an ask's work, which finds its run live or over.             *)
LEMMA FinishWork ==
  ASSUME Memory, RunningRunHasAsk, NEW a \in Ask, At(a, "working"),
         NEW result \in {"ok", "failed", "clarify", "unprepared"}, Finish(a, result)
  PROVE  RunningRunHasAsk'
<1>1. UNCHANGED <<runs, skipped>> /\ \A b \in Ask \ {a} : asks'[b] = asks[b]
  BY RunType DEF Finish, aside
<1>2. CASE runs[RunOf(a)].status \in Live
  <2>1. asks'[a].phase = "settling" /\ asks'[a].run = asks[a].run
    BY <1>2, RunType DEF Finish, LockTaken, Row
  <2>2. WorkKept
    BY <1>1, <2>1 DEF WorkKept, AtWork
  <2> QED
    BY <2>2, WorkStays
<1>3. CASE runs[RunOf(a)].status \notin Live
  <2>1. WorkKept
    BY <1>1, <1>3 DEF WorkKept, Live
  <2> QED
    BY <2>1, WorkStays
<1> QED
  BY <1>2, <1>3

(* The end of the run it works on.                                         *)
LEMMA FinishCommitWork ==
  ASSUME Memory, RunningRunHasAsk, NEW a \in Ask, FinishCommit(a)
  PROVE  RunningRunHasAsk'
<1>1. /\ DOMAIN runs' = DOMAIN runs /\ runs'[RunOf(a)].status \in {"failed", "completed"}
      /\ \A r \in DOMAIN runs \ {RunOf(a)} : runs'[r] = runs[r]
  BY CommitRuns
<1>2. UNCHANGED skipped /\ \A b \in Ask \ {a} : asks'[b] = asks[b]
  BY RunType DEF FinishCommit, aside
<1>3. WorkKept
  BY <1>1, <1>2 DEF WorkKept
<1> QED
  BY <1>3, WorkStays

(* The recovery at boot ends the running runs, or passes over them.        *)
LEMMA RestartWork ==
  ASSUME Memory, Restart
  PROVE  RunningRunHasAsk'
<1>1. CASE runs' = [r \in DOMAIN runs |-> IF runs[r].status = "running"
                     THEN [runs[r] EXCEPT !.status = "failed"] ELSE runs[r]]
  <2>1. \A r \in DOMAIN runs' : runs'[r].status # "running"
    BY <1>1, RunType, FailedRun
  <2> QED
    BY <2>1 DEF RunningRunHasAsk
<1>2. CASE /\ skipped' = skipped \cup {r \in DOMAIN runs : runs[r].status = "running"}
           /\ UNCHANGED runs
  BY <1>2 DEF RunningRunHasAsk
<1> QED
  BY <1>1, <1>2 DEF Restart

(* The other steps touch no ask, and create or fail runs at most.          *)
LEMMA OtherWork ==
  ASSUME Memory, RunningRunHasAsk,
         \/ TicketStep \/ FailEveryRun \/ CreateRun
         \/ \E a \in Ask : ProposeAction(a) \/ ActionMoves(a)
  PROVE  RunningRunHasAsk'
<1>1. UNCHANGED <<asks, skipped>>
  BY DEF TicketStep, TransitionTicket, AcknowledgeTask, AskForClarification, IllegalVerb,
     Stop, SyncRuntimeTaskState, FailEveryRun, CreateRun, ProposeAction, ActionMoves,
     MoveAction, aside
<1>2. CASE FailEveryRun
  <2>1. \A r \in DOMAIN runs' : runs'[r].status = "failed"
    BY <1>2, RunType, FailedRun DEF FailEveryRun
  <2> QED
    BY <2>1 DEF RunningRunHasAsk
<1>3. CASE CreateRun
  <2>1. /\ DOMAIN runs' = 1 .. (Len(runs) + 1)
        /\ \A r \in DOMAIN runs : runs'[r] = runs[r]
        /\ runs'[Len(runs) + 1].status = "pending"
    BY <1>3, RunType, AppendProperties DEF CreateRun
  <2> QED
    BY <1>1, <2>1, RunType, OthersWork
<1>4. CASE UNCHANGED runs
  BY <1>1, <1>4, OthersWork
<1> QED
  BY <1>2, <1>3, <1>4
  DEF TicketStep, TransitionTicket, AcknowledgeTask, AskForClarification, IllegalVerb,
      Stop, SyncRuntimeTaskState, ProposeAction, ActionMoves, MoveAction

(* Every step leaves the running runs somebody who works on them.          *)
LEMMA WorkStep ==
  ASSUME Memory, RunningRunHasAsk, [Next]_vars
  PROVE  RunningRunHasAsk'
<1>1. CASE KeptStep
  BY <1>1, OtherWork, RestartWork, AskStepWork DEF KeptStep
<1>2. ASSUME NEW a \in Ask, EndStep(a) PROVE RunningRunHasAsk'
  BY <1>2, FinishWork, FinishCommitWork DEF EndStep
<1>3. CASE UNCHANGED vars
  BY <1>3 DEF vars, aside, RunningRunHasAsk, RunOf
<1> QED
  BY <1>1, <1>2, <1>3, Steps

(* A run that is running has an ask at work on it, or that is about to     *)
(* commit its end, for any number of asks of one run, stops, removals from *)
(* the queue, verdicts and restarts, unless a recovery passed over it.     *)
THEOREM RunningRunHasAskAlways == Spec => []RunningRunHasAsk
<1>1. Init => RunningRunHasAsk
  BY DEF Init, RunningRunHasAsk
<1> QED
  BY <1>1, WorkStep, MemoryInvariant, PTL DEF Spec
=============================================================================
