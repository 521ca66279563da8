--------------------------- MODULE CronRunsProofs ---------------------------
(***************************************************************************)
(* The handler of a scheduled run is called once at most, the jobs of the  *)
(* runs move as the ledger says, and under replay no slot is passed over   *)
(* by edits that leave the schedule alone; for every horizon, any number   *)
(* of workers, editors, manual runs and faults.  The argument: a run that  *)
(* has been started never becomes queued again, whoever takes it over or   *)
(* finishes it, and only a queued run is handled; a next_run_at that an    *)
(* edit carries was the schedule's once, and the schedule only advances    *)
(* over slots that have a run.                                             *)
(***************************************************************************)
EXTENDS CronRuns, TLAPS

CronRow == [status : {"published", "paused"}, policy : Policies,
            next : (1 .. Horizon + 1) \cup {None}, last : RunResult \cup {"none"}]
JobRow == [status : JobStatus, attempts : Nat, max : Nat, owner : Worker \cup {None}]
EditRow == [status : {"published", "paused"}, next : (1 .. Horizon + 1) \cup {None}]

(* A call that returned, or was caught, knows what to write.               *)
Results == \A c \in calls : c.phase \in {"returned", "caught"} => c.result \in RunResult

(* A job that waits has an attempt left.                                   *)
Budgeted == \A s \in Slot : jobs[s].status \in {"queued", "retrying"} =>
                              jobs[s].attempts < jobs[s].max

Typed == TypeOK /\ Results /\ Budgeted

(* The parts of the invariant, by name.                                    *)
LEMMA Rows ==
  ASSUME Typed
  PROVE  /\ cronJob \in CronRow /\ jobs \in [Slot -> JobRow] /\ calls \subseteq Call
         /\ edits \in [Editor -> {None} \cup EditRow]
         /\ runs \in [Slot -> RunStatus] /\ handled \in [Slot -> Nat]
         /\ now \in 0 .. Horizon /\ faults \in 0 .. MaxFaults /\ stale \subseteq Slot
BY DEF Typed, TypeOK, CronRow, JobRow, EditRow

(* A fault is counted.                                                     *)
LEMMA FaultType ==
  ASSUME Typed, Fault
  PROVE  faults' \in 0 .. MaxFaults
BY CronAssumption DEF Typed, TypeOK, Fault

(* The next firing is within the horizon when the clock is.                *)
LEMMA NextType ==
  ASSUME NEW t \in Int, 0 <= t, t <= Horizon
  PROVE  NextFor(t) \in 1 .. Horizon + 1
BY CronAssumption DEF NextFor

(* A job is created waiting, with its one attempt.                         *)
LEMMA NewJob ==
  [NoJob EXCEPT !.status = "queued"] = [status |-> "queued", attempts |-> 0, max |-> 1, owner |-> None]
BY DEF NoJob

(* What a dispatch does to one slot: its job is untouched, or it is new    *)
(* and waits.                                                              *)
LEMMA DispatchType ==
  ASSUME Typed, NEW old \in SUBSET Slot, NEW S \in SUBSET Slot, TakeOverAndDispatch(old, S)
  PROVE  /\ stale' \subseteq Slot /\ runs' \in [Slot -> RunStatus] /\ jobs' \in [Slot -> JobRow]
         /\ Budgeted'
<1>1. [status |-> "queued", attempts |-> 0, max |-> 1, owner |-> None] \in JobRow
  BY DEF JobRow, JobStatus
<1>2. \A s \in Slot : \/ jobs'[s] = jobs[s]
                      \/ jobs'[s] = [status |-> "queued", attempts |-> 0, max |-> 1, owner |-> None]
  BY NewJob DEF TakeOverAndDispatch
<1>3. jobs' \in [Slot -> JobRow]
  BY <1>1, NewJob, Rows DEF TakeOverAndDispatch
<1>4. runs' \in [Slot -> RunStatus]
  BY Rows DEF TakeOverAndDispatch, RunStatus, RunResult
<1>5. Budgeted'
  <2> SUFFICES ASSUME NEW s \in Slot, jobs'[s].status \in {"queued", "retrying"}
               PROVE  jobs'[s].attempts < jobs'[s].max
    BY DEF Budgeted
  <2>1. CASE jobs'[s] = jobs[s]
    BY <2>1 DEF Typed, Budgeted
  <2>2. CASE jobs'[s] = [status |-> "queued", attempts |-> 0, max |-> 1, owner |-> None]
    BY <2>2
  <2> QED
    BY <1>2, <2>1, <2>2
<1>6. stale' \subseteq Slot
  BY Rows DEF TakeOverAndDispatch
<1> QED
  BY <1>3, <1>4, <1>5, <1>6

(* The tick takes runs over, queues the due slot and advances the          *)
(* schedule.                                                               *)
LEMMA TickType ==
  ASSUME Typed, Tick
  PROVE  Typed'
<1>1. PICK old \in SUBSET stale, locked \in BOOLEAN :
        LET due == /\ cronJob.status = "published"
                   /\ cronJob.next # None
                   /\ cronJob.next <= now
                   /\ ~ locked
            from == IF cronJob.policy = "coalesce" THEN now ELSE cronJob.next
        IN  /\ old # {} \/ due
            /\ TakeOverAndDispatch(old, IF due THEN {cronJob.next} ELSE {})
            /\ cronJob' = [cronJob EXCEPT
                 !.next = IF due THEN NextFor(from) ELSE @,
                 !.last = IF old # {} THEN "needs_takeover" ELSE @]
            /\ UNCHANGED <<now, calls, edits, handled, faults>>
  BY DEF Tick
<1> DEFINE due == /\ cronJob.status = "published"
                  /\ cronJob.next # None
                  /\ cronJob.next <= now
                  /\ ~ locked
           from == IF cronJob.policy = "coalesce" THEN now ELSE cronJob.next
           next == IF due THEN NextFor(from) ELSE cronJob.next
           last == IF old # {} THEN "needs_takeover" ELSE cronJob.last
<1>2. /\ TakeOverAndDispatch(old, IF due THEN {cronJob.next} ELSE {})
      /\ cronJob' = [cronJob EXCEPT !.next = next, !.last = last]
      /\ UNCHANGED <<now, calls, edits, handled, faults>>
  BY <1>1
<1>3. cronJob.next \in (1 .. Horizon + 1) \cup {None} /\ now \in 0 .. Horizon
  BY Rows DEF CronRow
<1>4. due => cronJob.next \in 1 .. Horizon
  BY <1>3, CronAssumption
<1>5. next \in (1 .. Horizon + 1) \cup {None}
  BY <1>3, <1>4, NextType, CronAssumption
<1>6. last \in RunResult \cup {"none"}
  BY Rows DEF CronRow, RunResult
<1>7. (IF due THEN {cronJob.next} ELSE {}) \in SUBSET Slot
  BY <1>4 DEF Slot, Time
<1> HIDE DEF next, last, due, from
<1>8. cronJob' \in CronRow
  BY <1>2, <1>5, <1>6, Rows DEF CronRow
<1>9. old \in SUBSET Slot
  BY Rows
<1> QED
  BY <1>2, <1>7, <1>8, <1>9, DispatchType, Rows DEF Typed, TypeOK, Results, CronRow, JobRow

(* A manual run is queued.                                                 *)
LEMMA RunNowType ==
  ASSUME Typed, NEW m \in Manual, RunNow(m)
  PROVE  Typed'
<1>1. TakeOverAndDispatch({}, {m}) /\ {} \in SUBSET Slot /\ {m} \in SUBSET Slot
  BY DEF RunNow, Slot
<1> QED
  BY <1>1, DispatchType, Rows DEF RunNow, Typed, TypeOK, Results, CronRow, JobRow

(* Edits.                                                                  *)
LEMMA EditType ==
  ASSUME Typed, NEW e \in Editor, EditWrites(e) \/ \E kind \in EditKinds : EditReads(e, kind)
  PROVE  Typed'
<1>1. CASE EditWrites(e)
  <2>1. edits[e] \in EditRow
    BY <1>1, Rows DEF EditWrites
  <2> DEFINE row == [cronJob EXCEPT !.status = edits[e].status, !.next = edits[e].next]
  <2>2. row \in CronRow
    BY <2>1, Rows DEF CronRow, EditRow
  <2>3. cronJob' = row
    BY <1>1 DEF EditWrites
  <2> HIDE DEF row
  <2>4. edits' \in [Editor -> {None} \cup EditRow]
    BY <1>1, Rows DEF EditWrites
  <2> QED
    BY <1>1, <2>2, <2>3, <2>4 DEF EditWrites, Typed, TypeOK, Results, Budgeted, CronRow, EditRow
<1>2. ASSUME NEW kind \in EditKinds, EditReads(e, kind) PROVE Typed'
  <2>1. NextFor(now) \in 1 .. Horizon + 1
    BY NextType, Rows, CronAssumption
  <2>2. Edited(kind) \in EditRow
    BY <2>1, Rows DEF Edited, EditRow, CronRow
  <2>3. edits' \in [Editor -> {None} \cup EditRow]
    BY <1>2, <2>2, Rows DEF EditReads
  <2> QED
    BY <1>2, <2>3 DEF EditReads, Typed, TypeOK, Results, Budgeted, EditRow
<1> QED
  BY <1>1, <1>2

(* A call moves on, with a result where it has one.                        *)
LEMMA MoveType ==
  ASSUME Typed, NEW c \in calls, NEW phase \in CallPhase, NEW result \in RunResult \cup {"none"},
         Move(c, phase, result), phase \in {"returned", "caught"} => result \in RunResult
  PROVE  calls' \subseteq Call /\ Results'
<1> DEFINE d == [c EXCEPT !.phase = phase, !.result = result]
<1>1. d \in Call /\ d.phase = phase /\ d.result = result
  BY Rows DEF Call
<1>2. calls' = (calls \ {c}) \cup {d}
  BY DEF Move
<1> HIDE DEF d
<1> QED
  BY <1>1, <1>2, Rows DEF Typed, Results

(* What a call carries.                                                    *)
LEMMA CallType ==
  ASSUME Typed, NEW c \in calls
  PROVE  /\ c.slot \in Slot /\ c.worker \in Worker /\ c.phase \in CallPhase
         /\ c.result \in RunResult \cup {"none"}
BY Rows DEF Call

(* A worker claims the job of a run.                                       *)
LEMMA ClaimType ==
  ASSUME Typed, NEW w \in Worker, NEW s \in Slot, Claim(w, s)
  PROVE  Typed'
<1>1. jobs[s].attempts + 1 \in Nat /\ jobs[s] \in JobRow
  BY Rows DEF JobRow
<1> DEFINE row == [jobs[s] EXCEPT !.status = "running", !.owner = w, !.attempts = jobs[s].attempts + 1]
<1>2. row \in JobRow /\ row.status = "running"
  BY <1>1 DEF JobRow, JobStatus
<1>3. jobs' = [jobs EXCEPT ![s] = row]
  BY DEF Claim
<1> HIDE DEF row
<1>4. jobs' \in [Slot -> JobRow] /\ Budgeted'
  BY <1>2, <1>3, Rows DEF Typed, Budgeted
<1>5. [slot |-> s, worker |-> w, phase |-> "claimed", result |-> "none"] \in Call
  BY DEF Call, CallPhase
<1>6. calls' = calls \cup {[slot |-> s, worker |-> w, phase |-> "claimed", result |-> "none"]}
  BY DEF Claim
<1>7. calls' \subseteq Call /\ Results'
  BY <1>5, <1>6, Rows DEF Typed, Results
<1> QED
  BY <1>4, <1>7 DEF Claim, Typed, TypeOK, JobRow

(* The run is started, or not.                                             *)
LEMMA StartRunType ==
  ASSUME Typed, NEW c \in calls, StartRun(c)
  PROVE  Typed'
<1>1. PICK phase \in {"handling", "notQueued", "duplicate"} : StartAs(c, phase)
  BY DEF StartRun
<1>2. calls' \subseteq Call /\ Results'
  BY <1>1, MoveType DEF StartAs, CallPhase
<1>3. runs' \in [Slot -> RunStatus]
  BY <1>1, CallType, Rows DEF StartAs, RunStatus
<1>4. handled[c.slot] + 1 \in Nat
  BY CallType, Rows
<1>5. handled' \in [Slot -> Nat]
  BY <1>1, <1>4, CallType, Rows DEF StartAs
<1> QED
  BY <1>1, <1>2, <1>3, <1>5 DEF StartAs, Typed, TypeOK, Budgeted

(* The handler ends, one way or the other.                                 *)
LEMMA HandlerEndsType ==
  ASSUME Typed, NEW c \in calls, HandlerEnds(c)
  PROVE  Typed'
<1>1. calls' \subseteq Call /\ Results'
  BY MoveType DEF HandlerEnds, CallPhase, RunResult
<1> QED
  BY <1>1 DEF HandlerEnds, Typed, TypeOK, Budgeted

(* The run is finished with the result that the call carries.              *)
LEMMA FinishRunType ==
  ASSUME Typed, NEW c \in calls, FinishRun(c)
  PROVE  Typed' /\ c.result \in RunResult
<1>1. c.result \in RunResult
  BY DEF FinishRun, Typed, Results
<1>2. calls' \subseteq Call /\ Results'
  BY <1>1, MoveType DEF FinishRun, CallPhase
<1>3. runs' \in [Slot -> RunStatus]
  BY <1>1, CallType, Rows DEF FinishRun, RunStatus
<1>4. cronJob' \in CronRow
  <2>1. [cronJob EXCEPT !.last = c.result] \in CronRow
    BY <1>1, Rows DEF CronRow
  <2> QED
    BY <2>1 DEF FinishRun
<1> QED
  BY <1>1, <1>2, <1>3, <1>4, Rows DEF FinishRun, Typed, TypeOK, Budgeted, CronRow

(* A statement of a call throws.                                           *)
LEMMA StatementFailsType ==
  ASSUME Typed, NEW c \in calls, StatementFails(c)
  PROVE  Typed'
<1>1. calls' \subseteq Call /\ Results'
  BY MoveType, CallType DEF StatementFails, CallPhase, RunResult
<1> QED
  BY <1>1, FaultType DEF StatementFails, Typed, TypeOK, Budgeted

(* A call is gone with its process.                                        *)
LEMMA CallVanishesType ==
  ASSUME Typed, NEW c \in calls, CallVanishes(c)
  PROVE  Typed'
BY FaultType DEF CallVanishes, Typed, TypeOK, Results, Budgeted

-----------------------------------------------------------------------------
(* The job of a run.                                                       *)

View(row) == [status |-> row.status, attempts |-> row.attempts, max |-> row.max, risk |-> "low"]

Follows(s) == jobs'[s] = jobs[s] \/ Ledger!Move(View(jobs[s]), View(jobs'[s]))

(* One job moves as the ledger says.                                       *)
LEMMA OneJob ==
  ASSUME Typed, NEW s \in Slot, NEW row \in JobRow, jobs' = [jobs EXCEPT ![s] = row],
         row.status \in {"queued", "retrying"} => row.attempts < row.max,
         Ledger!Move(View(jobs[s]), View(row))
  PROVE  jobs' \in [Slot -> JobRow] /\ Budgeted' /\ \A t \in Slot : Follows(t)
<1>1. jobs'[s] = row /\ \A t \in Slot \ {s} : jobs'[t] = jobs[t]
  BY Rows
<1>2. jobs' \in [Slot -> JobRow] /\ Budgeted'
  BY <1>1, Rows DEF Typed, Budgeted
<1>3. \A t \in Slot : Follows(t)
  BY <1>1 DEF Follows
<1> QED
  BY <1>2, <1>3

(* An attempt ends.                                                        *)
LEMMA EndJob ==
  ASSUME Typed, NEW s \in Slot, jobs[s].status = "running",
         NEW status \in {"succeeded", "failed", "retrying", "uncertain"},
         status = "retrying" => jobs[s].attempts < jobs[s].max,
         status = "uncertain" => ~ (jobs[s].attempts < jobs[s].max),
         jobs' = [jobs EXCEPT ![s] = [jobs[s] EXCEPT !.status = status, !.owner = None]]
  PROVE  jobs' \in [Slot -> JobRow] /\ Budgeted' /\ \A t \in Slot : Follows(t)
<1> DEFINE row == [jobs[s] EXCEPT !.status = status, !.owner = None]
<1>1. jobs[s] \in JobRow
  BY Rows
<1>2. row \in JobRow /\ row.status = status /\ row.attempts = jobs[s].attempts
      /\ row.max = jobs[s].max
  BY <1>1 DEF JobRow, JobStatus
<1>3. jobs' = [jobs EXCEPT ![s] = row]
  OBVIOUS
<1> HIDE DEF row
<1>4. View(row) = [View(jobs[s]) EXCEPT !.status = status] /\ View(jobs[s]).status = "running"
      /\ View(jobs[s]).risk = "low" /\ View(jobs[s]).attempts = jobs[s].attempts
      /\ View(jobs[s]).max = jobs[s].max
  BY <1>2 DEF View
<1>5. Ledger!Move(View(jobs[s]), View(row))
  BY <1>4 DEF Ledger!Move, Ledger!Succeed, Ledger!GiveUp, Ledger!TryAgain, Ledger!Doubt,
     Ledger!Replayable
<1> QED
  BY <1>2, <1>3, <1>5, OneJob

(* An attempt starts.                                                      *)
LEMMA LedgerStarts ==
  ASSUME NEW status \in {"queued", "retrying"}, NEW a \in Nat, NEW m \in Nat, a < m
  PROVE  Ledger!Start([status |-> status, attempts |-> a, max |-> m, risk |-> "low"],
                      [status |-> "running", attempts |-> a + 1, max |-> m, risk |-> "low"])
<1> DEFINE n == a + 1
           old == [status |-> status, attempts |-> a, max |-> m, risk |-> "low"]
<1>1. old.status \in {"queued", "retrying"} /\ old.attempts < old.max /\ old.attempts + 1 = n
  OBVIOUS
<1> HIDE DEF n
<1>2. [status |-> "running", attempts |-> n, max |-> m, risk |-> "low"]
        = [old EXCEPT !.status = "running", !.attempts = n]
  <2>1. [old EXCEPT !.status = "running"]
          = [status |-> "running", attempts |-> a, max |-> m, risk |-> "low"]
    OBVIOUS
  <2>2. [[status |-> "running", attempts |-> a, max |-> m, risk |-> "low"] EXCEPT !.attempts = n]
          = [status |-> "running", attempts |-> n, max |-> m, risk |-> "low"]
    OBVIOUS
  <2> HIDE DEF old
  <2>3. [old EXCEPT !.status = "running", !.attempts = n]
          = [[old EXCEPT !.status = "running"] EXCEPT !.attempts = n]
    BY Zenon
  <2> QED
    BY <2>1, <2>2, <2>3, Zenon
<1> HIDE DEF old
<1>3. [old EXCEPT !.status = "running", !.attempts = n]
        = [old EXCEPT !.status = "running", !.attempts = old.attempts + 1]
  BY <1>1
<1>4. Ledger!Start(old, [status |-> "running", attempts |-> n, max |-> m, risk |-> "low"])
  BY <1>1, <1>2, <1>3, Zenon DEF Ledger!Start
<1> QED
  BY <1>4 DEF n, old

(* A claim, the recovery of a lease and the operator's retry move one job  *)
(* each, as the ledger says.                                               *)
LEMMA JobSteps ==
  ASSUME Typed, NEW s \in Slot
  PROVE  /\ \A w \in Worker : Claim(w, s) => \A t \in Slot : Follows(t)
         /\ RecoverLease(s) \/ Retry(s) =>
              jobs' \in [Slot -> JobRow] /\ Budgeted' /\ \A t \in Slot : Follows(t)
<1>0. jobs[s] \in JobRow /\ jobs[s].attempts \in Nat /\ jobs[s].max \in Nat
  BY Rows DEF JobRow
<1>1. ASSUME NEW w \in Worker, Claim(w, s) PROVE \A t \in Slot : Follows(t)
  <2> DEFINE n == jobs[s].attempts + 1
             row == [jobs[s] EXCEPT !.status = "running", !.owner = w, !.attempts = n]
  <2>1. n \in Nat
    BY <1>0
  <2>2. jobs' = [jobs EXCEPT ![s] = row] /\ jobs[s].status \in {"queued", "retrying"}
    BY <1>1 DEF Claim
  <2>3. jobs[s].attempts < jobs[s].max
    BY <2>2 DEF Typed, Budgeted
  <2> HIDE DEF n
  <2>4. row \in JobRow /\ row.status = "running" /\ row.attempts = n /\ row.max = jobs[s].max
    BY <1>0, <2>1 DEF JobRow, JobStatus
  <2> HIDE DEF row
  <2>5. View(row) = [status |-> "running", attempts |-> n, max |-> jobs[s].max, risk |-> "low"]
    BY <2>4 DEF View
  <2>6. View(jobs[s]) = [status |-> jobs[s].status, attempts |-> jobs[s].attempts,
                         max |-> jobs[s].max, risk |-> "low"]
    BY DEF View
  <2>7. Ledger!Start([status |-> jobs[s].status, attempts |-> jobs[s].attempts,
                      max |-> jobs[s].max, risk |-> "low"],
                     [status |-> "running", attempts |-> n, max |-> jobs[s].max, risk |-> "low"])
    BY <1>0, <2>2, <2>3, LedgerStarts DEF n
  <2>8. Ledger!Start(View(jobs[s]), View(row))
    BY <2>5, <2>6, <2>7
  <2> QED
    BY <2>2, <2>4, <2>8, OneJob DEF Ledger!Move
<1>2. ASSUME RecoverLease(s)
      PROVE  jobs' \in [Slot -> JobRow] /\ Budgeted' /\ \A t \in Slot : Follows(t)
  <2> DEFINE status == IF jobs[s].attempts < jobs[s].max THEN "retrying" ELSE "uncertain"
  <2>1. jobs' = [jobs EXCEPT ![s] = [jobs[s] EXCEPT !.status = status, !.owner = None]]
        /\ jobs[s].status = "running"
    BY <1>2 DEF RecoverLease
  <2>2. status \in {"retrying", "uncertain"}
        /\ (status = "retrying" <=> jobs[s].attempts < jobs[s].max)
    OBVIOUS
  <2> HIDE DEF status
  <2> QED
    BY <2>1, <2>2, EndJob
<1>3. ASSUME Retry(s)
      PROVE  jobs' \in [Slot -> JobRow] /\ Budgeted' /\ \A t \in Slot : Follows(t)
  <2> DEFINE n == IF jobs[s].max <= jobs[s].attempts THEN jobs[s].attempts + 1 ELSE jobs[s].max
             row == [jobs[s] EXCEPT !.status = "queued", !.max = n]
  <2>1. n \in Nat /\ jobs[s].attempts < n /\ n \in {jobs[s].max, jobs[s].attempts + 1}
    BY <1>0
  <2>2. jobs' = [jobs EXCEPT ![s] = row] /\ jobs[s].status = "failed"
    BY <1>3 DEF Retry
  <2> HIDE DEF n
  <2>3. row \in JobRow /\ row.status = "queued" /\ row.attempts = jobs[s].attempts /\ row.max = n
    BY <1>0, <2>1 DEF JobRow, JobStatus
  <2> HIDE DEF row
  <2>4. Ledger!Reopen(View(jobs[s]), View(row))
    BY <2>1, <2>2, <2>3 DEF Ledger!Reopen, View
  <2> QED
    BY <2>1, <2>2, <2>3, <2>4, OneJob DEF Ledger!Move
<1> QED
  BY <1>1, <1>2, <1>3

(* So does the receipt or the failure that a call writes, if it writes at  *)
(* all.                                                                    *)
LEMMA ReportJob ==
  ASSUME Typed, NEW c \in calls, Report(c)
  PROVE  jobs' \in [Slot -> JobRow] /\ Budgeted' /\ \A t \in Slot : Follows(t)
<1> DEFINE s == c.slot
           ok == c.phase = "duplicate" \/ (c.phase = "finished" /\ c.result # "failed")
           status == CASE ok -> "succeeded"
                       [] ~ ok /\ jobs[s].attempts < jobs[s].max -> "retrying"
                       [] OTHER -> "failed"
<1>1. s \in Slot /\ jobs[s] \in JobRow
  BY CallType, Rows
<1>2. CASE UNCHANGED jobs
  BY <1>2, Rows DEF Typed, Budgeted, Follows
<1>3. CASE /\ jobs[s].status = "running"
           /\ jobs' = [jobs EXCEPT ![s] = [jobs[s] EXCEPT !.status = status, !.owner = None]]
  <2>1. status \in {"succeeded", "retrying", "failed"}
        /\ (status = "retrying" => jobs[s].attempts < jobs[s].max)
    OBVIOUS
  <2> HIDE DEF status, s
  <2> QED
    BY <1>1, <1>3, <2>1, EndJob
<1>4. \/ UNCHANGED jobs
      \/ /\ jobs[s].status = "running"
         /\ jobs' = [jobs EXCEPT ![s] = [jobs[s] EXCEPT !.status = status, !.owner = None]]
  BY DEF Report
<1> QED
  BY <1>2, <1>3, <1>4


(* The report ends the call.                                               *)
LEMMA ReportType ==
  ASSUME Typed, NEW c \in calls, Report(c)
  PROVE  Typed'
<1>1. jobs' \in [Slot -> JobRow] /\ Budgeted'
  BY ReportJob
<1>2. calls' \subseteq calls
  BY DEF Report
<1> QED
  BY <1>1, <1>2, Rows DEF Report, Typed, TypeOK, Results, JobRow

(* Time passes, a lease is recovered, a job is delivered again.            *)
LEMMA ClockType ==
  ASSUME Typed, Advance \/ \E s \in Slot : GrowOld(s) \/ RecoverLease(s) \/ Retry(s)
  PROVE  Typed'
<1>1. CASE Advance
  BY <1>1, CronAssumption DEF Advance, Typed, TypeOK, Results, Budgeted
<1>2. ASSUME NEW s \in Slot, GrowOld(s) PROVE Typed'
  BY <1>2 DEF GrowOld, Typed, TypeOK, Results, Budgeted
<1>3. ASSUME NEW s \in Slot, RecoverLease(s) \/ Retry(s) PROVE Typed'
  <2>1. jobs' \in [Slot -> JobRow] /\ Budgeted'
    BY <1>3, JobSteps
  <2>2. UNCHANGED <<now, cronJob, runs, stale, calls, edits, handled, faults>>
    BY <1>3 DEF RecoverLease, Retry
  <2> QED
    BY <2>1, <2>2 DEF Typed, TypeOK, Results, JobRow
<1> QED
  BY <1>1, <1>2, <1>3

(* Every step keeps the types.                                             *)
LEMMA NextTyped ==
  ASSUME Typed, [Next]_vars
  PROVE  Typed'
<1>1. CASE UNCHANGED vars
  BY <1>1 DEF vars, Typed, TypeOK, Results, Budgeted
<1>2. CASE Next
  BY <1>2, ClockType, TickType, RunNowType, EditType, ClaimType, StartRunType,
     HandlerEndsType, FinishRunType, ReportType, StatementFailsType, CallVanishesType
     DEF Next, CallStep
<1> QED
  BY <1>1, <1>2

(* The schedule starts at its first slot, with no run.                     *)
LEMMA InitTyped == Init => Typed
<1> SUFFICES ASSUME Init PROVE Typed
  OBVIOUS
<1>1. PICK policy \in Policies :
        cronJob = [status |-> "published", policy |-> policy, next |-> 1, last |-> "none"]
  BY DEF Init
<1>2. cronJob \in CronRow
  BY <1>1, CronAssumption DEF CronRow
<1>3. \A s \in Slot : jobs[s] = [status |-> "absent", attempts |-> 0, max |-> 1, owner |-> None]
  BY DEF Init, NoJob
<1>4. [status |-> "absent", attempts |-> 0, max |-> 1, owner |-> None] \in JobRow
  BY DEF JobRow, JobStatus
<1>5. jobs \in [Slot -> JobRow]
  BY <1>4 DEF Init, NoJob
<1>6. Budgeted
  BY <1>3 DEF Budgeted
<1> QED
  BY <1>2, <1>5, <1>6, CronAssumption DEF Init, Typed, TypeOK, Results, CronRow, JobRow, RunStatus

(* The types hold in every reachable state.                                *)
LEMMA TypedInvariant == Spec => []Typed
<1> QED
  BY InitTyped, NextTyped, PTL DEF Spec

(* The types of the whole state: schedule, runs, jobs, calls and edits.    *)
THEOREM TypeCorrect == Spec => []TypeOK
<1>1. Typed => TypeOK
  BY DEF Typed
<1> QED
  BY <1>1, TypedInvariant, PTL

-----------------------------------------------------------------------------
(* The handler runs once.                                                  *)

(* A job has a run; a run that still waits was never handled.              *)
Begun(s) == /\ runs[s] = "absent" => jobs[s].status = "absent"
            /\ handled[s] <= 1
            /\ runs[s] \in {"absent", "queued"} => handled[s] = 0

AllBegun == \A s \in Slot : Begun(s)

(* New runs come with new jobs; nothing else of the slot was there.        *)
LEMMA DispatchBegun ==
  ASSUME Typed, AllBegun, NEW old \in SUBSET Slot, NEW S \in SUBSET Slot,
         TakeOverAndDispatch(old, S), UNCHANGED handled
  PROVE  AllBegun' /\ \A s \in Slot : Follows(s)
<1> SUFFICES ASSUME NEW s \in Slot PROVE Begun(s)' /\ Follows(s)
  BY DEF AllBegun
<1>0. Begun(s)
  BY DEF AllBegun
<1>1. CASE s \in S /\ runs[s] = "absent"
  <2>1. jobs'[s] = [status |-> "queued", attempts |-> 0, max |-> 1, owner |-> None]
    BY <1>1, NewJob DEF TakeOverAndDispatch
  <2>2. runs'[s] \in {"queued", "needs_takeover"}
    BY <1>1 DEF TakeOverAndDispatch
  <2>3. View(jobs'[s]) = [status |-> "queued", attempts |-> 0, max |-> 1, risk |-> "low"]
    BY <2>1 DEF View
  <2>4. View(jobs[s]).status = "absent"
    BY <1>0, <1>1 DEF Begun, View
  <2>5. Ledger!Accept(View(jobs[s]), View(jobs'[s]))
    BY <2>3, <2>4 DEF Ledger!Accept
  <2> QED
    BY <2>5, <2>2, <1>0, <1>1 DEF Follows, Ledger!Move, Begun
<1>2. CASE ~ (s \in S /\ runs[s] = "absent")
  <2>1. jobs'[s] = jobs[s] /\ runs'[s] \in {runs[s], "needs_takeover"}
    BY <1>2 DEF TakeOverAndDispatch
  <2> QED
    BY <2>1, <1>0 DEF Follows, Begun
<1> QED
  BY <1>1, <1>2

(* A step that moves jobs that are there, and nothing else.                *)
LEMMA JobsBegun ==
  ASSUME AllBegun, UNCHANGED <<runs, handled>>,
         \A s \in Slot : jobs'[s] = jobs[s] \/ jobs[s].status # "absent"
  PROVE  AllBegun'
BY DEF AllBegun, Begun

(* The handler is called for a queued run, and it is queued no more.       *)
LEMMA StartRunBegun ==
  ASSUME Typed, AllBegun, NEW c \in calls, StartRun(c)
  PROVE  AllBegun' /\ \A s \in Slot : Follows(s)
<1>1. UNCHANGED jobs
  BY DEF StartRun, StartAs
<1>2. CASE UNCHANGED <<runs, handled>>
  BY <1>1, <1>2 DEF AllBegun, Begun, Follows
<1>3. CASE StartAs(c, "handling") /\ runs[c.slot] = "queued"
  <2>1. c.slot \in Slot /\ handled[c.slot] = 0
    BY <1>3, CallType DEF AllBegun, Begun
  <2>2. /\ runs'[c.slot] = "running" /\ handled'[c.slot] = 1
        /\ \A s \in Slot \ {c.slot} : runs'[s] = runs[s] /\ handled'[s] = handled[s]
    BY <1>3, <2>1, Rows DEF StartAs
  <2> QED
    BY <1>1, <2>2 DEF AllBegun, Begun, Follows
<1>4. \/ UNCHANGED <<runs, handled>>
      \/ StartAs(c, "handling") /\ runs[c.slot] = "queued"
  BY DEF StartRun, StartAs
<1> QED
  BY <1>2, <1>3, <1>4

(* A finished run is neither absent nor queued.                            *)
LEMMA FinishRunBegun ==
  ASSUME Typed, AllBegun, NEW c \in calls, FinishRun(c)
  PROVE  AllBegun' /\ \A s \in Slot : Follows(s)
<1>1. c.result \in RunResult /\ c.slot \in Slot
  BY FinishRunType, CallType
<1>2. /\ runs'[c.slot] = c.result /\ \A s \in Slot \ {c.slot} : runs'[s] = runs[s]
      /\ UNCHANGED <<jobs, handled>>
  BY <1>1, Rows DEF FinishRun
<1> QED
  BY <1>1, <1>2 DEF AllBegun, Begun, Follows, RunResult

(* Every step keeps the relation of runs, jobs and handlers, and moves     *)
(* every job as the ledger says.                                           *)
LEMMA NextBegun ==
  ASSUME Typed, AllBegun, [Next]_vars
  PROVE  AllBegun' /\ \A s \in Slot : Follows(s)
<1>1. CASE UNCHANGED <<runs, jobs, handled>>
  BY <1>1 DEF AllBegun, Begun, Follows
<1>2. CASE Tick
  <2>1. PICK old \in SUBSET stale, S \in {{}, {cronJob.next}} :
          TakeOverAndDispatch(old, S) /\ UNCHANGED handled
          /\ (S # {} => cronJob.next # None /\ cronJob.next <= now)
    BY <1>2 DEF Tick
  <2>2. old \in SUBSET Slot
    BY Rows
  <2>3. S \in SUBSET Slot
    BY <2>1, Rows, CronAssumption DEF CronRow, Slot, Time
  <2> QED
    BY <2>1, <2>2, <2>3, DispatchBegun
<1>3. ASSUME NEW m \in Manual, RunNow(m) PROVE AllBegun' /\ \A s \in Slot : Follows(s)
  <2>1. TakeOverAndDispatch({}, {m}) /\ {} \in SUBSET Slot /\ {m} \in SUBSET Slot
        /\ UNCHANGED handled
    BY <1>3 DEF RunNow, Slot
  <2> QED
    BY <2>1, DispatchBegun
<1>4. ASSUME NEW s \in Slot, RecoverLease(s) \/ Retry(s) \/ \E w \in Worker : Claim(w, s)
      PROVE  AllBegun' /\ \A t \in Slot : Follows(t)
  <2>1. \A t \in Slot : Follows(t)
    BY <1>4, JobSteps
  <2>2. UNCHANGED <<runs, handled>>
    BY <1>4 DEF RecoverLease, Retry, Claim
  <2>3. \A t \in Slot : jobs'[t] = jobs[t] \/ jobs[t].status # "absent"
    BY <1>4, Rows DEF RecoverLease, Retry, Claim
  <2> QED
    BY <2>1, <2>2, <2>3, JobsBegun
<1>5. ASSUME NEW c \in calls, Report(c) PROVE AllBegun' /\ \A s \in Slot : Follows(s)
  <2>1. \A s \in Slot : Follows(s)
    BY <1>5, ReportJob
  <2>2. UNCHANGED <<runs, handled>>
    BY <1>5 DEF Report
  <2>3. \/ UNCHANGED jobs
        \/ jobs[c.slot].status = "running" /\ \A t \in Slot \ {c.slot} : jobs'[t] = jobs[t]
    BY <1>5, Rows DEF Report
  <2>4. \A t \in Slot : jobs'[t] = jobs[t] \/ jobs[t].status # "absent"
    BY <2>3
  <2> QED
    BY <2>1, <2>2, <2>4, JobsBegun
<1>6. [Next]_vars => \/ UNCHANGED <<runs, jobs, handled>>
                     \/ Tick \/ \E m \in Manual : RunNow(m)
                     \/ \E s \in Slot : RecoverLease(s) \/ Retry(s) \/ \E w \in Worker : Claim(w, s)
                     \/ \E c \in calls : StartRun(c) \/ FinishRun(c) \/ Report(c)
  BY DEF Next, vars, Advance, EditWrites, EditReads, GrowOld, CallStep, HandlerEnds,
     StatementFails, CallVanishes
<1> QED
  BY <1>1, <1>2, <1>3, <1>4, <1>5, <1>6, StartRunBegun, FinishRunBegun

(* The relation holds in every reachable state.                            *)
LEMMA BegunInvariant == Spec => []AllBegun
<1>1. Init => AllBegun
  BY DEF Init, AllBegun, Begun, NoJob
<1>2. Typed /\ AllBegun /\ [Next]_vars => AllBegun'
  BY NextBegun
<1> QED
  BY <1>1, <1>2, TypedInvariant, PTL DEF Spec

(* The handler of a run is called at most once, whatever is delivered,     *)
(* recovered, retried by the administrator or taken over meanwhile.        *)
THEOREM HandlerRunsOnceAlways == Spec => []HandlerRunsOnce
<1>1. AllBegun => HandlerRunsOnce
  BY DEF AllBegun, Begun, HandlerRunsOnce
<1> QED
  BY <1>1, BegunInvariant, PTL

(* The jobs of the runs move as the ledger of execution jobs says.         *)
THEOREM LedgerImplemented == Spec => JobsFollowLedger
<1> DEFINE ledger == [s \in Slot |-> [status |-> jobs[s].status,
                                      attempts |-> jobs[s].attempts,
                                      max |-> jobs[s].max, risk |-> "low"]]
<1>1. Init => Ledger!Init
  BY DEF Init, Ledger!Init, NoJob
<1>2. Typed /\ AllBegun /\ [Next]_vars => [Ledger!Next]_ledger
  <2> SUFFICES ASSUME Typed, AllBegun, [Next]_vars, ledger' # ledger
               PROVE  Ledger!Next
    OBVIOUS
  <2>1. \A s \in Slot : ledger[s] = View(jobs[s]) /\ ledger'[s] = View(jobs'[s])
    BY DEF View
  <2>2. \A s \in Slot : \/ View(jobs'[s]) = View(jobs[s])
                        \/ Ledger!Move(View(jobs[s]), View(jobs'[s]))
    BY NextBegun DEF Follows
  <2> HIDE DEF ledger
  <2>3. \A s \in Slot : ledger'[s] = ledger[s] \/ Ledger!Move(ledger[s], ledger'[s])
    BY <2>1, <2>2
  <2> USE DEF ledger
  <2> QED
    BY <2>3 DEF Ledger!Next
<1> QED
  BY <1>1, <1>2, TypedInvariant, BegunInvariant, PTL DEF Spec, JobsFollowLedger, Ledger!Spec

(* A run that has started never waits again, for any tick, take-over, late *)
(* end, redelivery, edit or fault.                                         *)
Waits(s) == runs[s] \in {"absent", "queued"}
NextStarted == \A s \in Slot : ~ Waits(s) => ~ Waits(s)'

LEMMA StartedStays ==
  ASSUME Typed, [Next]_vars
  PROVE  NextStarted
<1> SUFFICES ASSUME NEW s \in Slot, runs[s] \notin {"absent", "queued"}
             PROVE  runs'[s] \notin {"absent", "queued"}
  BY DEF NextStarted, Waits
<1>1. ASSUME NEW old, NEW S, TakeOverAndDispatch(old, S)
      PROVE  runs'[s] \notin {"absent", "queued"}
  BY <1>1 DEF TakeOverAndDispatch
<1>2. ASSUME NEW c \in calls, FinishRun(c) PROVE runs'[s] \notin {"absent", "queued"}
  BY <1>2, FinishRunType, CallType, Rows DEF FinishRun, RunResult
<1>3. ASSUME NEW c \in calls, StartRun(c) PROVE runs'[s] \notin {"absent", "queued"}
  BY <1>3, CallType, Rows DEF StartRun, StartAs
<1>4. CASE Tick
  BY <1>1, <1>4 DEF Tick
<1>5. ASSUME NEW m \in Manual, RunNow(m) PROVE runs'[s] \notin {"absent", "queued"}
  BY <1>1, <1>5 DEF RunNow
<1>6. CASE UNCHANGED runs
  BY <1>6
<1>7. \/ UNCHANGED runs \/ Tick \/ \E m \in Manual : RunNow(m)
      \/ \E c \in calls : StartRun(c) \/ FinishRun(c)
  BY DEF Next, vars, Advance, EditWrites, EditReads, GrowOld, RecoverLease, Retry, Claim,
     CallStep, HandlerEnds, Report, StatementFails, CallVanishes
<1> QED
  BY <1>2, <1>3, <1>4, <1>5, <1>6, <1>7

THEOREM StartedForGood == Spec => [][NextStarted]_vars
<1>1. Typed /\ [Next]_vars => NextStarted
  BY StartedStays
<1> QED
  BY <1>1, TypedInvariant, PTL DEF Spec

-----------------------------------------------------------------------------
(* No slot is passed over.                                                 *)

(* Every slot before an instant has its run.                               *)
Covered(next) == next # None => \A t \in Time : t < next => runs[t] # "absent"

(* So is it of the schedule, and of what the pending edits will write.     *)
Replayed == cronJob.policy = "replay" =>
              /\ Covered(cronJob.next)
              /\ \A e \in Editor : edits[e] # None => Covered(edits[e].next)

(* A run, once there, stays.                                               *)
LEMMA RunsStay ==
  ASSUME Typed, [Next]_vars, NEW s \in Slot, runs[s] # "absent"
  PROVE  runs'[s] # "absent"
<1>1. ASSUME NEW old, NEW S, TakeOverAndDispatch(old, S) PROVE runs'[s] # "absent"
  BY <1>1 DEF TakeOverAndDispatch
<1>2. ASSUME NEW c \in calls, FinishRun(c) PROVE runs'[s] # "absent"
  BY <1>2, FinishRunType, CallType, Rows DEF FinishRun, RunResult
<1>3. ASSUME NEW c \in calls, StartRun(c) PROVE runs'[s] # "absent"
  BY <1>3, CallType, Rows DEF StartRun, StartAs
<1>4. CASE Tick
  BY <1>1, <1>4 DEF Tick
<1>5. ASSUME NEW m \in Manual, RunNow(m) PROVE runs'[s] # "absent"
  BY <1>1, <1>5 DEF RunNow
<1>6. CASE UNCHANGED runs
  BY <1>6
<1>7. \/ UNCHANGED runs \/ Tick \/ \E m \in Manual : RunNow(m)
      \/ \E c \in calls : StartRun(c) \/ FinishRun(c)
  BY DEF Next, vars, Advance, EditWrites, EditReads, GrowOld, RecoverLease, Retry, Claim,
     CallStep, HandlerEnds, Report, StatementFails, CallVanishes
<1> QED
  BY <1>2, <1>3, <1>4, <1>5, <1>6, <1>7

(* What was covered stays covered.                                         *)
LEMMA CoveredStays ==
  ASSUME Typed, [Next]_vars, NEW next, Covered(next)
  PROVE  next # None => \A t \in Time : t < next => runs'[t] # "absent"
BY RunsStay DEF Covered, Slot

(* Under replay a tick goes on to the slot after the one it gave a run.    *)
LEMMA TickReplays ==
  ASSUME Typed, Tick, cronJob.policy = "replay", Covered(cronJob.next)
  PROVE  Covered(cronJob.next)'
<1>1. PICK old \in SUBSET stale, locked \in BOOLEAN :
        LET due == /\ cronJob.status = "published"
                   /\ cronJob.next # None
                   /\ cronJob.next <= now
                   /\ ~ locked
            from == IF cronJob.policy = "coalesce" THEN now ELSE cronJob.next
        IN  /\ old # {} \/ due
            /\ TakeOverAndDispatch(old, IF due THEN {cronJob.next} ELSE {})
            /\ cronJob' = [cronJob EXCEPT
                 !.next = IF due THEN NextFor(from) ELSE @,
                 !.last = IF old # {} THEN "needs_takeover" ELSE @]
            /\ UNCHANGED <<now, calls, edits, handled, faults>>
  BY DEF Tick
<1>2. PICK due \in BOOLEAN, last \in {cronJob.last, "needs_takeover"} :
        /\ due => cronJob.next # None /\ cronJob.next <= now
        /\ TakeOverAndDispatch(old, IF due THEN {cronJob.next} ELSE {})
        /\ cronJob' = [cronJob EXCEPT !.next = IF due THEN NextFor(cronJob.next) ELSE cronJob.next,
                                      !.last = last]
  BY <1>1
<1>3. cronJob \in CronRow /\ runs \in [Slot -> RunStatus]
  BY Rows
<1> DEFINE n == IF due THEN NextFor(cronJob.next) ELSE cronJob.next
<1>4. cronJob'.next = n
  <2> HIDE DEF n
  <2>1. cronJob' = [cronJob EXCEPT !.next = n, !.last = last]
    BY <1>2 DEF n
  <2> QED
    BY <2>1, <1>3 DEF CronRow
<1>5. \A t \in Time : runs[t] # "absent" => runs'[t] # "absent"
  BY <1>2 DEF TakeOverAndDispatch, Slot
<1>6. CASE ~ due
  BY <1>4, <1>5, <1>6 DEF Covered
<1>7. CASE due
  <2>1. runs'[cronJob.next] # "absent" \/ cronJob.next \notin Slot
    BY <1>2, <1>7 DEF TakeOverAndDispatch
  <2>2. cronJob.next \in Int /\ cronJob.next # None /\ n = cronJob.next + 1
    BY <1>2, <1>3, <1>7, CronAssumption DEF CronRow, NextFor
  <2>3. ASSUME NEW t \in Time, t < n PROVE runs'[t] # "absent"
    <3>1. t < cronJob.next \/ t = cronJob.next
      BY <2>2, <2>3 DEF Time
    <3> QED
      BY <1>5, <2>1, <2>2, <3>1 DEF Covered, Slot
  <2> QED
    BY <1>4, <2>3 DEF Covered
<1> QED
  BY <1>6, <1>7

(* An edit that asks for no pause, no publication and no new schedule      *)
(* carries the next_run_at it read.                                        *)
LEMMA TitleKeepsNext ==
  Edited("title").next \in {None, cronJob.next}
BY DEF Edited

(* Every step keeps the slots before the schedule and the edits covered,   *)
(* when the edits leave the schedule alone.                                *)
LEMMA NextReplayed ==
  ASSUME EditKinds \subseteq {"title"}, Typed, Replayed, [Next]_vars
  PROVE  Replayed'
<1>1. cronJob'.policy = cronJob.policy
  <2>1. cronJob \in CronRow
    BY Rows
  <2>2. ASSUME NEW status, NEW next,
               cronJob' = [cronJob EXCEPT !.status = status, !.next = next]
        PROVE  cronJob'.policy = cronJob.policy
    BY <2>1, <2>2 DEF CronRow
  <2>3. ASSUME NEW next, NEW last,
               cronJob' = [cronJob EXCEPT !.next = next, !.last = last]
        PROVE  cronJob'.policy = cronJob.policy
    BY <2>1, <2>3 DEF CronRow
  <2>4. ASSUME NEW last, cronJob' = [cronJob EXCEPT !.last = last]
        PROVE  cronJob'.policy = cronJob.policy
    BY <2>1, <2>4 DEF CronRow
  <2>5. \/ UNCHANGED cronJob
        \/ \E status, next : cronJob' = [cronJob EXCEPT !.status = status, !.next = next]
        \/ \E next, last : cronJob' = [cronJob EXCEPT !.next = next, !.last = last]
        \/ \E last : cronJob' = [cronJob EXCEPT !.last = last]
    BY DEF Next, vars, Advance, Tick, RunNow, EditWrites, EditReads, GrowOld, RecoverLease,
       Retry, Claim, CallStep, StartRun, StartAs, HandlerEnds, FinishRun, Report,
       StatementFails, CallVanishes
  <2> QED
    BY <2>2, <2>5, <2>3, <2>4
<1> SUFFICES ASSUME cronJob.policy = "replay"
             PROVE  /\ Covered(cronJob.next)'
                    /\ \A e \in Editor : edits'[e] # None => Covered(edits[e].next)'
  BY <1>1 DEF Replayed
<1>2. Covered(cronJob.next) /\ \A e \in Editor : edits[e] # None => Covered(edits[e].next)
  BY DEF Replayed
<1>3. CASE UNCHANGED <<cronJob, edits>>
  BY <1>2, <1>3, CoveredStays DEF Covered
<1>4. CASE Tick
  <2>1. UNCHANGED edits
    BY <1>4 DEF Tick
  <2> QED
    BY <1>2, <1>4, <2>1, CoveredStays, TickReplays DEF Covered
<1>5. ASSUME NEW e \in Editor, EditWrites(e)
      PROVE  /\ Covered(cronJob.next)'
             /\ \A d \in Editor : edits'[d] # None => Covered(edits[d].next)'
  <2>1. edits[e] \in EditRow /\ cronJob \in CronRow
    BY <1>5, Rows DEF EditWrites
  <2>2. cronJob'.next = edits[e].next
    BY <1>5, <2>1 DEF EditWrites, CronRow
  <2>3. \A d \in Editor : edits'[d] # None => edits'[d] = edits[d]
    BY <1>5, Rows DEF EditWrites
  <2> QED
    BY <1>2, <1>5, <2>2, <2>3, CoveredStays DEF Covered, EditWrites
<1>6. ASSUME NEW e \in Editor, NEW kind \in EditKinds, EditReads(e, kind)
      PROVE  /\ Covered(cronJob.next)'
             /\ \A d \in Editor : edits'[d] # None => Covered(edits[d].next)'
  <2>1. kind = "title"
    OBVIOUS
  <2>2. \A d \in Editor : \/ edits'[d] = edits[d]
                          \/ edits'[d].next \in {None, cronJob.next}
    BY <1>6, <2>1, TitleKeepsNext, Rows DEF EditReads
  <2> QED
    BY <1>2, <1>6, <2>2, CoveredStays DEF Covered, EditReads
<1>7. ASSUME NEW c \in calls, FinishRun(c)
      PROVE  /\ Covered(cronJob.next)'
             /\ \A e \in Editor : edits'[e] # None => Covered(edits[e].next)'
  <2>1. cronJob'.next = cronJob.next /\ UNCHANGED edits
    BY <1>7, Rows DEF FinishRun, CronRow
  <2> QED
    BY <1>2, <2>1, CoveredStays DEF Covered
<1>8. \/ UNCHANGED <<cronJob, edits>> \/ Tick
      \/ \E e \in Editor : EditWrites(e) \/ \E kind \in EditKinds : EditReads(e, kind)
      \/ \E c \in calls : FinishRun(c)
  BY DEF Next, vars, Advance, RunNow, GrowOld, RecoverLease, Retry, Claim,
     CallStep, StartRun, StartAs, HandlerEnds, Report, StatementFails, CallVanishes
<1> QED
  BY <1>3, <1>4, <1>5, <1>6, <1>7, <1>8

(* Under replay no slot of a published schedule is passed over, by a tick  *)
(* or by an edit that writes back a next_run_at it read before the tick,   *)
(* when no edit asks for a pause, a publication or a new schedule.         *)
THEOREM NoSlotSkippedAlways ==
  ASSUME EditKinds \subseteq {"title"}
  PROVE  Spec => []NoSlotSkipped
<1>1. Init => Replayed
  BY DEF Init, Replayed, Covered, Time
<1>2. Typed /\ Replayed /\ [Next]_vars => Replayed'
  BY NextReplayed
<1>3. Replayed => NoSlotSkipped
  BY DEF Replayed, Covered, NoSlotSkipped
<1> QED
  BY <1>1, <1>2, <1>3, TypedInvariant, PTL DEF Spec
=============================================================================
