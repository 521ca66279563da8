----------------------------- MODULE JobLedger -----------------------------
(***************************************************************************)
(* What the table execution_jobs promises to everyone who reads it: which  *)
(* status may follow which, and when an attempt may start.  No workers,    *)
(* leases, rows or messages.  A step may move several jobs (the recovery   *)
(* transaction does), each by one of the moves below.                      *)
(***************************************************************************)
EXTENDS Integers

CONSTANT Job

VARIABLE ledger   \* status, attempts, max and risk of every job

Replayable(e) == e.risk \in {"low", "medium"}

Accept(old, new) ==
  /\ old.status = "absent" /\ new.status = "queued"
  /\ new.attempts = 0 /\ new.max > 0

Start(old, new) ==
  /\ old.status \in {"queued", "retrying"} /\ old.attempts < old.max
  /\ new = [old EXCEPT !.status = "running", !.attempts = @ + 1]

Succeed(old, new) ==
  /\ old.status = "running"
  /\ new = [old EXCEPT !.status = "succeeded"]

(* failed is a proven refusal, or the budget of a replayable job is spent. *)
GiveUp(old, new) ==
  /\ old.status = "running"
  /\ new = [old EXCEPT !.status = "failed"]

TryAgain(old, new) ==
  /\ old.status = "running" /\ Replayable(old) /\ old.attempts < old.max
  /\ new = [old EXCEPT !.status = "retrying"]

(* The outcome is unknown and a person decides.  It is final: no program   *)
(* path restarts the job.                                                  *)
Doubt(old, new) ==
  /\ old.status = "running"
  /\ ~ (Replayable(old) /\ old.attempts < old.max)
  /\ new = [old EXCEPT !.status = "uncertain"]

Withdraw(old, new) ==
  /\ old.status \in {"queued", "running", "retrying"} /\ old.risk = "low"
  /\ new = [old EXCEPT !.status = "cancelled"]

(* The operator grants at most one attempt beyond the budget.              *)
Reopen(old, new) ==
  /\ old.status = "failed" /\ old.risk = "low"
  /\ new.status = "queued" /\ new.attempts = old.attempts
  /\ new.risk = old.risk
  /\ new.max \in {old.max, old.attempts + 1} /\ new.max > new.attempts

Move(old, new) ==
  \/ Accept(old, new) \/ Start(old, new) \/ Succeed(old, new)
  \/ GiveUp(old, new) \/ TryAgain(old, new) \/ Doubt(old, new)
  \/ Withdraw(old, new) \/ Reopen(old, new)

Init == \A j \in Job : ledger[j].status = "absent"

Next == /\ \A j \in Job : ledger'[j] = ledger[j] \/ Move(ledger[j], ledger'[j])
        /\ ledger' # ledger

Spec == Init /\ [][Next]_ledger
=============================================================================
