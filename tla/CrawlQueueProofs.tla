-------------------------- MODULE CrawlQueueProofs --------------------------
(***************************************************************************)
(* Theorems of module CrawlQueue, for every set of crawls, every queue     *)
(* depth, every number of attempts and every bound.                        *)
(***************************************************************************)
EXTENDS CrawlQueue, SequenceTheorems, TLAPS

USE DEF Live, Occupying, Over, State

(***************************************************************************)
(* The type invariant.  Attempts stay within max_attempts because a job    *)
(* that waits always has one left.                                         *)
(***************************************************************************)
Attempting(js) == \A k \in JobKey :
  js[k].status \in {"absent", "pending"} => js[k].attempts < MaxAttempts

Ledger(js) == js \in [JobKey -> JobRecord] /\ Attempting(js)

(* Keys of the right type.                                                 *)
LEMMA Keys ==
  /\ Sweep \in JobKey
  /\ \A c \in Crawl : /\ Starter(c) \in JobKey
                      /\ \A n \in 0..PollBound : Monitor(c, n) \in JobKey
                      /\ \A n \in 0..ReconcileBound : Reconcile(c, n) \in JobKey
<1>1. Sweep \in JobKey
  BY DEF Sweep, JobKey
<1>2. ASSUME NEW c \in Crawl
      PROVE  /\ Starter(c) \in JobKey
             /\ \A n \in 0..PollBound : Monitor(c, n) \in JobKey
             /\ \A n \in 0..ReconcileBound : Reconcile(c, n) \in JobKey
  BY DEF Starter, Monitor, Reconcile, JobKey
<1> QED
  BY <1>1, <1>2

(* A row of a job that waits again, and one that is over.                  *)
LEMMA JobRows ==
  ASSUME NEW row \in JobRecord
  PROVE  /\ [row EXCEPT !.status = "pending"] \in JobRecord
         /\ [row EXCEPT !.status = "pending"].attempts = row.attempts
         /\ [row EXCEPT !.status = "pending"].status = "pending"
         /\ Spent \in JobRecord /\ Spent.status = "over"
         /\ row.attempts \in Nat
BY CrawlAssumption DEF JobRecord, Spent

(* Inserting a job keeps the ledger of jobs sound: the other rows stay.    *)
LEMMA WithJobLedger ==
  ASSUME NEW js, Ledger(js), NEW k
  PROVE  /\ Ledger(WithJob(js, k))
         /\ \A i \in JobKey : i # k => WithJob(js, k)[i] = js[i]
         /\ \A i \in JobKey : js[i].status # "absent" => WithJob(js, k)[i] = js[i]
<1>1. CASE WithJob(js, k) = js
  BY <1>1
<1>2. CASE WithJob(js, k) = [js EXCEPT ![k].status = "pending"] /\ js[k].status = "absent"
  <2>1. \A i \in JobKey : /\ WithJob(js, k)[i] = IF i = k THEN [js[i] EXCEPT !.status = "pending"]
                                                ELSE js[i]
                          /\ js[i] \in JobRecord
    BY <1>2 DEF Ledger
  <2>2. DOMAIN WithJob(js, k) = JobKey /\ WithJob(js, k) \in [JobKey -> JobRecord]
    BY <1>2, JobRows DEF Ledger
  <2> QED
    BY <1>2, <2>1, <2>2, JobRows DEF Ledger, Attempting
<1> QED
  BY <1>1, <1>2 DEF WithJob

(* So does enqueueing a reconcile job.                                     *)
LEMMA WithReconcileLedger ==
  ASSUME NEW js, Ledger(js), NEW c
  PROVE  /\ Ledger(WithReconcile(js, c))
         /\ \A i \in JobKey : js[i].status # "absent" => WithReconcile(js, c)[i] = js[i]
BY WithJobLedger DEF WithReconcile

(* The end of a call puts its job back only while it has attempts left.    *)
LEMMA EndOfLedger ==
  ASSUME NEW js, Ledger(js), NEW x \in Call, NEW throws \in BOOLEAN
  PROVE  /\ Ledger(EndOf(x, js, throws))
         /\ \A i \in JobKey : i # x.job => EndOf(x, js, throws)[i] = js[i]
         /\ \A i \in JobKey : i = x.job /\ x.job # None => EndOf(x, js, throws)[i].status \in {"pending", "over"}
<1>1. CASE x.job = None
  <2>1. EndOf(x, js, throws) = js
    BY <1>1 DEF EndOf
  <2> QED
    BY <1>1, <2>1
<1>2. CASE x.job # None
  <2>1. x.job \in JobKey /\ js[x.job] \in JobRecord
    BY <1>2 DEF Call, Ledger
  <2> DEFINE row == IF throws /\ js[x.job].attempts < MaxAttempts
                    THEN [js[x.job] EXCEPT !.status = "pending"] ELSE Spent
  <2>2. EndOf(x, js, throws) = [js EXCEPT ![x.job] = row]
    BY <1>2 DEF EndOf
  <2>3. row \in JobRecord /\ row.status \in {"pending", "over"}
    BY <2>1, JobRows
  <2>4. row.status = "pending" => row.attempts < MaxAttempts
    BY <2>1, JobRows
  <2> HIDE DEF row
  <2>5. /\ EndOf(x, js, throws) \in [JobKey -> JobRecord]
        /\ \A i \in JobKey : EndOf(x, js, throws)[i] = IF i = x.job THEN row ELSE js[i]
    BY <2>2, <2>3 DEF Ledger
  <2> QED
    BY <2>1, <2>3, <2>4, <2>5 DEF Ledger, Attempting
<1> QED
  BY <1>1, <1>2

(* A claim counts the attempt, and only claims what has one left.          *)
LEMMA ClaimLedger ==
  ASSUME Ledger(jobs), NEW k \in JobKey, Claim(k)
  PROVE  /\ Ledger(jobs')
         /\ \A i \in JobKey : i # k => jobs'[i] = jobs[i]
         /\ jobs[k].status = "pending" /\ jobs'[k].status = "running"
<1> DEFINE n == jobs[k].attempts + 1
           row == [jobs[k] EXCEPT !.status = "running", !.attempts = n]
<1>1. n \in 0..MaxAttempts /\ jobs[k] \in JobRecord /\ jobs[k].status = "pending"
  BY CrawlAssumption DEF Claim, Ledger, Attempting, JobRecord
<1>2. jobs' = [jobs EXCEPT ![k] = row]
  BY DEF Claim
<1> HIDE DEF n
<1>3. row \in JobRecord /\ row.status = "running"
  BY <1>1 DEF JobRecord
<1> HIDE DEF row
<1>4. /\ jobs' \in [JobKey -> JobRecord]
      /\ \A i \in JobKey : jobs'[i] = IF i = k THEN row ELSE jobs[i]
  BY <1>2, <1>3 DEF Ledger
<1> QED
  BY <1>1, <1>3, <1>4 DEF Ledger, Attempting

(* A claim that finds nothing to do ends the job.                          *)
LEMMA ClaimForNothingLedger ==
  ASSUME Ledger(jobs), NEW k \in JobKey, ClaimForNothing(k)
  PROVE  /\ Ledger(jobs')
         /\ \A i \in JobKey : i # k => jobs'[i] = jobs[i]
         /\ jobs[k].status = "pending" /\ jobs'[k].status = "over"
         /\ calls' = calls
<1>1. /\ jobs' \in [JobKey -> JobRecord]
      /\ \A i \in JobKey : jobs'[i] = IF i = k THEN Spent ELSE jobs[i]
  BY JobRows DEF Ledger, ClaimForNothing
<1> QED
  BY <1>1, JobRows DEF Ledger, Attempting, ClaimForNothing

(* A conditional UPDATE of a crawl's state: what it changes.               *)
LEMMA Moved ==
  ASSUME crawls \in [Crawl -> CrawlRecord], NEW c, NEW from, NEW to \in State,
         Move(c, from, to)
  PROVE  /\ crawls' \in [Crawl -> CrawlRecord]
         /\ \A d \in Crawl :
              \/ crawls'[d] = crawls[d] /\ (d = c => crawls[d].state \notin from)
              \/ /\ d = c /\ crawls[d].state \in from
                 /\ crawls'[d].state = to /\ ~ crawls'[d].stalled
<1>1. CASE c \in Crawl /\ crawls[c].state \in from
  <2> DEFINE row == [crawls[c] EXCEPT !.state = to, !.stalled = FALSE]
  <2>1. crawls' = [crawls EXCEPT ![c] = row]
    BY <1>1 DEF Move
  <2>2. row \in CrawlRecord /\ row.state = to /\ ~ row.stalled
    BY <1>1 DEF CrawlRecord
  <2> HIDE DEF row
  <2> QED
    BY <1>1, <2>1, <2>2
<1>2. CASE ~ (c \in Crawl /\ crawls[c].state \in from)
  <2>1. crawls' = crawls
    BY <1>2 DEF Move
  <2> QED
    BY <1>2, <2>1
<1> QED
  BY <1>1, <1>2

(* A receipt: what it changes.                                             *)
LEMMA Recorded ==
  ASSUME crawls \in [Crawl -> CrawlRecord], NEW c, RecordTask(c)
  PROVE  /\ crawls' \in [Crawl -> CrawlRecord]
         /\ \A d \in Crawl :
              \/ crawls'[d] = crawls[d] /\ (d = c => crawls[d].state # "starting")
              \/ /\ d = c /\ crawls[d].state = "starting"
                 /\ crawls'[d].state = "running" /\ ~ crawls'[d].stalled
<1>1. CASE c \in Crawl /\ crawls[c].state = "starting"
  <2> DEFINE row == [crawls[c] EXCEPT !.state = "running", !.task = TRUE, !.stalled = FALSE]
  <2>1. crawls' = [crawls EXCEPT ![c] = row]
    BY <1>1 DEF RecordTask
  <2>2. row \in CrawlRecord /\ row.state = "running" /\ ~ row.stalled
    BY <1>1 DEF CrawlRecord
  <2> HIDE DEF row
  <2> QED
    BY <1>1, <2>1, <2>2
<1>2. CASE ~ (c \in Crawl /\ crawls[c].state = "starting")
  <2>1. crawls' = crawls
    BY <1>2 DEF RecordTask
  <2> QED
    BY <1>2, <2>1
<1> QED
  BY <1>1, <1>2

(* A call that goes on is the same call at another point.                  *)
LEMMA Gone ==
  ASSUME calls \subseteq Call, NEW x \in calls, NEW at \in Point,
         Goto(x, at) \/ GotoThrowing(x, at)
  PROVE  \E y \in Call : /\ calls' = (calls \ {x}) \cup {y}
                         /\ y.crawl = x.crawl /\ y.job = x.job /\ y.at = at
<1>1. x \in Call
  OBVIOUS
<1>2. CASE Goto(x, at)
  <2> DEFINE y == [x EXCEPT !.at = at]
  <2>1. y \in Call /\ y.crawl = x.crawl /\ y.job = x.job /\ y.at = at
    BY <1>1 DEF Call
  <2> QED
    BY <1>2, <2>1 DEF Goto
<1>3. CASE GotoThrowing(x, at)
  <2> DEFINE y == [x EXCEPT !.at = at, !.throws = TRUE]
  <2>1. y \in Call /\ y.crawl = x.crawl /\ y.job = x.job /\ y.at = at
    BY <1>1 DEF Call
  <2> QED
    BY <1>3, <2>1 DEF GotoThrowing
<1> QED
  BY <1>2, <1>3

(* A call that begins.                                                     *)
LEMMA Begun ==
  ASSUME NEW c \in Crawl \cup {None}, NEW k \in JobKey \cup {None}, NEW at \in Point
  PROVE  LET x == NewCall(c, k, at)
         IN  x \in Call /\ x.crawl = c /\ x.job = k /\ x.at = at
BY DEF NewCall, Call

-----------------------------------------------------------------------------
(* What every step does to the jobs, and where it takes the crawls.        *)

(* A call of a job was begun when the job was claimed.                     *)
Employed == \A x \in calls : x.job # None => jobs[x.job].status # "absent"

Typed == TypeOK /\ Attempting(jobs) /\ Employed

(* A later ledger: no job is forgotten.  Only a drain adds a starter.      *)
Grown(js) == /\ Ledger(js)
             /\ \A k \in JobKey : jobs[k].status # "absent" => js[k].status # "absent"
Undispatched(js) == \A c \in Crawl :
  jobs[Starter(c)].status = "absent" => js[Starter(c)].status = "absent"

Working == /\ calls' \subseteq Call /\ Employed'
           /\ Grown(jobs')

(* Where a step takes a crawl that neither starts nor is new: a start that *)
(* a call works on does not stall.                                         *)
Goes(d) ==
  \/ crawls'[d].state = crawls[d].state
  \/ crawls'[d].state \in Over \cup {"uncertain"}
  \/ crawls[d].state = "starting" /\ crawls'[d].state = "running"
  \/ crawls[d].state \in {"running", "stopping"} /\ crawls'[d].state = "stopping"
  \/ crawls[d].state = "starting" /\ crawls[d].stalled /\ crawls'[d].state = "queued"
Onward(d) ==
  /\ Goes(d)
  /\ crawls'[d].stalled => \/ crawls[d].stalled
                           \/ crawls[d].state = "starting" /\ ~ Starting(d)

Onwards == /\ crawls' \in [Crawl -> CrawlRecord]
           /\ order' = order
           /\ \A d \in Crawl : Onward(d)

Advances == Working /\ Undispatched(jobs') /\ Onwards

(* A starter is no other kind of job.                                      *)
LEMMA StarterApart ==
  ASSUME NEW c, NEW d, NEW n
  PROVE  Starter(c) # Monitor(d, n) /\ Starter(c) # Reconcile(d, n) /\ Starter(c) # Sweep
<1>1. /\ Starter(c).type = "starter" /\ Monitor(d, n).type = "monitor"
      /\ Reconcile(d, n).type = "reconcile" /\ Sweep.type = "sweep"
  BY DEF Starter, Monitor, Reconcile, Sweep
<1> QED
  BY <1>1

(* The ledger is grown by itself, and by an insertion.                     *)
LEMMA Growing ==
  ASSUME Typed, NEW js, Grown(js), NEW k
  PROVE  /\ Grown(jobs) /\ Undispatched(jobs)
         /\ Grown(WithJob(js, k))
         /\ Undispatched(js) /\ (\A c \in Crawl : Starter(c) # k)
              => Undispatched(WithJob(js, k))
<1>1. Grown(jobs) /\ Undispatched(jobs)
  BY DEF Typed, TypeOK, Grown, Ledger, Undispatched
<1>2. Grown(WithJob(js, k))
  BY WithJobLedger DEF Grown
<1>3. ASSUME Undispatched(js), \A c \in Crawl : Starter(c) # k
      PROVE  Undispatched(WithJob(js, k))
  BY <1>3, WithJobLedger, Keys DEF Grown, Undispatched
<1> QED
  BY <1>1, <1>2, <1>3

(* The monitor, the reconcile job and the sweep are no starters.           *)
LEMMA GrowingOther ==
  ASSUME Typed, NEW js, Grown(js), Undispatched(js), NEW c, NEW n
  PROVE  /\ Grown(WithJob(js, Monitor(c, n))) /\ Undispatched(WithJob(js, Monitor(c, n)))
         /\ Grown(WithReconcile(js, c)) /\ Undispatched(WithReconcile(js, c))
         /\ Grown(WithJob(js, Sweep)) /\ Undispatched(WithJob(js, Sweep))
<1>1. \A k : (\A d \in Crawl : Starter(d) # k) => Grown(WithJob(js, k)) /\ Undispatched(WithJob(js, k))
  BY Growing
<1>2. \A m : Grown(WithJob(js, Reconcile(c, m))) /\ Undispatched(WithJob(js, Reconcile(c, m)))
  BY <1>1, StarterApart
<1> QED
  BY <1>1, <1>2, StarterApart DEF WithReconcile

(* A call that ends.                                                       *)
LEMMA EndKept ==
  ASSUME Typed, NEW x \in calls, NEW js, Grown(js), NEW throws \in BOOLEAN,
         calls' = calls \ {x}, jobs' = EndOf(x, js, throws)
  PROVE  /\ Working
         /\ \A c \in Crawl : /\ jobs[Starter(c)].status = "absent"
                           /\ js[Starter(c)].status = "absent"
                           => jobs'[Starter(c)].status = "absent"
<1>1. x \in Call
  BY DEF Typed, TypeOK
<1>2. /\ Ledger(jobs')
      /\ \A i \in JobKey : i # x.job => jobs'[i] = js[i]
      /\ \A i \in JobKey : i = x.job /\ x.job # None => jobs'[i].status \in {"pending", "over"}
  BY <1>1, EndOfLedger DEF Grown
<1>3. x.job = None => jobs' = js
  BY DEF EndOf
<1>4. Grown(jobs')
  BY <1>2, <1>3 DEF Grown
<1>5. calls' \subseteq Call
  BY DEF Typed, TypeOK
<1>6. Employed'
  BY <1>4, <1>5 DEF Typed, Employed, Grown, Call
<1>7. ASSUME NEW c \in Crawl, jobs[Starter(c)].status = "absent",
             js[Starter(c)].status = "absent"
      PROVE  jobs'[Starter(c)].status = "absent"
  <2>1. Starter(c) \in JobKey
    BY Keys
  <2>2. x.job # None => x.job # Starter(c)
    BY <1>7 DEF Typed, Employed
  <2> QED
    BY <1>2, <1>3, <1>7, <2>1, <2>2
<1> QED
  BY <1>4, <1>5, <1>6, <1>7 DEF Working

(* A call that goes on.                                                    *)
LEMMA GoKept ==
  ASSUME Typed, NEW x \in calls, NEW at \in Point,
         Goto(x, at) \/ GotoThrowing(x, at), Grown(jobs')
  PROVE  Working
<1>1. PICK y \in Call : /\ calls' = (calls \ {x}) \cup {y}
                        /\ y.crawl = x.crawl /\ y.job = x.job /\ y.at = at
  BY Gone DEF Typed, TypeOK
<1>2. calls' \subseteq Call
  BY <1>1 DEF Typed, TypeOK
<1>3. Employed'
  BY <1>1, <1>2 DEF Typed, Employed, Grown, Call
<1> QED
  BY <1>2, <1>3 DEF Working

(* A call that begins, for a job that is there.                            *)
LEMMA BeginKept ==
  ASSUME Typed, NEW c \in Crawl \cup {None}, NEW k \in JobKey \cup {None}, NEW at \in Point,
         Begin(NewCall(c, k, at)), Grown(jobs'), k # None => jobs'[k].status # "absent"
  PROVE  Working
<1> DEFINE x == NewCall(c, k, at)
<1>1. x \in Call /\ x.job = k
  BY Begun
<1>2. calls' = calls \cup {x}
  BY DEF Begin
<1> HIDE DEF x
<1>3. calls' \subseteq Call
  BY <1>1, <1>2 DEF Typed, TypeOK
<1>4. Employed'
  BY <1>1, <1>2, <1>3 DEF Typed, Employed, Grown, Call
<1> QED
  BY <1>3, <1>4 DEF Working

(* A claim, with a call or with nothing to do.                             *)
LEMMA ClaimKept ==
  ASSUME Typed, NEW k \in JobKey,
         \/ ClaimForNothing(k)
         \/ Claim(k) /\ \E c \in Crawl \cup {None}, at \in Point : Begin(NewCall(c, k, at))
  PROVE  Working /\ Undispatched(jobs')
<1>1. Ledger(jobs)
  BY DEF Typed, TypeOK, Ledger
<1>2. /\ Ledger(jobs')
      /\ \A i \in JobKey : i # k => jobs'[i] = jobs[i]
      /\ jobs[k].status = "pending" /\ jobs'[k].status # "absent"
  <2>1. CASE ClaimForNothing(k)
    BY <1>1, <2>1, ClaimForNothingLedger
  <2>2. CASE Claim(k)
    BY <1>1, <2>2, ClaimLedger
  <2> QED
    BY <2>1, <2>2
<1>3. Grown(jobs')
  BY <1>2 DEF Grown
<1>4. Undispatched(jobs')
  BY <1>2, Keys DEF Undispatched
<1>5. CASE ClaimForNothing(k)
  <2>1. calls' = calls
    BY <1>5 DEF ClaimForNothing
  <2> QED
    BY <1>3, <1>4, <2>1 DEF Working, Typed, TypeOK, Employed, Grown, Call
<1>6. ASSUME NEW c \in Crawl \cup {None}, NEW at \in Point, Begin(NewCall(c, k, at))
      PROVE  Working
  BY <1>2, <1>3, <1>6, BeginKept
<1> QED
  BY <1>4, <1>5, <1>6

(* An UPDATE to uncertain or to an end, or from running to stopping.       *)
LEMMA MoveOnward ==
  ASSUME Typed, NEW c, NEW from, NEW to, Move(c, from, to), order' = order,
         \/ to \in Over \cup {"uncertain"}
         \/ to = "stopping" /\ from = {"running", "stopping"}
  PROVE  Onwards
<1>1. to \in State
  OBVIOUS
<1>2. crawls \in [Crawl -> CrawlRecord]
  BY DEF Typed, TypeOK
<1>3. /\ crawls' \in [Crawl -> CrawlRecord]
      /\ \A d \in Crawl : \/ crawls'[d] = crawls[d]
                          \/ /\ crawls[d].state \in from /\ crawls'[d].state = to
                             /\ ~ crawls'[d].stalled
  BY <1>1, <1>2, Moved
<1> QED
  BY <1>3 DEF Onwards, Onward, Goes

(* The crawls as they were.                                                *)
LEMMA SameOnward ==
  ASSUME Typed, crawls' = crawls, order' = order
  PROVE  Onwards
BY DEF Onwards, Onward, Goes, Typed, TypeOK

(* Canceling what waited a day.                                            *)
LEMMA CancelOnward ==
  ASSUME Typed, crawls' = CancelTimedOut(crawls), order' = order
  PROVE  /\ Onwards
         /\ \A d \in Crawl : /\ d \in TimedOut => crawls'[d].state = "cancelled"
                             /\ d \notin TimedOut => crawls'[d] = crawls[d]
                             /\ crawls'[d].stalled => crawls[d].stalled
<1>1. \A d \in Crawl : /\ [crawls[d] EXCEPT !.state = "cancelled"] \in CrawlRecord
                       /\ [crawls[d] EXCEPT !.state = "cancelled"].state = "cancelled"
                       /\ [crawls[d] EXCEPT !.state = "cancelled"].stalled => crawls[d].stalled
  BY DEF Typed, TypeOK, CrawlRecord
<1>2. \A d \in Crawl : crawls'[d] = IF d \in TimedOut THEN [crawls[d] EXCEPT !.state = "cancelled"]
                                    ELSE crawls[d]
  BY DEF CancelTimedOut
<1>3. crawls' \in [Crawl -> CrawlRecord]
  BY <1>1 DEF CancelTimedOut, Typed, TypeOK
<1>4. \A d \in Crawl : Onward(d)
  BY <1>1, <1>2 DEF Onward, Goes
<1> QED
  BY <1>1, <1>2, <1>3, <1>4 DEF Onwards

(* The sweep also puts a stalled start back.                               *)
LEMMA SweepOnward ==
  ASSUME Typed, RunSweep
  PROVE  Advances
<1> DEFINE stuck(c) == /\ crawls[c].state = "starting"
                       /\ ~ crawls[c].task /\ crawls[c].stalled
           back(c) == [crawls[c] EXCEPT !.state = "queued", !.stalled = FALSE]
           gone(c) == [crawls[c] EXCEPT !.state = "cancelled"]
<1>1. \A d \in Crawl : /\ back(d) \in CrawlRecord /\ back(d).state = "queued" /\ ~ back(d).stalled
                       /\ gone(d) \in CrawlRecord /\ gone(d).state = "cancelled"
                       /\ gone(d).stalled => crawls[d].stalled
  BY DEF Typed, TypeOK, CrawlRecord
<1>2. crawls' = [c \in Crawl |-> IF stuck(c) THEN back(c)
                                 ELSE IF c \in TimedOut THEN gone(c) ELSE crawls[c]]
  BY DEF RunSweep, CancelTimedOut
<1> HIDE DEF back, gone
<1>3. crawls' \in [Crawl -> CrawlRecord]
  BY <1>1, <1>2 DEF Typed, TypeOK
<1>4. ASSUME NEW d \in Crawl PROVE Onward(d)
  <2>1. \/ stuck(d) /\ crawls'[d] = back(d)
        \/ crawls'[d] = gone(d)
        \/ crawls'[d] = crawls[d]
    BY <1>2
  <2> QED
    BY <1>1, <2>1 DEF Onward, Goes
<1>5. Onwards
  BY <1>3, <1>4 DEF Onwards, RunSweep
<1>6. Working /\ Undispatched(jobs')
  <2>1. "draining" \in Point
    BY DEF Point
  <2> QED
    BY <2>1, Keys, ClaimKept DEF RunSweep
<1> QED
  BY <1>5, <1>6 DEF Advances

(* A monitor begins at one of four points, a reconcile job at one of       *)
(* three.                                                                  *)
LEMMA MonitorBegins ==
  ASSUME Typed, NEW c \in Crawl, NEW n \in 0..PollBound, RunMonitor(c, n)
  PROVE  \/ ClaimForNothing(Monitor(c, n))
         \/ /\ Claim(Monitor(c, n))
            /\ \E at \in {"expired", "expired without task", "polling", "waiting"} :
                 Begin(NewCall(c, Monitor(c, n), at))
<1> DEFINE late == crawls[c].age >= TwoHours
           soon == crawls[c].age < TwoHours
           task == crawls[c].task
           at == CASE crawls[c].age >= TwoHours /\ crawls[c].task -> "expired"
                   [] crawls[c].age >= TwoHours /\ ~ crawls[c].task -> "expired without task"
                   [] crawls[c].age < TwoHours /\ crawls[c].task -> "polling"
                   [] OTHER -> "waiting"
<1>1. TwoHours \in Int /\ crawls[c] \in CrawlRecord
  BY CrawlAssumption DEF Typed, TypeOK
<1>2. crawls[c].age \in Int
  BY <1>1, CrawlAssumption DEF CrawlRecord
<1>3. soon <=> ~ late
  BY <1>1, <1>2
<1>4. \/ ClaimForNothing(Monitor(c, n))
      \/ Claim(Monitor(c, n)) /\ Begin(NewCall(c, Monitor(c, n), at))
  BY DEF RunMonitor
<1> HIDE DEF late, soon, task
<1>5. at = CASE late /\ task -> "expired" [] late /\ ~ task -> "expired without task"
             [] soon /\ task -> "polling" [] OTHER -> "waiting"
  BY DEF late, soon, task
<1> HIDE DEF at
<1>6. at \in {"expired", "expired without task", "polling", "waiting"}
  <2>1. CASE late /\ task
    BY <1>3, <1>5, <2>1
  <2>2. CASE late /\ ~ task
    BY <1>3, <1>5, <2>2
  <2>3. CASE ~ late /\ task
    BY <1>3, <1>5, <2>3
  <2>4. CASE ~ late /\ ~ task
    BY <1>3, <1>5, <2>4
  <2> QED
    BY <2>1, <2>2, <2>3, <2>4
<1> QED
  BY <1>4, <1>6

(* The same for a reconcile job.                                           *)
LEMMA ReconcileBegins ==
  ASSUME Typed, NEW c \in Crawl, NEW n \in 0..ReconcileBound, RunReconcile(c, n)
  PROVE  \/ ClaimForNothing(Reconcile(c, n))
         \/ /\ Claim(Reconcile(c, n))
            /\ \E at \in {"abandoning", "checking", "requeueing"} :
                 Begin(NewCall(c, Reconcile(c, n), at))
<1> DEFINE task == crawls[c].task
           age == crawls[c].age
           at == CASE age = ADay \/ (~ task /\ age >= AnHour) -> "abandoning"
                   [] age # ADay /\ task -> "checking"
                   [] OTHER -> "requeueing"
<1>1. at \in {"abandoning", "checking", "requeueing"}
  <2>1. CASE age = ADay \/ (~ task /\ age >= AnHour)
    <3>1. ~ (age # ADay /\ task)
      BY <2>1
    <3> QED
      BY <2>1, <3>1
  <2>2. CASE age # ADay /\ task
    <3>1. ~ (age = ADay \/ (~ task /\ age >= AnHour))
      BY <2>2
    <3> QED
      BY <2>2, <3>1
  <2>3. CASE ~ (age = ADay \/ (~ task /\ age >= AnHour)) /\ ~ (age # ADay /\ task)
    BY <2>3
  <2> QED
    BY <2>1, <2>2, <2>3
<1>2. \/ ClaimForNothing(Reconcile(c, n))
      \/ Claim(Reconcile(c, n)) /\ Begin(NewCall(c, Reconcile(c, n), at))
  BY DEF RunReconcile
<1> HIDE DEF at
<1> QED
  BY <1>1, <1>2

(* The handlers other than the sweep leave the crawls alone when they      *)
(* begin.                                                                  *)
LEMMA RunJobAdvances ==
  ASSUME Typed, RunJob
  PROVE  Advances
<1>1. ASSUME NEW c \in Crawl, RunStarter(c) PROVE Advances
  <2>1. "selected" \in Point
    BY DEF Point
  <2>2. Onwards
    BY <1>1, SameOnward DEF RunStarter
  <2> QED
    BY <1>1, <2>1, <2>2, Keys, ClaimKept DEF RunStarter, Advances
<1>2. ASSUME NEW c \in Crawl, NEW n \in 0..PollBound, RunMonitor(c, n) PROVE Advances
  <2>1. {"expired", "expired without task", "polling", "waiting"} \subseteq Point
    BY DEF Point
  <2>2. Working /\ Undispatched(jobs')
    BY <1>2, <2>1, Keys, MonitorBegins, ClaimKept
  <2>3. Onwards
    BY <1>2, SameOnward DEF RunMonitor
  <2> QED
    BY <2>2, <2>3 DEF Advances
<1>3. ASSUME NEW c \in Crawl, NEW n \in 0..ReconcileBound, RunReconcile(c, n) PROVE Advances
  <2>1. {"abandoning", "checking", "requeueing"} \subseteq Point
    BY DEF Point
  <2>2. Working /\ Undispatched(jobs')
    BY <1>3, <2>1, Keys, ReconcileBegins, ClaimKept
  <2>3. Onwards
    BY <1>3, SameOnward DEF RunReconcile
  <2> QED
    BY <2>2, <2>3 DEF Advances
<1> QED
  BY <1>1, <1>2, <1>3, SweepOnward DEF RunJob

(* The jobs as they were.                                                  *)
LEMMA Unmoved ==
  ASSUME Typed
  PROVE  Grown(jobs) /\ Undispatched(jobs)
BY DEF Typed, TypeOK, Ledger, Grown, Undispatched

(* Requests that end or stop a crawl, and the clock.                       *)
LEMMA RequestAdvances ==
  ASSUME Typed, NEW c \in Crawl, StopGate(c) \/ Dequeue(c) \/ GrowOld(c) \/ Stalls(c)
  PROVE  Advances
<1>1. Grown(jobs) /\ Undispatched(jobs)
  BY Unmoved
<1>2. ASSUME jobs' = jobs, calls' = calls PROVE Working /\ Undispatched(jobs')
  BY <1>1, <1>2 DEF Working, Typed, TypeOK, Employed
<1>3. CASE StopGate(c)
  <2>1. Onwards
    BY <1>3, MoveOnward DEF StopGate
  <2> QED
    BY <1>2, <1>3, <2>1 DEF StopGate, Advances
<1>4. CASE Dequeue(c)
  <2>1. Onwards
    BY <1>4, MoveOnward DEF Dequeue
  <2>2. "draining" \in Point
    BY DEF Point
  <2>3. jobs' = jobs /\ Begin(NewCall(c, None, "draining"))
    BY <1>4 DEF Dequeue
  <2>4. Working
    BY <1>1, <2>2, <2>3, BeginKept
  <2> QED
    BY <1>1, <2>1, <2>3, <2>4 DEF Advances
<1>5. CASE GrowOld(c)
  <2> DEFINE n == crawls[c].age + 1
             row == [crawls[c] EXCEPT !.age = n]
  <2>1. crawls' = [crawls EXCEPT ![c] = row] /\ crawls[c] \in CrawlRecord
    BY <1>5 DEF GrowOld, Typed, TypeOK
  <2>2. n \in 0..ADay
    BY <1>5, <2>1, CrawlAssumption DEF GrowOld, CrawlRecord
  <2> HIDE DEF n
  <2>3. /\ row \in CrawlRecord /\ row.state = crawls[c].state
        /\ row.stalled => crawls[c].stalled
    BY <2>1, <2>2 DEF CrawlRecord
  <2> HIDE DEF row
  <2>4. /\ crawls' \in [Crawl -> CrawlRecord]
        /\ \A d \in Crawl : /\ crawls'[d].state = crawls[d].state
                             /\ crawls'[d].stalled => crawls[d].stalled
    BY <2>1, <2>3 DEF Typed, TypeOK
  <2>5. Onwards
    BY <1>5, <2>4 DEF Onwards, Onward, Goes, GrowOld
  <2> QED
    BY <1>2, <1>5, <2>5 DEF GrowOld, Advances
<1>6. CASE Stalls(c)
  <2> DEFINE row == [crawls[c] EXCEPT !.stalled = TRUE]
  <2>1. crawls' = [crawls EXCEPT ![c] = row] /\ crawls[c] \in CrawlRecord
    BY <1>6 DEF Stalls, Typed, TypeOK
  <2>2. row \in CrawlRecord /\ row.state = crawls[c].state
    BY <2>1 DEF CrawlRecord
  <2> HIDE DEF row
  <2>3. /\ crawls' \in [Crawl -> CrawlRecord]
        /\ \A d \in Crawl : /\ crawls'[d].state = crawls[d].state
                             /\ d # c => crawls'[d] = crawls[d]
    BY <2>1, <2>2 DEF Typed, TypeOK
  <2>4. Onwards
    BY <1>6, <2>3 DEF Onwards, Onward, Goes, Stalls
  <2> QED
    BY <1>2, <1>6, <2>4 DEF Stalls, Advances
<1> QED
  BY <1>3, <1>4, <1>5, <1>6

(* A handler or request that ends dispatches no starter.                   *)
LEMMA EndAdvances ==
  ASSUME Typed, NEW x \in calls, NEW js, Grown(js), Undispatched(js), End(x, js)
  PROVE  Working /\ Undispatched(jobs')
<1>1. x.throws \in BOOLEAN
  BY DEF Typed, TypeOK, Call
<1> QED
  BY <1>1, EndKept DEF End, Undispatched

(* So does one that throws.                                                *)
LEMMA ThrowAdvances ==
  ASSUME Typed, NEW x \in calls, Throw(x)
  PROVE  Working /\ Undispatched(jobs')
BY Unmoved, EndKept DEF Throw, Undispatched

(* So does one that goes on.                                               *)
LEMMA GoAdvances ==
  ASSUME Typed, NEW x \in calls, NEW at \in Point, jobs' = jobs,
         Goto(x, at) \/ GotoThrowing(x, at)
  PROVE  Working /\ Undispatched(jobs')
<1>1. Grown(jobs) /\ Undispatched(jobs)
  BY Unmoved
<1>2. Grown(jobs')
  BY <1>1, Zenon DEF Grown, Ledger, Attempting
<1> QED
  BY <1>1, <1>2, GoKept
(* The remote start and what follows its answer.                           *)
LEMMA StartAdvances ==
  ASSUME Typed, NEW x \in calls,
         \/ CallStart(x) \/ RecordStart(x) \/ GateStartFailed(x) \/ StarterFailed(x)
         \/ FirstMonitor(x)
  PROVE  Advances
<1>0. {"started", "start failed", "reconciling", "calling"} \subseteq Point
  BY DEF Point
<1>1. CASE CallStart(x)
  <2>1. PICK at \in {"started", "start failed"} : Goto(x, at)
    BY <1>1 DEF CallStart, Answer
  <2>2. jobs' = jobs /\ Onwards
    BY <1>1, SameOnward DEF CallStart
  <2> QED
    BY <1>0, <2>1, <2>2, GoAdvances DEF Advances
<1>2. CASE RecordStart(x)
  <2>1. Working /\ Undispatched(jobs')
    BY <1>2, Unmoved, EndAdvances DEF RecordStart
  <2>2. crawls \in [Crawl -> CrawlRecord] /\ RecordTask(x.crawl) /\ order' = order
    BY <1>2 DEF RecordStart, Typed, TypeOK
  <2>3. /\ crawls' \in [Crawl -> CrawlRecord]
        /\ \A d \in Crawl : \/ crawls'[d] = crawls[d]
                            \/ /\ crawls[d].state = "starting" /\ crawls'[d].state = "running"
                               /\ ~ crawls'[d].stalled
    BY <2>2, Recorded
  <2>4. Onwards
    BY <2>2, <2>3 DEF Onwards, Onward, Goes
  <2> QED
    BY <2>1, <2>4 DEF Advances
<1>3. CASE GateStartFailed(x)
  <2>1. Working /\ Undispatched(jobs')
    BY <1>3, Unmoved, EndAdvances DEF GateStartFailed
  <2>2. Onwards
    BY <1>3, MoveOnward DEF GateStartFailed
  <2> QED
    BY <2>1, <2>2 DEF Advances
<1>4. CASE StarterFailed(x)
  <2>1. Working /\ Undispatched(jobs')
    BY <1>0, <1>4, GoAdvances DEF StarterFailed
  <2>2. Onwards
    BY <1>4, MoveOnward DEF StarterFailed
  <2> QED
    BY <2>1, <2>2 DEF Advances
<1>5. CASE FirstMonitor(x)
  <2>1. Goto(x, "calling") /\ jobs' = WithJob(jobs, Monitor(x.crawl, 0))
    BY <1>5 DEF FirstMonitor
  <2>2. Grown(jobs') /\ Undispatched(jobs')
    BY <2>1, Unmoved, GrowingOther
  <2>3. Working
    BY <1>0, <2>1, <2>2, GoKept
  <2>4. Onwards
    BY <1>5, SameOnward DEF FirstMonitor
  <2> QED
    BY <2>2, <2>3, <2>4 DEF Advances
<1> QED
  BY <1>1, <1>2, <1>3, <1>4, <1>5

(* The monitor.                                                            *)
LEMMA MonitorAdvances ==
  ASSUME Typed, NEW x \in calls,
         \/ AwaitReceipt(x) \/ PollTerminal(x) \/ PollAgain(x) \/ PollFails(x)
         \/ AutoStop(x) \/ EnqueueReconcile(x)
  PROVE  Advances
<1>0. {"reconciling", "draining"} \subseteq Point
  BY DEF Point
<1>1. CASE AwaitReceipt(x)
  <2>1. CASE x.job.n >= StartPolls
    <3>1. Goto(x, "reconciling") /\ jobs' = jobs
      BY <1>1, <2>1 DEF AwaitReceipt
    <3>2. Working /\ Undispatched(jobs')
      BY <1>0, <3>1, GoAdvances
    <3>3. order' = order /\ (crawls' = crawls \/ Move(x.crawl, State, "uncertain"))
      BY <1>1, <2>1 DEF AwaitReceipt
    <3>4. Onwards
      BY <3>3, SameOnward, MoveOnward
    <3> QED
      BY <3>2, <3>4 DEF Advances
  <2>2. CASE ~ (x.job.n >= StartPolls)
    <3>1. /\ End(x, WithJob(jobs, Monitor(x.crawl, x.job.n + 1)))
          /\ crawls' = crawls /\ order' = order
      BY <1>1, <2>2 DEF AwaitReceipt
    <3>2. Working /\ Undispatched(jobs')
      BY <3>1, Unmoved, GrowingOther, EndAdvances
    <3> QED
      BY <3>1, <3>2, SameOnward DEF Advances
  <2> QED
    BY <2>1, <2>2
<1>2. CASE PollTerminal(x)
  <2>1. Working /\ Undispatched(jobs')
    BY <1>0, <1>2, GoAdvances DEF PollTerminal
  <2>2. PICK to \in Over : Move(x.crawl, Live, to)
    BY <1>2 DEF PollTerminal
  <2>3. Onwards
    BY <1>2, <2>2, MoveOnward DEF PollTerminal
  <2> QED
    BY <2>1, <2>3 DEF Advances
<1>3. CASE PollAgain(x)
  <2>1. PICK js \in {jobs, WithJob(jobs, Monitor(x.crawl, x.job.n + 1))} : End(x, js)
    BY <1>3 DEF PollAgain
  <2>2. Grown(js) /\ Undispatched(js)
    BY Unmoved, GrowingOther
  <2>3. Working /\ Undispatched(jobs')
    BY <2>1, <2>2, EndAdvances
  <2> QED
    BY <1>3, <2>3, SameOnward DEF PollAgain, Advances
<1>4. CASE PollFails(x)
  <2>1. CASE /\ Move(x.crawl, Live, "uncertain")
             /\ GotoThrowing(x, "reconciling") /\ jobs' = jobs
    <3>1. Onwards
      BY <1>4, <2>1, MoveOnward DEF PollFails
    <3>2. Working /\ Undispatched(jobs')
      BY <1>0, <2>1, GoAdvances
    <3> QED
      BY <3>1, <3>2 DEF Advances
  <2>2. CASE Throw(x) /\ crawls' = crawls
    BY <1>4, <2>2, ThrowAdvances, SameOnward DEF PollFails, Advances
  <2> QED
    BY <1>4, <2>1, <2>2 DEF PollFails
<1>5. CASE AutoStop(x)
  <2>1. /\ Goto(x, "draining") \/ Goto(x, "reconciling")
        /\ jobs' = jobs /\ order' = order
        /\ Move(x.crawl, Occupying, "cancelled") \/ Move(x.crawl, Occupying, "uncertain")
    BY <1>5 DEF AutoStop
  <2>2. Working /\ Undispatched(jobs')
    BY <1>0, <2>1, GoAdvances
  <2>3. Onwards
    BY <2>1, MoveOnward
  <2> QED
    BY <2>2, <2>3 DEF Advances
<1>6. CASE EnqueueReconcile(x)
  <2>1. Working /\ Undispatched(jobs')
    BY <1>6, Unmoved, GrowingOther, EndAdvances DEF EnqueueReconcile
  <2> QED
    BY <1>6, <2>1, SameOnward DEF EnqueueReconcile, Advances
<1> QED
  BY <1>1, <1>2, <1>3, <1>4, <1>5, <1>6

(* Reconcile, and the starter that refuses.                                *)
LEMMA ReconcileAdvances ==
  ASSUME Typed, NEW x \in calls,
         \/ RefuseStart(x)
         \/ Abandon(x) \/ ReconcileLater(x) \/ ReconcileTerminal(x) \/ ReconcileFails(x)
  PROVE  Advances
<1>0. "draining" \in Point
  BY DEF Point
<1>1. CASE RefuseStart(x) \/ Abandon(x) \/ ReconcileTerminal(x)
  <2>1. PICK from \in {{"queued"}, {"uncertain"}}, to \in Over : Move(x.crawl, from, to)
    BY <1>1 DEF RefuseStart, Abandon, ReconcileTerminal
  <2>2. order' = order /\ jobs' = jobs /\ Goto(x, "draining")
    BY <1>1 DEF RefuseStart, Abandon, ReconcileTerminal
  <2>3. Onwards
    BY <2>1, <2>2, MoveOnward
  <2>4. Working /\ Undispatched(jobs')
    BY <1>0, <2>2, GoAdvances
  <2> QED
    BY <2>3, <2>4 DEF Advances
<1>2. CASE ReconcileLater(x) \/ ReconcileFails(x)
  <2>1. PICK js \in {jobs, WithReconcile(jobs, x.crawl)} : End(x, js)
    BY <1>2 DEF ReconcileLater, ReconcileFails
  <2>2. Grown(js) /\ Undispatched(js)
    BY Unmoved, GrowingOther
  <2>3. Working /\ Undispatched(jobs')
    BY <2>1, <2>2, EndAdvances
  <2> QED
    BY <1>2, <2>3, SameOnward DEF ReconcileLater, ReconcileFails, Advances
<1> QED
  BY <1>1, <1>2

-----------------------------------------------------------------------------
(* The steps that bring a crawl in or start it, and the drain.             *)

(* A new row, behind the others.                                           *)
LEMMA Inserted ==
  ASSUME Typed, NEW c \in Crawl, NEW state \in State, Insert(c, state)
  PROVE  /\ crawls' \in [Crawl -> CrawlRecord]
         /\ \A d \in Crawl : d # c => crawls'[d] = crawls[d]
         /\ crawls'[c].state = state
         /\ crawls'[c].stalled => crawls[c].stalled
         /\ order' = Append(order, c) /\ order' \in Seq(Crawl)
<1> DEFINE row == [crawls[c] EXCEPT !.state = state]
<1>1. crawls' = [crawls EXCEPT ![c] = row] /\ order' = Append(order, c)
  BY DEF Insert
<1>2. row \in CrawlRecord /\ row.state = state /\ (row.stalled => crawls[c].stalled)
  BY DEF Typed, TypeOK, CrawlRecord
<1> HIDE DEF row
<1>3. order \in Seq(Crawl) /\ crawls \in [Crawl -> CrawlRecord]
  BY DEF Typed, TypeOK
<1>4. Append(order, c) \in Seq(Crawl)
  BY <1>3, AppendProperties
<1> QED
  BY <1>1, <1>2, <1>3, <1>4

(* The start gate takes the idle instance.                                 *)
LEMMA StartGateStep ==
  ASSUME Typed, NEW c \in Crawl, StartGate(c)
  PROVE  Working /\ Undispatched(jobs')
<1>1. "dispatching" \in Point
  BY DEF Point
<1>2. Grown(jobs') /\ Undispatched(jobs')
  BY Unmoved, GrowingOther DEF StartGate
<1> QED
  BY <1>1, <1>2, BeginKept DEF StartGate

(* A request, or the scheduler, queues a crawl.                            *)
LEMMA QueueRequestStep ==
  ASSUME Typed, NEW c \in Crawl, NEW system \in BOOLEAN, QueueRequest(c, system)
  PROVE  Working /\ Undispatched(jobs')
<1>1. "draining" \in Point
  BY DEF Point
<1>2. Grown(jobs') /\ Undispatched(jobs')
  BY Unmoved, GrowingOther DEF QueueRequest
<1>3. CASE calls' = calls
  BY <1>2, <1>3 DEF Working, Typed, TypeOK, Employed, Grown, Call
<1>4. CASE Begin(NewCall(c, None, "draining"))
  BY <1>1, <1>2, <1>4, BeginKept
<1> QED
  BY <1>3, <1>4 DEF QueueRequest

(* The starter adopts its crawl, or ends.                                  *)
LEMMA AdoptStep ==
  ASSUME Typed, NEW x \in calls, Adopt(x)
  PROVE  /\ Working /\ Undispatched(jobs')
         /\ crawls' \in [Crawl -> CrawlRecord]
         /\ order' = order
         /\ \/ crawls' = crawls /\ calls' = calls \ {x}
            \/ /\ In(Occupying) = {}
               /\ \A d \in Crawl :
                    \/ crawls'[d] = crawls[d] /\ d # x.crawl
                    \/ /\ d = x.crawl /\ crawls[d].state = "queued"
                       /\ crawls'[d].state = "starting" /\ ~ crawls'[d].stalled
               /\ crawls[x.crawl].state = "queued" /\ Goto(x, "monitoring")
<1>1. order' = order
  BY DEF Adopt
<1>2. CASE In(Occupying) = {} /\ crawls[x.crawl].state = "queued"
  <2>1. Move(x.crawl, {"queued"}, "starting") /\ Goto(x, "monitoring") /\ jobs' = jobs
    BY <1>2 DEF Adopt
  <2>2. "monitoring" \in Point
    BY DEF Point
  <2>3. Working /\ Undispatched(jobs')
    BY <2>1, <2>2, GoAdvances
  <2>4. crawls \in [Crawl -> CrawlRecord]
    BY DEF Typed, TypeOK
  <2>5. /\ crawls' \in [Crawl -> CrawlRecord]
        /\ \A d \in Crawl :
              \/ crawls'[d] = crawls[d] /\ (d = x.crawl => crawls[d].state \notin {"queued"})
              \/ /\ d = x.crawl /\ crawls[d].state \in {"queued"}
                 /\ crawls'[d].state = "starting" /\ ~ crawls'[d].stalled
    BY <2>1, <2>4, Moved
  <2> QED
    BY <1>1, <1>2, <2>1, <2>3, <2>5
<1>3. CASE ~ (In(Occupying) = {} /\ crawls[x.crawl].state = "queued")
  <2>1. End(x, jobs) /\ crawls' = crawls
    BY <1>3 DEF Adopt
  <2>2. Working /\ Undispatched(jobs')
    BY <2>1, Unmoved, EndAdvances
  <2> QED
    BY <1>1, <2>1, <2>2 DEF End, Typed, TypeOK
<1> QED
  BY <1>2, <1>3

(* The drain cancels what timed out, and dispatches at most the starter of *)
(* the head of the queue, and this only if the instance is free.           *)
LEMMA DrainStep ==
  ASSUME Typed, NEW x \in calls, Drain(x)
  PROVE  /\ Working /\ Onwards
         /\ \A c \in Crawl :
              jobs[Starter(c)].status = "absent" /\ jobs'[Starter(c)].status # "absent"
                => c \in HeadOfQueue /\ In(Occupying) = {}
<1> DEFINE first == CHOOSE c \in HeadOfQueue : TRUE
           free == In(Occupying) = {} /\ HeadOfQueue # {}
           started == IF free THEN WithJob(jobs, Starter(first)) ELSE jobs
           js == IF x.job = Sweep /\ HeadOfQueue # {} THEN WithJob(started, Sweep) ELSE started
<1>1. End(x, js) /\ crawls' = CancelTimedOut(crawls) /\ order' = order
  BY DEF Drain
<1>2. Onwards
  BY <1>1, CancelOnward
<1>3. x.throws \in BOOLEAN
  BY DEF Typed, TypeOK, Call
<1>4. Grown(started)
  BY Unmoved, Growing
<1>5. \A c \in Crawl : jobs[Starter(c)].status = "absent" /\ started[Starter(c)].status # "absent"
        => c = first /\ free
  <2>1. ASSUME NEW c \in Crawl, free, c # first
        PROVE  started[Starter(c)] = jobs[Starter(c)]
    <3>1. Starter(c).crawl = c /\ Starter(first).crawl = first
      BY DEF Starter
    <3>2. Starter(c) # Starter(first) /\ Starter(c) \in JobKey
      BY <2>1, <3>1, Keys
    <3> HIDE DEF first
    <3>3. Ledger(jobs) /\ started = WithJob(jobs, Starter(first))
      BY <2>1, Unmoved DEF Grown
    <3> QED
      BY <3>2, <3>3, WithJobLedger
  <2> QED
    BY <2>1
<1>6. free => first \in HeadOfQueue
  OBVIOUS
<1> HIDE DEF first, started
<1>7. Grown(js)
  BY <1>4, Growing
<1>8. \A c \in Crawl : jobs[Starter(c)].status = "absent" /\ js[Starter(c)].status # "absent"
        => c = first /\ free
  <2>1. \A c \in Crawl : started[Starter(c)].status # "absent" \/ js[Starter(c)] = started[Starter(c)]
    BY <1>4, WithJobLedger, Keys, StarterApart DEF Grown
  <2>2. \A c \in Crawl : js[Starter(c)].status # "absent" => started[Starter(c)].status # "absent"
    BY <2>1
  <2> QED
    BY <1>5, <2>2
<1> HIDE DEF js
<1>9. calls' = calls \ {x} /\ jobs' = EndOf(x, js, x.throws)
  BY <1>1 DEF End
<1>10. /\ Working
       /\ \A c \in Crawl : /\ jobs[Starter(c)].status = "absent"
                           /\ js[Starter(c)].status = "absent"
                           => jobs'[Starter(c)].status = "absent"
  BY <1>3, <1>7, <1>9, EndKept
<1> QED
  BY <1>2, <1>6, <1>8, <1>10

(* A crash ends the call and nothing else.                                 *)
LEMMA CrashAdvances ==
  ASSUME Typed, NEW x \in calls, Crash(x)
  PROVE  Advances
BY ThrowAdvances, SameOnward DEF Crash, Advances

(* So a step either lets a crawl in or starts one, or drains, or advances. *)
LEMMA NextCases ==
  ASSUME Typed, Next
  PROVE  \/ Advances
         \/ \E c \in Crawl : StartGate(c) \/ \E system \in BOOLEAN : QueueRequest(c, system)
         \/ \E x \in calls : Adopt(x) \/ Drain(x)
<1>1. ASSUME NEW x \in calls, Step(x), ~ Adopt(x), ~ Drain(x) PROVE Advances
  BY <1>1, StartAdvances, MonitorAdvances, ReconcileAdvances DEF Step
<1> QED
  BY <1>1, RunJobAdvances, RequestAdvances, CrashAdvances DEF Next

(* One more of a count is a count.                                         *)
LEMMA Counted ==
  ASSUME NEW old \in StartCount
  PROVE  /\ LET new == [old EXCEPT !.called = @ + 1]
            IN  new \in StartCount /\ new.called = old.called + 1 /\ new.cut = old.cut
         /\ LET new == [old EXCEPT !.cut = @ + 1]
            IN  new \in StartCount /\ new.called = old.called /\ new.cut = old.cut + 1
BY DEF StartCount

(* What a call of the remote start, and a crash, count.                    *)
LEMMA CallStartCounts ==
  ASSUME starts \in [Crawl -> StartCount], NEW x, CallStart(x)
  PROVE  /\ starts' \in [Crawl -> StartCount]
         /\ \A c \in Crawl : /\ starts'[c].cut = starts[c].cut
                             /\ starts'[c].called = IF c = x.crawl THEN starts[c].called + 1
                                                    ELSE starts[c].called
<1> DEFINE new == [starts[x.crawl] EXCEPT !.called = @ + 1]
<1>1. starts' = [starts EXCEPT ![x.crawl] = new]
  BY DEF CallStart
<1>2. x.crawl \in Crawl => /\ new \in StartCount
                           /\ new.called = starts[x.crawl].called + 1
                           /\ new.cut = starts[x.crawl].cut
  BY Counted
<1> HIDE DEF new
<1> QED
  BY <1>1, <1>2

LEMMA CrashCounts ==
  ASSUME starts \in [Crawl -> StartCount], NEW x, Crash(x)
  PROVE  /\ starts' \in [Crawl -> StartCount]
         /\ \A c \in Crawl :
              /\ starts'[c].called = starts[c].called
              /\ starts'[c].cut = IF c = x.crawl /\ x.at \in Answer
                                  THEN starts[c].cut + 1 ELSE starts[c].cut
<1> DEFINE new == [starts[x.crawl] EXCEPT !.cut = @ + 1]
<1>1. starts' = IF x.at \in Answer THEN [starts EXCEPT ![x.crawl] = new] ELSE starts
  BY DEF Crash
<1>2. x.crawl \in Crawl => /\ new \in StartCount
                           /\ new.called = starts[x.crawl].called
                           /\ new.cut = starts[x.crawl].cut + 1
  BY Counted
<1> HIDE DEF new
<1> QED
  BY <1>1, <1>2

(* The counters keep their types.                                          *)
LEMMA CountersType ==
  ASSUME TypeOK, Next
  PROVE  starts' \in [Crawl -> StartCount] /\ faults' \in 0..MaxFaults
<1>0. starts \in [Crawl -> StartCount] /\ faults \in 0..MaxFaults
  BY DEF TypeOK
<1>1. CASE starts' = starts /\ faults' = faults
  BY <1>0, <1>1
<1>2. ASSUME NEW x \in calls, CallStart(x)
      PROVE  starts' \in [Crawl -> StartCount] /\ faults' = faults
  BY <1>0, <1>2, CallStartCounts DEF CallStart
<1>3. ASSUME NEW x \in calls, Crash(x)
      PROVE  starts' \in [Crawl -> StartCount] /\ faults' \in 0..MaxFaults
  <2>1. faults' \in 0..MaxFaults
    BY <1>0, <1>3, CrawlAssumption DEF Crash
  <2> QED
    BY <1>0, <1>3, <2>1, CrashCounts
<1>4. ASSUME NEW x \in calls, Step(x), ~ CallStart(x) PROVE starts' = starts /\ faults' = faults
  BY <1>4 DEF Step, RecordStart, GateStartFailed, StarterFailed, Drain, AwaitReceipt,
              PollTerminal, PollAgain, PollFails, AutoStop, EnqueueReconcile, RefuseStart,
              Adopt, FirstMonitor, Abandon, ReconcileLater, ReconcileTerminal, ReconcileFails
<1>5. ASSUME RunJob PROVE starts' = starts /\ faults' = faults
  BY <1>5 DEF RunJob, RunStarter, RunMonitor, RunReconcile, RunSweep
<1>6. ASSUME NEW c \in Crawl,
             \/ StartGate(c) \/ StopGate(c) \/ Dequeue(c) \/ GrowOld(c) \/ Stalls(c)
             \/ \E system \in BOOLEAN : QueueRequest(c, system)
      PROVE  starts' = starts /\ faults' = faults
  BY <1>6 DEF StartGate, StopGate, Dequeue, GrowOld, Stalls, QueueRequest
<1> QED
  BY <1>0, <1>1, <1>2, <1>3, <1>4, <1>5, <1>6 DEF Next

(* Every step keeps the types, the attempts and the claims of calls.       *)
LEMMA TypedStep ==
  ASSUME Typed, [Next]_vars
  PROVE  Typed'
<1>1. CASE UNCHANGED vars
  BY <1>1, Zenon DEF vars, Typed, TypeOK, Attempting, Employed
<1>2. CASE Next
  <2>1. starts' \in [Crawl -> StartCount] /\ faults' \in 0..MaxFaults
    BY <1>2, CountersType DEF Typed
  <2>2. ASSUME Working, crawls' \in [Crawl -> CrawlRecord], order' \in Seq(Crawl)
        PROVE  Typed'
    BY <2>1, <2>2 DEF Typed, TypeOK, Working, Grown, Ledger
  <2>3. order \in Seq(Crawl)
    BY DEF Typed, TypeOK
  <2>4. CASE Advances
    BY <2>2, <2>3, <2>4 DEF Advances, Onwards
  <2>5. ASSUME NEW c \in Crawl, StartGate(c) PROVE Typed'
    <3>1. Insert(c, "starting") /\ "starting" \in State
      BY <2>5 DEF StartGate
    <3> QED
      BY <2>2, <2>5, <3>1, Inserted, StartGateStep
  <2>6. ASSUME NEW c \in Crawl, NEW system \in BOOLEAN, QueueRequest(c, system) PROVE Typed'
    <3>1. Insert(c, "queued") /\ "queued" \in State
      BY <2>6 DEF QueueRequest
    <3> QED
      BY <2>2, <2>6, <3>1, Inserted, QueueRequestStep
  <2>7. ASSUME NEW x \in calls, Adopt(x) PROVE Typed'
    BY <2>2, <2>3, <2>7, AdoptStep
  <2>8. ASSUME NEW x \in calls, Drain(x) PROVE Typed'
    BY <2>2, <2>3, <2>8, DrainStep DEF Onwards
  <2> QED
    BY <1>2, <2>4, <2>5, <2>6, <2>7, <2>8, NextCases
<1> QED
  BY <1>1, <1>2

(* The types hold, a waiting job has an attempt left, and the job of every *)
(* call has been inserted.                                                 *)
LEMMA TypedAlways == Spec => []Typed
<1>1. Init => Typed
  <2> SUFFICES ASSUME Init PROVE Typed
    OBVIOUS
  <2>1. [state |-> "absent", task |-> FALSE, age |-> 0, stalled |-> FALSE] \in CrawlRecord
    BY CrawlAssumption DEF CrawlRecord
  <2>2. [status |-> "absent", attempts |-> 0] \in JobRecord /\ 0 < MaxAttempts
    BY CrawlAssumption DEF JobRecord
  <2>3. <<>> \in Seq(Crawl) /\ 0 \in 0..MaxFaults
    BY CrawlAssumption
  <2>4. [called |-> 0, cut |-> 0] \in StartCount
    BY DEF StartCount
  <2> QED
    BY <2>1, <2>2, <2>3, <2>4 DEF Init, Typed, TypeOK, Attempting, Employed
<1>2. Typed /\ [Next]_vars => Typed'
  BY TypedStep
<1> QED
  BY <1>1, <1>2, PTL DEF Spec

(* The types of CrawlQueue hold in every behaviour; in particular no job   *)
(* is attempted more often than its max_attempts.                          *)
THEOREM TypeCorrect == Spec => []TypeOK
BY TypedAlways, PTL DEF Typed

-----------------------------------------------------------------------------
(***************************************************************************)
(* One crawl at a time.  A crawl becomes live at the start gate or when    *)
(* its starter adopts it, and both look for occupants first; every other   *)
(* step takes a crawl onward, which brings none in.                        *)
(***************************************************************************)
LEMMA AtMostOneLiveStep ==
  ASSUME Typed, AtMostOneLive, [Next]_vars
  PROVE  AtMostOneLive'
<1>1. ASSUME \A d \in Crawl : crawls'[d].state \in Live => crawls[d].state \in Live
      PROVE  AtMostOneLive'
  BY <1>1 DEF AtMostOneLive, In
<1>2. ASSUME NEW c, In(Occupying) = {},
             \A d \in Crawl : d # c => crawls'[d] = crawls[d]
      PROVE  AtMostOneLive'
  <2>1. \A d \in Crawl : d # c => crawls'[d].state \notin Live
    BY <1>2 DEF In
  <2> QED
    BY <2>1 DEF AtMostOneLive, In
<1>3. CASE UNCHANGED vars
  BY <1>1, <1>3 DEF vars
<1>4. CASE Onwards
  <2>1. ASSUME NEW d \in Crawl, crawls'[d].state \in Live PROVE crawls[d].state \in Live
    BY <1>4, <2>1 DEF Onwards, Onward, Goes
  <2> QED
    BY <1>1, <2>1
<1>5. ASSUME NEW c \in Crawl, StartGate(c) PROVE AtMostOneLive'
  <2>1. Insert(c, "starting") /\ "starting" \in State /\ In(Occupying) = {}
    BY <1>5 DEF StartGate
  <2> QED
    BY <1>2, <2>1, Inserted
<1>6. ASSUME NEW c \in Crawl, NEW system \in BOOLEAN, QueueRequest(c, system) PROVE AtMostOneLive'
  <2>1. Insert(c, "queued") /\ "queued" \in State \ Live
    BY <1>6 DEF QueueRequest
  <2>2. /\ \A d \in Crawl : d # c => crawls'[d] = crawls[d]
        /\ crawls'[c].state = "queued"
    BY <2>1, Inserted
  <2> QED
    BY <1>1, <2>1, <2>2
<1>7. ASSUME NEW x \in calls, Adopt(x) PROVE AtMostOneLive'
  BY <1>1, <1>2, <1>7, AdoptStep
<1>8. ASSUME NEW x \in calls, Drain(x) PROVE AtMostOneLive'
  BY <1>4, <1>8, DrainStep
<1> QED
  BY <1>3, <1>4, <1>5, <1>6, <1>7, <1>8, NextCases DEF Advances

(* The instance never works on two crawls at once, through start gates,    *)
(* adoptions, revivals by the sweep, late receipts and crashes.            *)
THEOREM AtMostOneLiveAlways == Spec => []AtMostOneLive
<1>1. Init => AtMostOneLive
  BY DEF Init, AtMostOneLive, In
<1>2. Typed /\ AtMostOneLive /\ [Next]_vars => AtMostOneLive'
  BY AtMostOneLiveStep
<1> QED
  BY <1>1, <1>2, TypedAlways, PTL DEF Spec

-----------------------------------------------------------------------------
(***************************************************************************)
(* First in, first out.  The starter of a crawl is dispatched only at the  *)
(* head of the queue of a free instance, when every older crawl is over;   *)
(* an older crawl can become uncertain afterwards, but it never waits      *)
(* again, so the starter that adopts need not look at the queue.           *)
(***************************************************************************)
Dispatched(c) == jobs[Starter(c)].status # "absent"

InOrder ==
  /\ \A c \in Crawl : crawls[c].state = "absent" => ~ Dispatched(c)
  /\ \A m \in DOMAIN order : crawls[order[m]].state # "absent"
  /\ \A c, d \in Crawl : Dispatched(c) /\ Older(d, c)
                           => crawls[d].state \in Over \cup {"uncertain"}
  /\ \A x \in calls : x.at = "selected" => x.crawl \in Crawl /\ Dispatched(x.crawl)

(* A crawl of the order is a crawl.                                        *)
LEMMA OlderCrawls ==
  ASSUME Typed, NEW c, NEW d, Older(d, c)
  PROVE  /\ c \in Crawl /\ d \in Crawl
         /\ \E m \in DOMAIN order : order[m] = d
<1>1. order \in Seq(Crawl)
  BY DEF Typed, TypeOK
<1>2. \A m \in DOMAIN order : order[m] \in Crawl
  BY <1>1
<1> QED
  BY <1>2 DEF Older

(* A new row is older than none.                                           *)
LEMMA OlderAppended ==
  ASSUME Typed, NEW e \in Crawl, order' = Append(order, e), NEW c, NEW d, Older(d, c)'
  PROVE  /\ c # e => Older(d, c)
         /\ \E m \in DOMAIN order : order[m] = d
<1>1. order \in Seq(Crawl)
  BY DEF Typed, TypeOK
<1>2. /\ Len(order) \in Nat /\ Len(order') = Len(order) + 1
      /\ DOMAIN order = 1..Len(order) /\ DOMAIN order' = 1..Len(order) + 1
      /\ \A m \in 1..Len(order) : order'[m] = order[m]
      /\ order'[Len(order) + 1] = e
  BY <1>1, AppendProperties
<1>3. PICK m, n \in DOMAIN order' : order'[m] = d /\ order'[n] = c /\ m < n
  BY DEF Older
<1>4. m \in DOMAIN order /\ order[m] = d
  BY <1>2, <1>3
<1>5. ASSUME c # e PROVE n \in DOMAIN order /\ order[n] = c
  BY <1>2, <1>3, <1>5
<1> QED
  BY <1>3, <1>4, <1>5 DEF Older

(* The calls that work on a start, and those that have selected a crawl.   *)
(* Most steps leave the former alone and make none of the latter.          *)
StartPoint == {"dispatching", "started", "start failed", "monitoring", "calling"}
Elsewhere == Point \ (StartPoint \cup {"selected"})

Aside == \A y \in Call : /\ y.at \in StartPoint => (y \in calls' <=> y \in calls)
                         /\ y.at = "selected" => (y \in calls' => y \in calls)

(* A call elsewhere that ends or goes elsewhere.                           *)
LEMMA StepAside ==
  ASSUME Typed, NEW x \in calls, x.at \notin StartPoint,
         \/ calls' = calls \ {x}
         \/ \E at \in Elsewhere : Goto(x, at) \/ GotoThrowing(x, at)
  PROVE  Aside
<1>1. CASE calls' = calls \ {x}
  BY <1>1 DEF Aside
<1>2. ASSUME NEW at \in Elsewhere, Goto(x, at) \/ GotoThrowing(x, at)
      PROVE  Aside
  <2>1. PICK y \in Call : /\ calls' = (calls \ {x}) \cup {y}
                          /\ y.crawl = x.crawl /\ y.job = x.job /\ y.at = at
    BY <1>2, Gone DEF Typed, TypeOK, Elsewhere
  <2>2. y.at \notin StartPoint /\ y.at # "selected"
    BY <2>1 DEF Elsewhere
  <2> QED
    BY <2>1, <2>2 DEF Aside
<1> QED
  BY <1>1, <1>2

(* A call that begins elsewhere, or none that does.                        *)
LEMMA BeginAside ==
  ASSUME Typed,
         \/ calls' = calls
         \/ \E c \in Crawl \cup {None}, k \in JobKey \cup {None}, at \in Elsewhere :
              Begin(NewCall(c, k, at))
  PROVE  Aside
<1>1. CASE calls' = calls
  BY <1>1 DEF Aside
<1>2. ASSUME NEW c \in Crawl \cup {None}, NEW k \in JobKey \cup {None}, NEW at \in Elsewhere,
             Begin(NewCall(c, k, at))
      PROVE  Aside
  <2> DEFINE x == NewCall(c, k, at)
  <2>1. x.at = at /\ calls' = calls \cup {x}
    BY <1>2, Begun DEF Begin, Elsewhere
  <2> HIDE DEF x
  <2> QED
    BY <2>1 DEF Aside, Elsewhere
<1> QED
  BY <1>1, <1>2

(* The steps of calls that do not work on a start.                         *)
LEMMA OtherStepsAside ==
  ASSUME Typed, NEW x \in calls,
         \/ Drain(x) \/ AwaitReceipt(x) \/ PollTerminal(x) \/ PollAgain(x) \/ PollFails(x)
         \/ AutoStop(x) \/ EnqueueReconcile(x) \/ RefuseStart(x)
         \/ Abandon(x) \/ ReconcileLater(x) \/ ReconcileTerminal(x) \/ ReconcileFails(x)
  PROVE  Aside
<1>1. {"draining", "reconciling"} \subseteq Elsewhere
  BY DEF Elsewhere, Point, StartPoint
<1>2. CASE Drain(x) \/ PollAgain(x) \/ EnqueueReconcile(x) \/ ReconcileLater(x) \/ ReconcileFails(x)
  <2>1. x.at \notin StartPoint /\ calls' = calls \ {x}
    BY <1>2 DEF Drain, PollAgain, EnqueueReconcile, ReconcileLater, ReconcileFails, End,
                StartPoint
  <2> QED
    BY <2>1, StepAside
<1>3. CASE \/ PollTerminal(x) \/ AutoStop(x) \/ RefuseStart(x) \/ Abandon(x)
           \/ ReconcileTerminal(x)
  <2>1. x.at \notin StartPoint /\ (Goto(x, "draining") \/ Goto(x, "reconciling"))
    BY <1>3 DEF PollTerminal, AutoStop, RefuseStart, Abandon, ReconcileTerminal, StartPoint
  <2> QED
    BY <1>1, <2>1, StepAside
<1>4. CASE AwaitReceipt(x) \/ PollFails(x)
  <2>1. /\ x.at \notin StartPoint
        /\ \/ calls' = calls \ {x}
           \/ Goto(x, "reconciling") \/ GotoThrowing(x, "reconciling")
    BY <1>4 DEF AwaitReceipt, PollFails, End, Throw, StartPoint
  <2> QED
    BY <1>1, <2>1, StepAside
<1> QED
  BY <1>2, <1>3, <1>4

(* The points at which handlers other than the starter, and requests other *)
(* than the start gate, begin.                                             *)
BeginPoints == {"draining", "expired", "expired without task", "polling", "waiting",
                "abandoning", "checking", "requeueing"}

(* None of them works on a start.                                          *)
LEMMA BeginPointsElsewhere == BeginPoints \subseteq Elsewhere
BY DEF BeginPoints, Elsewhere, Point, StartPoint

(* Requests other than the start gate, and the clock.                      *)
LEMMA RequestAside ==
  ASSUME Typed, NEW c \in Crawl,
         \/ StopGate(c) \/ Dequeue(c) \/ GrowOld(c) \/ Stalls(c)
         \/ \E system \in BOOLEAN : QueueRequest(c, system)
  PROVE  Aside
<1>1. "draining" \in Elsewhere
  BY BeginPointsElsewhere DEF BeginPoints
<1>2. CASE StopGate(c) \/ Dequeue(c) \/ GrowOld(c) \/ Stalls(c)
  BY <1>1, <1>2, BeginAside DEF StopGate, Dequeue, GrowOld, Stalls
<1>3. ASSUME NEW system \in BOOLEAN, QueueRequest(c, system)
      PROVE  Aside
  BY <1>1, <1>3, BeginAside DEF QueueRequest
<1> QED
  BY <1>2, <1>3

(* A monitor that begins.                                                  *)
LEMMA MonitorAside ==
  ASSUME Typed, NEW c \in Crawl, NEW n \in 0..PollBound, RunMonitor(c, n)
  PROVE  Aside
BY Keys, MonitorBegins, BeginAside, BeginPointsElsewhere DEF ClaimForNothing, BeginPoints

(* A reconcile job that begins.                                            *)
LEMMA ReconcileAside ==
  ASSUME Typed, NEW c \in Crawl, NEW n \in 0..ReconcileBound, RunReconcile(c, n)
  PROVE  Aside
BY Keys, ReconcileBegins, BeginAside, BeginPointsElsewhere DEF ClaimForNothing, BeginPoints

(* A sweep that begins.                                                    *)
LEMMA SweepAside ==
  ASSUME Typed, RunSweep
  PROVE  Aside
BY Keys, BeginAside, BeginPointsElsewhere DEF RunSweep, BeginPoints

(* Only a starter that begins selects a crawl.                             *)
LEMMA NextSelects ==
  ASSUME Typed, Next, \A c \in Crawl : ~ RunStarter(c)
  PROVE  \A y \in calls' : y.at = "selected" => y \in calls
<1>0. calls' \subseteq Call
  BY TypedStep DEF Typed, TypeOK
<1>1. CASE Aside
  BY <1>0, <1>1 DEF Aside
<1>2. ASSUME NEW x \in calls,
             \/ calls' = calls \ {x}
             \/ \E at \in Point \ {"selected"} : Goto(x, at) \/ GotoThrowing(x, at)
      PROVE  \A y \in calls' : y.at = "selected" => y \in calls
  BY <1>2, Gone DEF Typed, TypeOK
<1>3. {"started", "start failed", "reconciling", "calling", "monitoring"} \subseteq Point \ {"selected"}
  BY DEF Point
<1>4. ASSUME NEW x \in calls, Crash(x) \/ RecordStart(x) \/ GateStartFailed(x)
      PROVE  calls' = calls \ {x}
  BY <1>4 DEF Crash, Throw, RecordStart, GateStartFailed, End
<1>5. ASSUME NEW x \in calls, CallStart(x) \/ StarterFailed(x) \/ FirstMonitor(x) \/ Adopt(x)
      PROVE  \/ calls' = calls \ {x}
             \/ \E at \in Point \ {"selected"} : Goto(x, at) \/ GotoThrowing(x, at)
  BY <1>3, <1>5 DEF CallStart, Answer, StarterFailed, FirstMonitor, Adopt, End
<1>6. ASSUME NEW c \in Crawl, StartGate(c)
      PROVE  \A y \in calls' : y.at = "selected" => y \in calls
  <2> DEFINE x == NewCall(c, None, "dispatching")
  <2>1. x.at = "dispatching" /\ calls' = calls \cup {x}
    BY <1>6 DEF StartGate, Begin, NewCall
  <2> HIDE DEF x
  <2> QED
    BY <2>1
<1>7. ASSUME NEW x \in calls, Step(x)
      PROVE  \A y \in calls' : y.at = "selected" => y \in calls
  BY <1>1, <1>2, <1>4, <1>5, <1>7, OtherStepsAside DEF Step
<1>8. CASE RunJob
  BY <1>1, <1>8, MonitorAside, ReconcileAside, SweepAside DEF RunJob
<1>9. ASSUME NEW c \in Crawl,
             \/ \E system \in BOOLEAN : QueueRequest(c, system)
             \/ StopGate(c) \/ Dequeue(c) \/ GrowOld(c) \/ Stalls(c)
      PROVE  \A y \in calls' : y.at = "selected" => y \in calls
  BY <1>1, <1>9, RequestAside
<1>10. ASSUME NEW x \in calls, Crash(x)
       PROVE  \A y \in calls' : y.at = "selected" => y \in calls
  BY <1>2, <1>4, <1>10
<1> QED
  BY <1>6, <1>7, <1>8, <1>9, <1>10 DEF Next

(* What a step that only takes crawls onward does to the order.            *)
LEMMA OnwardInOrder ==
  ASSUME Typed, InOrder, Onwards,
         \A c \in Crawl : ~ Dispatched(c) /\ Dispatched(c)' =>
           /\ crawls[c].state = "queued"
           /\ \A d \in Crawl : Older(d, c) => crawls'[d].state \in Over
  PROVE  /\ \A c \in Crawl : crawls'[c].state = "absent" => ~ Dispatched(c)'
         /\ \A m \in DOMAIN order' : crawls'[order'[m]].state # "absent"
         /\ \A c, d \in Crawl : Dispatched(c)' /\ Older(d, c)'
                                  => crawls'[d].state \in Over \cup {"uncertain"}
<1>1. order' = order /\ order \in Seq(Crawl)
  BY DEF Onwards, Typed, TypeOK
<1>2. \A d \in Crawl : /\ crawls'[d].state = "absent" => crawls[d].state = "absent"
                       /\ crawls[d].state \in Over \cup {"uncertain"}
                            => crawls'[d].state \in Over \cup {"uncertain"}
  BY DEF Onwards, Onward, Goes
<1>3. \A c \in Crawl : crawls'[c].state = "absent" => ~ Dispatched(c)'
  BY <1>2 DEF InOrder
<1>4. \A m \in DOMAIN order' : crawls'[order'[m]].state # "absent"
  <2> SUFFICES ASSUME NEW m \in DOMAIN order PROVE crawls'[order[m]].state # "absent"
    BY <1>1
  <2>1. order[m] \in Crawl
    BY <1>1
  <2> QED
    BY <1>2, <2>1 DEF InOrder
<1>5. ASSUME NEW c \in Crawl, NEW d \in Crawl, Dispatched(c)', Older(d, c)'
      PROVE  crawls'[d].state \in Over \cup {"uncertain"}
  <2>1. Older(d, c)
    BY <1>1, <1>5 DEF Older
  <2> QED
    BY <1>2, <1>5, <2>1 DEF InOrder
<1> QED
  BY <1>3, <1>4, <1>5

(* A new crawl is the youngest, and has no starter yet.                    *)
LEMMA InsertInOrder ==
  ASSUME Typed, InOrder, NEW c \in Crawl, crawls[c].state = "absent",
         NEW state \in State \ {"absent"}, Insert(c, state), Undispatched(jobs')
  PROVE  /\ \A e \in Crawl : crawls'[e].state = "absent" => ~ Dispatched(e)'
         /\ \A m \in DOMAIN order' : crawls'[order'[m]].state # "absent"
         /\ \A e, d \in Crawl : Dispatched(e)' /\ Older(d, e)'
                                  => crawls'[d].state \in Over \cup {"uncertain"}
<1>1. /\ \A d \in Crawl : d # c => crawls'[d] = crawls[d]
      /\ crawls'[c].state = state
      /\ order' = Append(order, c) /\ order \in Seq(Crawl)
  BY Inserted DEF Typed, TypeOK
<1>2. \A e \in Crawl : Dispatched(e)' => Dispatched(e)
  BY DEF Undispatched, Dispatched
<1>3. \A e \in Crawl : crawls'[e].state = "absent" => ~ Dispatched(e)'
  BY <1>1, <1>2 DEF InOrder
<1>4. ASSUME NEW m \in DOMAIN order' PROVE crawls'[order'[m]].state # "absent"
  <2>1. /\ DOMAIN order' = 1..Len(order) + 1 /\ DOMAIN order = 1..Len(order)
        /\ Len(order) \in Nat
        /\ \A n \in 1..Len(order) : order'[n] = order[n] /\ order[n] \in Crawl
        /\ order'[Len(order) + 1] = c
    BY <1>1, AppendProperties
  <2>2. CASE m = Len(order) + 1
    BY <1>1, <2>1, <2>2
  <2>3. CASE m \in DOMAIN order
    <3>1. order'[m] = order[m] /\ order[m] \in Crawl /\ crawls[order[m]].state # "absent"
      BY <2>1, <2>3 DEF InOrder
    <3> QED
      BY <1>1, <3>1
  <2> QED
    BY <2>1, <2>2, <2>3
<1>5. ASSUME NEW e \in Crawl, NEW d \in Crawl, Dispatched(e)', Older(d, e)'
      PROVE  crawls'[d].state \in Over \cup {"uncertain"}
  <2>1. e # c
    BY <1>2, <1>5 DEF InOrder
  <2>2. Older(d, e)
    BY <1>1, <1>5, <2>1, OlderAppended
  <2>3. crawls[d].state \in Over \cup {"uncertain"}
    BY <1>2, <1>5, <2>2 DEF InOrder
  <2> QED
    BY <1>1, <2>3
<1> QED
  BY <1>3, <1>4, <1>5

(* A crawl starts in this step only if none waits that is older.           *)
StartsInOrder == \A c \in Crawl :
  (crawls[c].state # "starting" /\ crawls'[c].state = "starting")
    => ~ \E d \in In({"queued"}) : Older(d, c)'

(* Every step keeps the order, and starts crawls in order.                 *)
LEMMA InOrderStep ==
  ASSUME Typed, InOrder, [Next]_vars
  PROVE  InOrder' /\ StartsInOrder
<1>1. CASE UNCHANGED vars
  BY <1>1, Zenon DEF vars, InOrder, Dispatched, Older, StartsInOrder
<1>2. CASE Next
  <2> DEFINE Rows == /\ \A c \in Crawl : crawls'[c].state = "absent" => ~ Dispatched(c)'
                     /\ \A m \in DOMAIN order' : crawls'[order'[m]].state # "absent"
                     /\ \A c, d \in Crawl : Dispatched(c)' /\ Older(d, c)'
                                              => crawls'[d].state \in Over \cup {"uncertain"}
  <2>1. Grown(jobs')
    BY <1>2, NextCases, StartGateStep, QueueRequestStep, AdoptStep, DrainStep DEF Working, Advances
  <2>2. \A x \in calls' : x.at = "selected" => x.crawl \in Crawl /\ Dispatched(x.crawl)'
    <3>1. \A c \in Crawl : Dispatched(c) => Dispatched(c)'
      BY <2>1, Keys DEF Grown, Dispatched
    <3>2. CASE \A c \in Crawl : ~ RunStarter(c)
      BY <1>2, <3>1, <3>2, NextSelects DEF InOrder
    <3>3. ASSUME NEW c \in Crawl, RunStarter(c)
          PROVE  \A x \in calls' : x.at = "selected" => x.crawl \in Crawl /\ Dispatched(x.crawl)'
      <4>1. CASE calls' = calls
        BY <3>1, <4>1 DEF InOrder
      <4>2. CASE Claim(Starter(c)) /\ Begin(NewCall(c, Starter(c), "selected"))
        <5> DEFINE y == NewCall(c, Starter(c), "selected")
        <5>1. y.crawl = c /\ calls' = calls \cup {y}
          BY <4>2 DEF Begin, NewCall
        <5> HIDE DEF y
        <5>2. Dispatched(c)'
          BY <4>2, Keys, Unmoved, ClaimLedger DEF Dispatched, Grown
        <5> QED
          BY <3>1, <5>1, <5>2 DEF InOrder
      <4> QED
        BY <3>3, <4>1, <4>2 DEF RunStarter, ClaimForNothing
    <3> QED
      BY <3>2, <3>3
  <2>3. ASSUME Onwards PROVE StartsInOrder
    BY <2>3 DEF Onwards, Onward, Goes, StartsInOrder
  <2>4. CASE Advances
    <3>1. Onwards /\ \A c \in Crawl : Dispatched(c)' => Dispatched(c)
      BY <2>4 DEF Advances, Undispatched, Dispatched
    <3>2. Rows
      BY <3>1, OnwardInOrder
    <3> QED
      BY <2>2, <2>3, <3>1, <3>2 DEF InOrder
  <2>5. ASSUME NEW c \in Crawl, StartGate(c) PROVE InOrder' /\ StartsInOrder
    <3>1. /\ Insert(c, "starting") /\ "starting" \in State \ {"absent"} /\ crawls[c].state = "absent"
          /\ In({"queued"}) = {}
      BY <2>5 DEF StartGate
    <3>2. Rows
      BY <2>5, <3>1, InsertInOrder, StartGateStep
    <3>3. StartsInOrder
      BY <3>1 DEF StartsInOrder
    <3> QED
      BY <2>2, <3>2, <3>3 DEF InOrder
  <2>6. ASSUME NEW c \in Crawl, NEW system \in BOOLEAN, QueueRequest(c, system)
        PROVE  InOrder' /\ StartsInOrder
    <3>1. Insert(c, "queued") /\ "queued" \in State \ {"absent"} /\ crawls[c].state = "absent"
      BY <2>6 DEF QueueRequest
    <3>2. Rows
      BY <2>6, <3>1, InsertInOrder, QueueRequestStep
    <3>3. crawls'[c].state = "queued" /\ \A d \in Crawl : d # c => crawls'[d] = crawls[d]
      BY <3>1, Inserted
    <3>4. StartsInOrder
      BY <3>3 DEF StartsInOrder
    <3> QED
      BY <2>2, <3>2, <3>4 DEF InOrder
  <2>7. ASSUME NEW x \in calls, Adopt(x) PROVE InOrder' /\ StartsInOrder
    <3>1. \A c \in Crawl : Dispatched(c)' => Dispatched(c)
      BY <2>7, AdoptStep DEF Undispatched, Dispatched
    <3>2. CASE crawls' = crawls
      <4>1. Onwards
        BY <2>7, <3>2, AdoptStep, SameOnward
      <4>2. Rows
        BY <3>1, <4>1, OnwardInOrder
      <4> QED
        BY <2>2, <2>3, <4>1, <4>2 DEF InOrder
    <3>3. CASE /\ \A d \in Crawl :
                    \/ crawls'[d] = crawls[d] /\ d # x.crawl
                    \/ /\ d = x.crawl /\ crawls[d].state = "queued"
                       /\ crawls'[d].state = "starting" /\ ~ crawls'[d].stalled
      <4>1. order' = order
        BY <2>7, AdoptStep
      <4>2. \A d \in Crawl : \/ crawls'[d].state = crawls[d].state
                             \/ crawls[d].state = "queued" /\ crawls'[d].state = "starting"
        BY <3>3
      <4>3. order \in Seq(Crawl)
        BY DEF Typed, TypeOK
      <4>4. \A m \in DOMAIN order' : crawls'[order'[m]].state # "absent"
        <5>1. \A m \in DOMAIN order : order[m] \in Crawl
          BY <4>3
        <5> QED
          BY <4>1, <4>2, <5>1 DEF InOrder
      <4>5. \A c, d \in Crawl : Older(d, c)' <=> Older(d, c)
        BY <4>1 DEF Older
      <4>6. Rows
        BY <3>1, <4>2, <4>4, <4>5 DEF InOrder
      <4>7. x.at = "selected" /\ Dispatched(x.crawl) /\ x.crawl \in Crawl
        BY <2>7 DEF Adopt, InOrder
      <4>8. \A d \in Crawl : Older(d, x.crawl) => crawls[d].state # "queued"
        BY <4>7 DEF InOrder
      <4>9. StartsInOrder
        BY <3>3, <4>5, <4>8 DEF StartsInOrder, In
      <4> QED
        BY <2>2, <4>6, <4>9 DEF InOrder
    <3> QED
      BY <2>7, <3>2, <3>3, AdoptStep
  <2>8. ASSUME NEW x \in calls, Drain(x) PROVE InOrder' /\ StartsInOrder
    <3>1. crawls' = CancelTimedOut(crawls) /\ order' = order
      BY <2>8 DEF Drain
    <3>2. /\ Onwards
          /\ \A d \in Crawl : /\ d \in TimedOut => crawls'[d].state = "cancelled"
                              /\ d \notin TimedOut => crawls'[d] = crawls[d]
      BY <3>1, CancelOnward
    <3>3. ASSUME NEW c \in Crawl, ~ Dispatched(c), Dispatched(c)'
          PROVE  /\ crawls[c].state = "queued"
                 /\ \A d \in Crawl : Older(d, c) => crawls'[d].state \in Over
      <4>1. c \in HeadOfQueue /\ In(Occupying) = {}
        BY <2>8, <3>3, DrainStep DEF Dispatched
      <4>2. crawls[c].state = "queued"
        BY <4>1 DEF HeadOfQueue, Oldest, In
      <4>3. ASSUME NEW d \in Crawl, Older(d, c) PROVE crawls'[d].state \in Over
        <5>1. d \notin In({"queued"}) \ TimedOut
          BY <4>1, <4>3 DEF HeadOfQueue, Oldest
        <5>2. crawls[d].state \in State /\ crawls[d].state \notin Occupying
          BY <4>1 DEF In, Typed, TypeOK, CrawlRecord
        <5>3. crawls[d].state # "absent"
          BY <4>3, OlderCrawls DEF InOrder
        <5>4. d \in TimedOut \/ crawls[d].state \in Over
          BY <5>1, <5>2, <5>3 DEF In
        <5> QED
          BY <3>2, <5>4
      <4> QED
        BY <4>2, <4>3
    <3>4. Rows
      BY <3>2, <3>3, OnwardInOrder
    <3> QED
      BY <2>2, <2>3, <3>2, <3>4 DEF InOrder
  <2> QED
    BY <1>2, <2>4, <2>5, <2>6, <2>7, <2>8, NextCases
<1> QED
  BY <1>1, <1>2

(* The order holds in every behaviour.                                     *)
LEMMA InOrderAlways == Spec => []InOrder
<1>1. Init => InOrder
  <2> SUFFICES ASSUME Init PROVE InOrder
    OBVIOUS
  <2>1. \A c \in Crawl : ~ Dispatched(c)
    BY Keys DEF Init, Dispatched
  <2>2. order = <<>> /\ calls = {}
    BY DEF Init
  <2> QED
    BY <2>1, <2>2 DEF InOrder
<1>2. Typed /\ InOrder /\ [Next]_vars => InOrder'
  BY InOrderStep
<1> QED
  BY <1>1, <1>2, TypedAlways, PTL DEF Spec

(* A crawl is started only when no older crawl waits, through late drains, *)
(* adoptions that never look at the queue, revivals and crashes.           *)
THEOREM FifoStartAlways == Spec => FifoStart
<1>1. Typed /\ InOrder /\ [Next]_vars => [StartsInOrder]_vars
  BY InOrderStep
<1> QED
  BY <1>1, TypedAlways, InOrderAlways, PTL DEF Spec, FifoStart, StartsInOrder

-----------------------------------------------------------------------------
(***************************************************************************)
(* One start per crawl, and one more for each that a crash cut off.  A     *)
(* crawl that waits, or that is starting with no call at work on it, has   *)
(* had every start it was given cut off; and one call at most works on a   *)
(* start.                                                                  *)
(***************************************************************************)
Settled(c) == starts[c].called = starts[c].cut
CutOff(c) ==
  /\ starts[c].called \in {starts[c].cut, starts[c].cut + 1}
  /\ crawls[c].stalled => crawls[c].state # "absent" /\ ~ Starting(c)
  /\ crawls[c].state \in {"absent", "queued"} => ~ Starting(c)
  /\ crawls[c].state \in {"absent", "queued", "starting"} /\ ~ Starting(c) => Settled(c)
Answering(x) == starts[x.crawl].called = IF x.at \in Answer THEN starts[x.crawl].cut + 1
                                         ELSE starts[x.crawl].cut
OneStart ==
  /\ \A c \in Crawl : CutOff(c)
  /\ \A x \in calls : x.at \in StartPoint =>
       /\ x.crawl \in Crawl
       /\ Answering(x)
       /\ \A y \in calls : y.at \in StartPoint /\ y.crawl = x.crawl => y = x

(* A crawl neither begins to start nor waits again, unless its start       *)
(* stalled.                                                                *)
Calm == \A d \in Crawl :
  /\ crawls'[d].stalled => \/ crawls[d].stalled
                           \/ crawls[d].state = "starting" /\ ~ Starting(d)
  /\ crawls'[d].state = "absent" => crawls[d].state = "absent"
  /\ crawls'[d].state \in {"absent", "queued"}
       => \/ crawls[d].state \in {"absent", "queued"}
          \/ crawls[d].state = "starting" /\ crawls[d].stalled
  /\ crawls'[d].state = "starting" => crawls[d].state = "starting"

(* Going onward is calm.                                                   *)
LEMMA OnwardCalm == Onwards => Calm
BY DEF Onwards, Onward, Goes, Calm

(* A calm step that changes neither the starts of a crawl nor whether a    *)
(* call works on one.                                                      *)
LEMMA CutOffCalm ==
  ASSUME Calm, NEW c \in Crawl, CutOff(c), starts'[c] = starts[c],
         Starting(c)' <=> Starting(c)
  PROVE  CutOff(c)'
BY DEF Calm, CutOff, Settled

(* A step away from the calls that work on a start.                        *)
LEMMA OneStartAside ==
  ASSUME Typed, OneStart, calls' \subseteq Call, Calm, starts' = starts,
         \A y \in Call : y.at \in StartPoint => (y \in calls' <=> y \in calls)
  PROVE  OneStart'
<1>1. calls \subseteq Call
  BY DEF Typed, TypeOK
<1>2. \A c \in Crawl : Starting(c)' <=> Starting(c)
  BY <1>1 DEF Starting, StartPoint
<1>3. \A c \in Crawl : CutOff(c)'
  BY <1>2, CutOffCalm DEF OneStart
<1>4. \A x \in calls' : x.at \in StartPoint => x \in calls
  OBVIOUS
<1>5. \A x \in calls' : x.at \in StartPoint =>
       /\ x.crawl \in Crawl
       /\ Answering(x)'
       /\ \A y \in calls' : y.at \in StartPoint /\ y.crawl = x.crawl => y = x
  BY <1>4 DEF OneStart, Answering
<1> QED
  BY <1>3, <1>5 DEF OneStart

(* A call that has worked on a start is done with it: its crawl is in      *)
(* starting no more, or a crash cut the start off.                         *)
LEMMA OneStartDone ==
  ASSUME Typed, OneStart, calls' \subseteq Call, Calm,
         NEW x \in calls, x.at \in StartPoint,
         \A y \in Call : y.at \in StartPoint => (y \in calls' <=> y \in calls \ {x}),
         \A c \in Crawl : c # x.crawl => starts'[c] = starts[c],
         \/ starts' = starts /\ crawls'[x.crawl].state # "starting"
         \/ /\ starts'[x.crawl].called = starts'[x.crawl].cut
            /\ crawls' = crawls
  PROVE  OneStart'
<1>1. calls \subseteq Call /\ x.crawl \in Crawl
  BY DEF Typed, TypeOK, OneStart
<1>2. \A c \in Crawl : c # x.crawl => (Starting(c)' <=> Starting(c))
  BY <1>1 DEF Starting, StartPoint
<1>3. Starting(x.crawl)
  BY DEF Starting, StartPoint
<1>4. ~ Starting(x.crawl)'
  BY <1>1 DEF Starting, StartPoint, OneStart
<1>5. \A c \in Crawl : c # x.crawl => CutOff(c)'
  BY <1>2, CutOffCalm DEF OneStart
<1>6. CutOff(x.crawl)'
  <2>1. CutOff(x.crawl)
    BY <1>1 DEF OneStart
  <2>2. /\ ~ crawls[x.crawl].stalled
        /\ crawls[x.crawl].state \notin {"absent", "queued"}
    BY <1>3, <2>1 DEF CutOff
  <2>3. /\ ~ crawls'[x.crawl].stalled
        /\ crawls'[x.crawl].state \notin {"absent", "queued"}
    BY <1>1, <1>3, <2>2 DEF Calm
  <2>4. CASE starts' = starts /\ crawls'[x.crawl].state # "starting"
    BY <2>1, <2>3, <2>4 DEF CutOff
  <2>5. CASE starts'[x.crawl].called = starts'[x.crawl].cut
    BY <1>4, <2>3, <2>5 DEF CutOff, Settled
  <2> QED
    BY <2>4, <2>5
<1>7. \A y \in calls' : y.at \in StartPoint => y \in calls /\ y.crawl # x.crawl
  BY DEF OneStart
<1>8. \A w \in calls' : w.at \in StartPoint =>
       /\ w.crawl \in Crawl
       /\ Answering(w)'
       /\ \A y \in calls' : y.at \in StartPoint /\ y.crawl = w.crawl => y = w
  BY <1>7 DEF OneStart, Answering
<1> QED
  BY <1>5, <1>6, <1>8 DEF OneStart

(* A call that goes on working on a start, perhaps after it has called the *)
(* remote.                                                                 *)
LEMMA OneStartGoes ==
  ASSUME Typed, OneStart, Calm,
         NEW x \in calls, NEW y \in Call, x.at \in StartPoint, y.at \in StartPoint,
         y.crawl = x.crawl, calls' = (calls \ {x}) \cup {y}, x.at \notin Answer,
         \A c \in Crawl : c # x.crawl => starts'[c] = starts[c],
         \/ y.at \notin Answer /\ starts' = starts
         \/ /\ y.at \in Answer
            /\ starts'[x.crawl].cut = starts[x.crawl].cut
            /\ starts'[x.crawl].called = starts[x.crawl].called + 1
  PROVE  OneStart'
<1>1. calls \subseteq Call /\ x.crawl \in Crawl
  BY DEF Typed, TypeOK, OneStart
<1>2. \A c \in Crawl : Starting(c)' <=> Starting(c)
  <2>1. ASSUME NEW c \in Crawl, Starting(c) PROVE Starting(c)'
    BY <2>1 DEF Starting, StartPoint
  <2>2. ASSUME NEW c \in Crawl, Starting(c)' PROVE Starting(c)
    BY <2>2 DEF Starting, StartPoint
  <2> QED
    BY <2>1, <2>2
<1>3. Starting(x.crawl)
  BY DEF Starting, StartPoint
<1>4. starts[x.crawl].called = starts[x.crawl].cut
  BY DEF OneStart, Answering
<1>5. \A c \in Crawl : c # x.crawl => CutOff(c)'
  BY <1>2, CutOffCalm DEF OneStart
<1>6. Answering(y)'
  BY <1>4 DEF Answering
<1>7. CutOff(x.crawl)'
  <2>1. CutOff(x.crawl)
    BY <1>1 DEF OneStart
  <2>2. /\ ~ crawls[x.crawl].stalled
        /\ crawls[x.crawl].state \notin {"absent", "queued"}
    BY <1>3, <2>1 DEF CutOff
  <2>3. /\ ~ crawls'[x.crawl].stalled
        /\ crawls'[x.crawl].state \notin {"absent", "queued"}
    BY <1>1, <1>3, <2>2 DEF Calm
  <2>4. starts'[x.crawl].called \in {starts'[x.crawl].cut, starts'[x.crawl].cut + 1}
    BY <1>4
  <2>5. Starting(x.crawl)'
    BY <1>1, <1>2, <1>3
  <2> QED
    BY <2>3, <2>4, <2>5 DEF CutOff
<1>8. \A w \in calls' : w.at \in StartPoint /\ w # y => w \in calls /\ w # x /\ w.crawl # x.crawl
  BY DEF OneStart
<1>9. ASSUME NEW w \in calls', w.at \in StartPoint
      PROVE  /\ w.crawl \in Crawl
             /\ Answering(w)'
             /\ \A v \in calls' : v.at \in StartPoint /\ v.crawl = w.crawl => v = w
  <2>1. CASE w = y
    BY <1>1, <1>6, <1>8, <2>1
  <2>2. CASE w # y
    <3>1. w \in calls /\ w.crawl # y.crawl
      BY <1>8, <1>9, <2>2
    <3>2. \A v \in calls' : v.at \in StartPoint /\ v.crawl = w.crawl => v \in calls
      BY <1>8, <3>1
    <3> QED
      BY <1>9, <3>1, <3>2 DEF OneStart, Answering
  <2> QED
    BY <2>1, <2>2
<1> QED
  BY <1>5, <1>7, <1>9 DEF OneStart

(* A crawl that begins to start, with the call that works on it.           *)
LEMMA OneStartEnters ==
  ASSUME Typed, OneStart, calls' \subseteq Call, starts' = starts,
         NEW c \in Crawl, crawls[c].state \in {"absent", "queued"},
         crawls'[c].state = "starting", ~ crawls'[c].stalled,
         \A d \in Crawl : d # c => crawls'[d] = crawls[d],
         NEW y \in Call, y.crawl = c, y.at \in {"dispatching", "monitoring"},
         \A w \in Call : w.at \in StartPoint => (w \in calls' <=> w \in calls \/ w = y)
  PROVE  OneStart'
<1>1. calls \subseteq Call /\ y.at \in StartPoint /\ y \in calls' /\ y.at \notin Answer
  BY DEF Typed, TypeOK, StartPoint, Answer
<1>2. /\ CutOff(c) /\ starts[c].called = starts[c].cut
      /\ \A w \in calls : w.at \in StartPoint => w.crawl # c
  BY DEF OneStart, CutOff, Settled, Starting, StartPoint
<1>3. Starting(c)'
  BY <1>1 DEF Starting, StartPoint
<1>4. \A d \in Crawl : d # c => (Starting(d)' <=> Starting(d))
  BY <1>1 DEF Starting, StartPoint
<1>5. \A d \in Crawl : CutOff(d)'
  <2> SUFFICES ASSUME NEW d \in Crawl
               PROVE  CutOff(d)'
    OBVIOUS
  <2>1. CASE d = c
    BY <1>2, <1>3, <2>1 DEF CutOff
  <2>2. CASE d # c
    BY <1>4, <2>2 DEF OneStart, CutOff, Settled
  <2> QED
    BY <2>1, <2>2
<1>6. \A w \in calls' : w.at \in StartPoint /\ w # y => w \in calls /\ w.crawl # c
  BY <1>2
<1>7. ASSUME NEW w \in calls', w.at \in StartPoint
      PROVE  /\ w.crawl \in Crawl
             /\ Answering(w)'
             /\ \A v \in calls' : v.at \in StartPoint /\ v.crawl = w.crawl => v = w
  <2>1. CASE w = y
    BY <1>1, <1>2, <1>6, <2>1 DEF Answering
  <2>2. CASE w # y
    BY <1>6, <1>7, <2>2 DEF OneStart, Answering
  <2> QED
    BY <2>1, <2>2
<1> QED
  BY <1>5, <1>7 DEF OneStart

(* The steps of the calls that work on a start.                            *)
LEMMA StartStepOne ==
  ASSUME Typed, OneStart, calls' \subseteq Call, NEW x \in calls,
         \/ CallStart(x) \/ RecordStart(x) \/ GateStartFailed(x) \/ StarterFailed(x)
         \/ FirstMonitor(x)
  PROVE  OneStart'
<1>0. {"started", "start failed", "reconciling", "calling"} \subseteq Point
  BY DEF Point
<1>1. Calm
  BY StartAdvances, OnwardCalm DEF Advances
<1>2. x.at \in StartPoint /\ x \in Call
  BY DEF CallStart, RecordStart, GateStartFailed, StarterFailed, FirstMonitor, StartPoint,
         Typed, TypeOK
<1>3. x.crawl \in Crawl
  BY <1>2 DEF OneStart
<1>4. crawls \in [Crawl -> CrawlRecord] /\ crawls[x.crawl].state \in State
  BY <1>3 DEF Typed, TypeOK, CrawlRecord
<1>5. CASE CallStart(x)
  <2>1. PICK at \in Answer : Goto(x, at)
    BY <1>5 DEF CallStart
  <2>2. at \in Point /\ calls \subseteq Call
    BY <1>0 DEF Typed, TypeOK, Answer
  <2>3. PICK y \in Call : /\ calls' = (calls \ {x}) \cup {y}
                          /\ y.crawl = x.crawl /\ y.job = x.job /\ y.at = at
    BY <2>1, <2>2, Gone
  <2>4. x.at \notin Answer /\ y.at \in Answer /\ y.at \in StartPoint
    BY <1>5, <2>3 DEF CallStart, Answer, StartPoint
  <2>5. /\ \A c \in Crawl : starts'[c].cut = starts[c].cut
        /\ \A c \in Crawl : c # x.crawl => starts'[c].called = starts[c].called
        /\ starts'[x.crawl].called = starts[x.crawl].called + 1
        /\ starts \in [Crawl -> StartCount] /\ starts' \in [Crawl -> StartCount]
    BY <1>3, <1>5, CallStartCounts DEF Typed, TypeOK
  <2>6. \A c \in Crawl : c # x.crawl => starts'[c] = starts[c]
    BY <2>5 DEF StartCount
  <2> QED
    BY <1>1, <1>2, <1>3, <2>3, <2>4, <2>5, <2>6, OneStartGoes
<1>6. CASE FirstMonitor(x)
  <2>1. PICK y \in Call : /\ calls' = (calls \ {x}) \cup {y}
                          /\ y.crawl = x.crawl /\ y.job = x.job /\ y.at = "calling"
    BY <1>0, <1>6, Gone DEF FirstMonitor, Typed, TypeOK
  <2>2. /\ x.at \notin Answer /\ y.at \notin Answer /\ starts' = starts
        /\ y.at \in StartPoint
    BY <1>6, <2>1 DEF FirstMonitor, StartPoint, Answer
  <2> QED
    BY <1>1, <1>2, <2>1, <2>2, OneStartGoes
<1>7. CASE RecordStart(x) \/ GateStartFailed(x)
  <2>1. calls' = calls \ {x} /\ starts' = starts
    BY <1>7 DEF RecordStart, GateStartFailed, End
  <2>2. crawls'[x.crawl].state # "starting"
    <3>1. CASE RecordStart(x)
      BY <1>3, <1>4, <3>1, Recorded DEF RecordStart
    <3>2. CASE GateStartFailed(x)
      <4>1. Move(x.crawl, State, "uncertain") /\ "uncertain" \in State
        BY <3>2 DEF GateStartFailed
      <4> QED
        BY <1>3, <1>4, <4>1, Moved
    <3> QED
      BY <1>7, <3>1, <3>2
  <2> QED
    BY <1>1, <1>2, <2>1, <2>2, OneStartDone
<1>8. CASE StarterFailed(x)
  <2>1. PICK y \in Call : /\ calls' = (calls \ {x}) \cup {y}
                          /\ y.crawl = x.crawl /\ y.job = x.job /\ y.at = "reconciling"
    BY <1>0, <1>8, Gone DEF StarterFailed, Typed, TypeOK
  <2>2. y.at \notin StartPoint /\ starts' = starts
    BY <1>8, <2>1 DEF StarterFailed, StartPoint
  <2>3. Move(x.crawl, {"starting"}, "uncertain") /\ "uncertain" \in State
    BY <1>8 DEF StarterFailed
  <2>4. crawls'[x.crawl].state # "starting"
    BY <1>3, <1>4, <2>3, Moved
  <2>5. \A w \in Call : w.at \in StartPoint => (w \in calls' <=> w \in calls \ {x})
    BY <2>1, <2>2
  <2> QED
    BY <1>1, <1>2, <2>2, <2>4, <2>5, OneStartDone
<1> QED
  BY <1>5, <1>6, <1>7, <1>8

(* The other steps do not call the remote start.                           *)
LEMMA StartsKept ==
  ASSUME Next, \A x \in calls : ~ CallStart(x) /\ ~ Crash(x)
  PROVE  starts' = starts
<1>1. ASSUME NEW x \in calls, Step(x) PROVE starts' = starts
  BY <1>1 DEF Step, RecordStart, GateStartFailed, StarterFailed, Drain, AwaitReceipt,
              PollTerminal, PollAgain, PollFails, AutoStop, EnqueueReconcile, RefuseStart,
              Adopt, FirstMonitor, Abandon, ReconcileLater, ReconcileTerminal, ReconcileFails
<1>2. CASE RunJob
  BY <1>2 DEF RunJob, RunStarter, RunMonitor, RunReconcile, RunSweep
<1> QED
  BY <1>1, <1>2 DEF Next, StartGate, StopGate, Dequeue, GrowOld, Stalls, QueueRequest

(* A crash ends the call; a start it cut off is counted.                   *)
LEMMA OneStartCrash ==
  ASSUME Typed, OneStart, calls' \subseteq Call, NEW x \in calls, Crash(x)
  PROVE  OneStart'
<1>1. /\ calls' = calls \ {x} /\ crawls' = crawls /\ calls \subseteq Call
      /\ starts \in [Crawl -> StartCount]
  BY DEF Crash, Throw, Typed, TypeOK
<1>2. Calm
  BY <1>1 DEF Calm
<1>3. CASE x.at \notin StartPoint
  <2>1. x.at \notin Answer
    BY <1>3 DEF Answer, StartPoint
  <2>2. starts' = starts
    BY <2>1 DEF Crash
  <2> QED
    BY <1>1, <1>2, <1>3, <2>2, OneStartAside
<1>4. CASE x.at \in StartPoint
  <2>1. x.crawl \in Crawl /\ Answering(x)
    BY <1>4 DEF OneStart
  <2>2. /\ starts' \in [Crawl -> StartCount]
        /\ \A c \in Crawl :
             /\ starts'[c].called = starts[c].called
             /\ starts'[c].cut = IF c = x.crawl /\ x.at \in Answer
                                 THEN starts[c].cut + 1 ELSE starts[c].cut
    BY <1>1, CrashCounts
  <2>3. starts'[x.crawl].called = starts'[x.crawl].cut
    BY <2>1, <2>2 DEF Answering
  <2>4. \A c \in Crawl : c # x.crawl => starts'[c] = starts[c]
    BY <1>1, <2>2 DEF StartCount
  <2>5. \A y \in Call : y.at \in StartPoint => (y \in calls' <=> y \in calls \ {x})
    BY <1>1
  <2> QED
    BY <1>1, <1>2, <1>4, <2>3, <2>4, <2>5, OneStartDone
<1> QED
  BY <1>3, <1>4

(* No step calls it once more than the crashes account for.                *)
LEMMA OneStartStep ==
  ASSUME Typed, InOrder, OneStart, Next
  PROVE  OneStart'
<1>1. calls' \subseteq Call
  BY TypedStep DEF Typed, TypeOK
<1>2. ASSUME NEW x \in calls,
             \/ CallStart(x) \/ RecordStart(x) \/ GateStartFailed(x) \/ StarterFailed(x)
             \/ FirstMonitor(x)
      PROVE  OneStart'
  BY <1>1, <1>2, StartStepOne
<1>3. ASSUME NEW x \in calls, Adopt(x), starts' = starts PROVE OneStart'
  <2>1. CASE crawls' = crawls /\ calls' = calls \ {x}
    <3>1. x.at \notin StartPoint
      BY <1>3 DEF Adopt, StartPoint
    <3>2. Calm
      BY <2>1 DEF Calm
    <3> QED
      BY <1>1, <1>3, <2>1, <3>1, <3>2, OneStartAside
  <2>2. CASE /\ \A d \in Crawl :
                    \/ crawls'[d] = crawls[d] /\ d # x.crawl
                    \/ /\ d = x.crawl /\ crawls[d].state = "queued"
                       /\ crawls'[d].state = "starting" /\ ~ crawls'[d].stalled
             /\ crawls[x.crawl].state = "queued" /\ Goto(x, "monitoring")
    <3>1. "monitoring" \in Point /\ "monitoring" \in StartPoint /\ "selected" \notin StartPoint
      BY DEF Point, StartPoint
    <3>2. PICK y \in Call : /\ calls' = (calls \ {x}) \cup {y}
                            /\ y.crawl = x.crawl /\ y.job = x.job /\ y.at = "monitoring"
      BY <2>2, <3>1, Gone DEF Typed, TypeOK
    <3>3. x.at \notin StartPoint
      BY <1>3, <3>1 DEF Adopt
    <3>4. \A w \in Call : w.at \in StartPoint => (w \in calls' <=> w \in calls \/ w = y)
      BY <3>2, <3>3
    <3>5. x.crawl \in Crawl
      BY <1>3 DEF Adopt, InOrder
    <3>6. /\ crawls[x.crawl].state \in {"absent", "queued"}
          /\ crawls'[x.crawl].state = "starting" /\ ~ crawls'[x.crawl].stalled
          /\ \A d \in Crawl : d # x.crawl => crawls'[d] = crawls[d]
      BY <2>2, <3>5
    <3> QED
      BY <1>1, <1>3, <3>2, <3>4, <3>5, <3>6, OneStartEnters
  <2> QED
    BY <1>3, <2>1, <2>2, AdoptStep
<1>4. ASSUME NEW c \in Crawl, StartGate(c) PROVE OneStart'
  <2> DEFINE y == NewCall(c, None, "dispatching")
  <2>0. "dispatching" \in Point
    BY DEF Point
  <2>1. y \in Call /\ y.crawl = c /\ y.at = "dispatching"
    BY <2>0, Begun
  <2>2. calls' = calls \cup {y} /\ starts' = starts
    BY <1>4 DEF StartGate, Begin
  <2> HIDE DEF y
  <2>3. Insert(c, "starting") /\ "starting" \in State /\ crawls[c].state = "absent"
    BY <1>4 DEF StartGate
  <2>4. /\ crawls'[c].state = "starting" /\ ~ crawls'[c].stalled
        /\ \A d \in Crawl : d # c => crawls'[d] = crawls[d]
    BY <2>3, Inserted DEF OneStart, CutOff
  <2> QED
    BY <1>1, <2>1, <2>2, <2>3, <2>4, OneStartEnters
<1>5. ASSUME Calm, starts' = starts,
             Aside \/ (\A y \in Call : y.at \in StartPoint => (y \in calls' <=> y \in calls))
      PROVE  OneStart'
  BY <1>1, <1>5, OneStartAside DEF Aside
<1>6. CASE RunJob
  <2>1. Calm /\ starts' = starts
    BY <1>6, RunJobAdvances, OnwardCalm
       DEF Advances, RunJob, RunStarter, RunMonitor, RunReconcile, RunSweep
  <2>2. ASSUME NEW c \in Crawl, RunStarter(c)
        PROVE  \A y \in Call : y.at \in StartPoint => (y \in calls' <=> y \in calls)
    <3>1. CASE calls' = calls
      BY <3>1
    <3>2. CASE Begin(NewCall(c, Starter(c), "selected"))
      <4> DEFINE x == NewCall(c, Starter(c), "selected")
      <4>1. x.at \notin StartPoint /\ calls' = calls \cup {x}
        BY <3>2 DEF Begin, NewCall, StartPoint
      <4> HIDE DEF x
      <4> QED
        BY <4>1
    <3> QED
      BY <2>2, <3>1, <3>2 DEF RunStarter, ClaimForNothing
  <2> QED
    BY <1>5, <1>6, <2>1, <2>2, MonitorAside, ReconcileAside, SweepAside DEF RunJob
<1>7. ASSUME NEW c \in Crawl, StopGate(c) \/ Dequeue(c) \/ GrowOld(c) \/ Stalls(c)
      PROVE  OneStart'
  <2>1. Calm
    BY <1>7, RequestAdvances, OnwardCalm DEF Advances
  <2>2. starts' = starts
    BY <1>7 DEF StopGate, Dequeue, GrowOld, Stalls
  <2> QED
    BY <1>5, <1>7, <2>1, <2>2, RequestAside
<1>8. ASSUME NEW c \in Crawl, NEW system \in BOOLEAN, QueueRequest(c, system)
      PROVE  OneStart'
  <2>1. Insert(c, "queued") /\ "queued" \in State /\ crawls[c].state = "absent" /\ starts' = starts
    BY <1>8 DEF QueueRequest
  <2>2. /\ crawls'[c].state = "queued" /\ (crawls'[c].stalled => crawls[c].stalled)
        /\ \A d \in Crawl : d # c => crawls'[d] = crawls[d]
    BY <2>1, Inserted
  <2>3. Calm
    BY <2>1, <2>2 DEF Calm
  <2>4. Aside
    BY <1>8, RequestAside
  <2> QED
    BY <1>5, <2>1, <2>3, <2>4
<1>9. ASSUME NEW x \in calls, Step(x), starts' = starts, ~ Adopt(x),
             ~ (CallStart(x) \/ RecordStart(x) \/ GateStartFailed(x) \/ StarterFailed(x)
                \/ FirstMonitor(x))
      PROVE  OneStart'
  <2>1. Aside
    BY <1>9, OtherStepsAside DEF Step
  <2>2. Onwards
    BY <1>9, MonitorAdvances, ReconcileAdvances, DrainStep DEF Step, Advances
  <2> QED
    BY <1>5, <1>9, <2>1, <2>2, OnwardCalm
<1>10. ASSUME NEW x \in calls, Step(x) PROVE OneStart'
  <2>1. CASE CallStart(x)
    BY <1>2, <2>1
  <2>2. CASE ~ CallStart(x)
    <3>1. starts' = starts
      BY <1>10, <2>2 DEF Step, RecordStart, GateStartFailed, StarterFailed, Drain, AwaitReceipt,
              PollTerminal, PollAgain, PollFails, AutoStop, EnqueueReconcile, RefuseStart,
              Adopt, FirstMonitor, Abandon, ReconcileLater, ReconcileTerminal, ReconcileFails
    <3> QED
      BY <1>2, <1>3, <1>9, <1>10, <2>2, <3>1
  <2> QED
    BY <2>1, <2>2
<1>11. ASSUME NEW x \in calls, Crash(x) PROVE OneStart'
  BY <1>1, <1>11, OneStartCrash
<1> QED
  BY <1>4, <1>6, <1>7, <1>8, <1>10, <1>11 DEF Next

(* start_crawl is called at most once per crawl, through retries of the    *)
(* starter, late receipts and revivals by the sweep, and once more for     *)
(* each call whose process died before it recorded the answer.             *)
THEOREM StartedOnceUnlessCutAlways == Spec => []StartedOnceUnlessCut
<1>1. Init => OneStart
  BY DEF Init, OneStart, CutOff, Settled, Starting
<1>2. Typed /\ InOrder /\ OneStart /\ [Next]_vars => OneStart'
  <2>1. ASSUME OneStart, UNCHANGED vars PROVE OneStart'
    BY <2>1, Zenon DEF vars, OneStart, CutOff, Settled, Answering, Starting
  <2> QED
    BY <2>1, OneStartStep
<1>3. Typed /\ OneStart => StartedOnceUnlessCut
  <2> SUFFICES ASSUME Typed, OneStart, NEW c \in Crawl
               PROVE  starts[c].called <= 1 + starts[c].cut
    BY DEF StartedOnceUnlessCut
  <2>1. starts[c].cut \in Nat
    BY DEF Typed, TypeOK, StartCount
  <2> QED
    BY <2>1 DEF OneStart, CutOff
<1> QED
  BY <1>1, <1>2, <1>3, TypedAlways, InOrderAlways, PTL DEF Spec
=============================================================================
