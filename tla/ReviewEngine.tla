---------------------------- MODULE ReviewEngine ----------------------------
(***************************************************************************)
(* One review instance: the walk over the published form                   *)
(* (approval/review-engine.ts), the operations of its participants         *)
(* (review-operations.ts), the requests that carry them out on a copy of   *)
(* the row (review-postgres-service.ts) and the timeouts of its tasks      *)
(* (review-postgres-worker.ts).                                            *)
(*                                                                         *)
(* A request reads the row without a lock, computes the whole new          *)
(* instance and writes it where the version is still the one it read; a    *)
(* timeout locks the row.  Names, reasons, notices and the audit trail     *)
(* are left out; the form's conditions look at one field.                  *)
(***************************************************************************)
EXTENDS Integers, Sequences, SequencesExt, FiniteSets

CONSTANTS
  Person,       \* the people reviews are about
  Mobile,       \* those who leave the organisation and come back
  Requester,    \* who asks for the review
  Drafts,       \* definitions somebody drew; node 1 comes first
  Value,        \* values of the form's field; "missing" is none
  Session,      \* requests in flight at once
  Idle,         \* no request
  MaxRound,     \* bound on the rounds
  MaxVersion,   \* bound on the versions of the row a command starts from
  MaxTask,      \* bound on the tasks the forms can hand out
  MaxMoves      \* bound on the changes of the organisation

(* What a draft is made of: nodes, and lists that name nobody twice.       *)
Rule == [named : BOOLEAN, users : {u \in Seq(Person) : IsInjective(u)}]
FormNode == [type : {"start", "review", "cc", "handler", "condition", "end"},
             next : Nat, otherwise : Nat, equals : Value, assignee : Rule,
             mode : {"single", "all", "any", "sequential"}, allReject : BOOLEAN,
             timeout : {"none", "remind", "transfer"}, deadline : {"preserve", "reset"},
             amendment : BOOLEAN, transfer : Rule, countersign : Rule, escalate : Rule]

ASSUME ReviewAssumption ==
  /\ Requester \in Person /\ Mobile \subseteq Person
  /\ "missing" \in Value /\ Drafts \subseteq Seq(FormNode) \ {<<>>}
  /\ MaxRound \in Nat /\ MaxVersion \in Nat /\ MaxTask \in Nat /\ MaxMoves \in Nat

VARIABLES
  form,      \* the definition the instance was submitted under
  row,       \* the instance in review_instances
  present,   \* who is in the organisation
  moves,     \* how often that has changed
  sessions,  \* the new instance each request has computed
  passed,    \* deadlines that have passed; a deadline has the number of the
             \* task it was first set for
  armed,     \* tasks with a live review.timeout job
  done,      \* tasks whose job has finished
  failed     \* tasks whose job has run out of attempts

vars == <<form, row, present, moves, sessions, passed, armed, done, failed>>

TaskId == 1 .. MaxTask
Open == {"reviewing", "blocked", "awaiting_amendment"}
TaskStatus == {"waiting", "pending", "suspended", "approved", "rejected",
               "completed", "transferred", "superseded", "cancelled"}
Task == [id : TaskId, round : Nat, node : Nat, user : Person, status : TaskStatus,
         source : {"default", "transfer", "countersign", "timeout"}, due : Nat]
Instance == [status : Open \cup {"approved", "rejected", "withdrawn"},
             node : Nat, round : Nat, version : Nat, value : Value,
             tasks : Seq(Task)]

(* The state's types, in one invariant.                                    *)
TypeOK ==
  /\ row \in Instance
  /\ present \subseteq Person
  /\ sessions \in [Session -> Instance \cup {Idle}]
  /\ passed \subseteq TaskId /\ armed \subseteq TaskId
  /\ done \subseteq TaskId /\ failed \subseteq TaskId

(***************************************************************************)
(* What may be published.  Nodes are numbered, so that a form without a    *)
(* cycle is one whose edges go up.                                         *)
(***************************************************************************)
Edges(n) == CASE n.type = "end" -> {}
              [] n.type = "condition" -> {n.next, n.otherwise}
              [] OTHER -> {n.next}

WellFormed(f) ==
  /\ \A k \in DOMAIN f : f[k].type = "start" <=> k = 1
  /\ \A k \in DOMAIN f : Edges(f[k]) \subseteq k + 1 .. Len(f)
  /\ \A k \in 2 .. Len(f) : \E j \in DOMAIN f : k \in Edges(f[j])
  /\ \A k \in DOMAIN f :
       LET n == f[k]
       IN /\ n.allReject => n.type = "review" /\ n.mode = "any"
          /\ n.countersign.users # <<>> => n.mode \in {"all", "sequential"}
          /\ \/ n.amendment \/ n.timeout # "none"
             \/ \E rule \in {n.transfer, n.countersign, n.escalate} : rule.users # <<>>
             => n.type = "review"

(* A way to the end on which nobody reviews.                               *)
Bypass(f) ==
  \E way \in SUBSET DOMAIN f :
    1 \in way /\ \A k \in way : /\ f[k].type # "review"
                                /\ f[k].type = "end" \/ Edges(f[k]) \cap way # {}

ValidateDefinition(f) == WellFormed(f) /\ ~Bypass(f)

(***************************************************************************)
(* Who may act.                                                            *)
(***************************************************************************)
(* Those of users who are in the organisation, in their order.             *)
Among(users, here) ==
  LET first[n \in 0 .. Len(users)] ==
        IF n = 0 THEN <<>>
        ELSE IF users[n] \in here THEN Append(first[n - 1], users[n]) ELSE first[n - 1]
  IN first[Len(users)]

(* A named list, or the requester's managers, counts only while every      *)
(* member of it is present; a role is whoever is present.                  *)
Candidates(rule, here) ==
  IF rule.named
  THEN IF ToSet(rule.users) \subseteq here THEN rule.users ELSE <<>>
  ELSE Among(rule.users, here)

TaskPolicy(n, t) ==
  CASE t.source = "transfer" -> n.transfer
    [] t.source = "countersign" -> n.countersign
    [] t.source = "timeout" /\ n.timeout = "transfer" -> n.escalate
    [] OTHER -> n.assignee

Here(i, t) == t.node = i.node /\ t.round = i.round
Current(i) == {t \in ToSet(i.tasks) : Here(i, t)}
Live(i) == {t \in Current(i) : t.status \notin {"transferred", "superseded", "cancelled"}}
Node(i) == form[i.node]

MayAct(i, t, here) ==
  /\ i.status = "reviewing" /\ t \in Current(i) /\ t.status = "pending"
  /\ t.user \in ToSet(Candidates(TaskPolicy(Node(i), t), here))
  /\ Node(i).type = "review" => t.user # Requester

(* Mutation: somebody who already had a task at the node may get another.  *)
TargetsAgain(i, rule, here) == ToSet(Candidates(rule, here)) \ {Requester}

Targets(i, rule, here) ==
  ToSet(Candidates(rule, here)) \ ({Requester} \cup {t.user : t \in Current(i)})

(***************************************************************************)
(* The walk over the form.                                                 *)
(***************************************************************************)
Assigned(i, k, users) ==
  [p \in DOMAIN users |->
    [id |-> 0, round |-> i.round, node |-> k, user |-> users[p], source |-> "default",
     status |-> IF form[k].type = "cc" THEN "completed"
                ELSE IF form[k].mode = "sequential" /\ p > 1 THEN "waiting" ELSE "pending",
     due |-> IF form[k].timeout # "none" /\ ~(form[k].mode = "sequential" /\ p > 1)
             THEN 1 ELSE 0]]

Blocked(k, users) ==
  \/ users = <<>>
  \/ form[k].mode = "single" /\ Len(users) # 1
  \/ form[k].type = "review" /\ Requester \in ToSet(users)

(* Where the walk from node k stops, and the tasks it hands out, given     *)
(* where it stops from the nodes after it.                                 *)
Stop(k, status, tasks) == [node |-> k, status |-> status, tasks |-> tasks]

WalkFrom(go, k, i, here) ==
  LET n == form[k]
      users == Candidates(n.assignee, here)
  IN CASE n.type = "end" -> Stop(k, "approved", <<>>)
       [] n.type \in {"review", "cc", "handler"} ->
            IF Blocked(k, users) THEN Stop(k, "blocked", <<>>)
            ELSE IF n.type = "cc"
            THEN [go[n.next] EXCEPT !.tasks = Assigned(i, k, users) \o @]
            ELSE Stop(k, "reviewing", Assigned(i, k, users))
       [] n.type = "condition" ->
            IF i.value = "missing" THEN Stop(k, "blocked", <<>>)
            ELSE go[IF i.value = n.equals THEN n.next ELSE n.otherwise]
       [] OTHER -> go[n.next]

Walk(i, here) == LET go[k \in DOMAIN form] == WalkFrom(go, k, i, here) IN go

(* Mutation: ids count from the last task, not from the one after it.      *)
NumberedFromLast(i, tasks) ==
  [p \in DOMAIN tasks |->
    [tasks[p] EXCEPT !.id = Len(i.tasks) + p - 1,
                     !.due = IF @ = 0 THEN 0 ELSE Len(i.tasks) + p]]

(* New tasks get fresh ids and, where the node has a timeout, a deadline   *)
(* of their own.                                                           *)
Numbered(i, tasks) ==
  [p \in DOMAIN tasks |->
    [tasks[p] EXCEPT !.id = Len(i.tasks) + p,
                     !.due = IF @ = 0 THEN 0 ELSE Len(i.tasks) + p]]

AdvanceReview(i, from, here) ==
  LET at == Walk(i, here)[from]
  IN [i EXCEPT !.node = at.node, !.status = at.status,
               !.tasks = @ \o Numbered(i, at.tasks)]

(***************************************************************************)
(* The operations, on a copy of the instance.                              *)
(***************************************************************************)
SetTasks(i, which(_), status) ==
  [i EXCEPT !.tasks = [p \in DOMAIN @ |->
     IF which(@[p]) THEN [@[p] EXCEPT !.status = status] ELSE @[p]]]
Mark(i, t, status) == SetTasks(i, LAMBDA x : x = t, status)

(* Mutation: the tasks that still wait for their turn are forgotten.       *)
CancelPending(i) ==
  SetTasks(i, LAMBDA x : Here(i, x) /\ x.status = "pending", "cancelled")

CancelRest(i) ==
  SetTasks(i, LAMBDA x : Here(i, x) /\ x.status \in {"pending", "waiting"}, "cancelled")

(* The first waiting task of a sequential node becomes pending; only then  *)
(* its deadline starts.                                                    *)
Promote(i) ==
  LET waiting == {p \in DOMAIN i.tasks : Here(i, i.tasks[p]) /\ i.tasks[p].status = "waiting"}
      first == CHOOSE p \in waiting : \A q \in waiting : p <= q
  IN IF Node(i).mode # "sequential" \/ waiting = {} THEN i
     ELSE [i EXCEPT !.tasks[first] =
             [@ EXCEPT !.status = "pending",
                       !.due = IF Node(i).timeout # "none" THEN i.tasks[first].id ELSE 0]]

InsertAfter(i, t, new) ==
  LET p == CHOOSE q \in DOMAIN i.tasks : i.tasks[q].id = t.id
  IN [i EXCEPT !.tasks = InsertAt(@, p + 1, new)]

(* Mutation: a sequential node is passed at its first approval.            *)
FirstApprovalPasses(i) ==
  \/ Node(i).mode \in {"any", "sequential"} /\ \E t \in Live(i) : t.status = "approved"
  \/ \A t \in Live(i) : t.status = "approved"

Passed(i) ==
  \/ Node(i).mode = "any" /\ \E t \in Live(i) : t.status = "approved"
  \/ \A t \in Live(i) : t.status = "approved"

Refused(i) ==
  IF Node(i).allReject THEN \A t \in Live(i) : t.status = "rejected"
                       ELSE \E t \in Live(i) : t.status = "rejected"

Decide(i, t, vote, here) ==
  LET j == Mark(i, t, vote)
  IN IF Refused(j) THEN CancelRest([j EXCEPT !.status = "rejected"])
     ELSE IF Passed(j) THEN AdvanceReview(CancelRest(j), Node(j).next, here)
     ELSE Promote(j)

Complete(i, t, here) ==
  LET j == Mark(i, t, "completed")
  IN IF Node(j).mode = "any" \/ \A x \in Live(j) : x.status = "completed"
     THEN AdvanceReview(CancelRest(j), Node(j).next, here)
     ELSE Promote(j)

Reassign(i, t, target, source) ==
  LET new == Len(i.tasks) + 1
      reset == source = "timeout" \/ Node(i).deadline = "reset"
  IN InsertAfter(Mark(i, t, "transferred"), t,
       [t EXCEPT !.id = new, !.user = target, !.source = source,
                 !.due = IF @ = 0 THEN 0 ELSE IF reset THEN new ELSE @])

(* Mutation: a countersigner does not wait for its turn.                   *)
CountersignNow(i, t, target) ==
  InsertAfter(i, t, [t EXCEPT !.id = Len(i.tasks) + 1, !.user = target, !.source = "countersign"])

Countersign(i, t, target) ==
  LET later == Node(i).mode = "sequential"
  IN InsertAfter(i, t,
       [t EXCEPT !.id = Len(i.tasks) + 1, !.user = target, !.source = "countersign",
                 !.status = IF later THEN "waiting" ELSE "pending",
                 !.due = IF later THEN 0 ELSE @])

RequestAmendment(i) ==
  SetTasks([i EXCEPT !.status = "awaiting_amendment"],
           LAMBDA x : Here(i, x) /\ x.status \in {"pending", "waiting"}, "suspended")

Resubmit(i, value, here) ==
  LET old == SetTasks(i, LAMBDA x : x.status \in {"pending", "waiting", "suspended"},
                      "superseded")
  IN AdvanceReview([old EXCEPT !.round = @ + 1, !.value = value], 1, here)

Withdraw(i) ==
  SetTasks([i EXCEPT !.status = "withdrawn"],
           LAMBDA x : x.status \in {"waiting", "pending", "suspended"}, "cancelled")

(***************************************************************************)
(* Requests.  A command is checked and computed on the row as it was read, *)
(* and written later, if the version is still the same.                    *)
(***************************************************************************)
(* Mutation: a task that was handed over gets no timer of its own.         *)
TimersOfDefaults(i) ==
  {t.id : t \in {x \in Current(i) : /\ i.status = "reviewing" /\ x.status = "pending"
                                  /\ x.due # 0 /\ x.source = "default"}}

Timers(i) ==
  {t.id : t \in {x \in Current(i) : i.status = "reviewing" /\ x.status = "pending" /\ x.due # 0}}

(* A form without the field leaves no answer to give.                      *)
Answers == IF \E k \in DOMAIN form : form[k].type = "condition" THEN Value ELSE {"missing"}

(* Bound: the instances followed have MaxTask tasks at most.               *)
Fits(i) == Len(i.tasks) <= MaxTask

Init ==
  /\ form \in Drafts /\ ValidateDefinition(form)
  /\ present = Person
  /\ \E value \in Answers :
       row = AdvanceReview([status |-> "reviewing", node |-> 1, round |-> 1, version |-> 1,
                            value |-> value, tasks |-> <<>>], 1, present)
  /\ row.status # "blocked" /\ Fits(row)
  /\ moves = 0 /\ sessions = [s \in Session |-> Idle]
  /\ passed = {} /\ armed = Timers(row) /\ done = {} /\ failed = {}

Hold(s, i) ==
  /\ sessions[s] = Idle /\ row.version < MaxVersion /\ Fits(i)
  /\ sessions' = [sessions EXCEPT ![s] = [i EXCEPT !.version = @ + 1]]
  /\ UNCHANGED <<form, row, present, moves, passed, armed, done, failed>>

Judge(s, t, vote) ==
  /\ MayAct(row, t, present) /\ Node(row).type = "review"
  /\ Hold(s, Decide(row, t, vote, present))

CompleteTask(s, t) ==
  /\ MayAct(row, t, present) /\ Node(row).type = "handler"
  /\ Hold(s, Complete(row, t, present))

Transfer(s, t, target) ==
  /\ MayAct(row, t, present) /\ target \in Targets(row, Node(row).transfer, present)
  /\ Hold(s, Reassign(row, t, target, "transfer"))

AddSigner(s, t, target) ==
  /\ MayAct(row, t, present) /\ Node(row).mode \in {"all", "sequential"}
  /\ target \in Targets(row, Node(row).countersign, present)
  /\ Hold(s, Countersign(row, t, target))

AskAmendment(s, t) ==
  /\ MayAct(row, t, present) /\ Node(row).amendment
  /\ Hold(s, RequestAmendment(row))

SubmitAgain(s, value) ==
  /\ row.status = "awaiting_amendment" /\ Requester \in present
  /\ row.round < MaxRound
  /\ Hold(s, Resubmit(row, value, present))

WithdrawIt(s) ==
  /\ row.status \in Open /\ Requester \in present
  /\ Hold(s, Withdraw(row))

Retry(s) ==
  /\ row.status = "blocked" /\ Requester \in present
  /\ Hold(s, AdvanceReview(row, row.node, present))

(* Mutation: the write takes whatever version the row has.                 *)
CommitAnyVersion(s) ==
  /\ sessions[s] # Idle
  /\ row' = sessions[s]
  /\ armed' = armed \cup (Timers(row') \ (done \cup failed))
  /\ sessions' = [sessions EXCEPT ![s] = Idle]
  /\ UNCHANGED <<form, present, moves, passed, done, failed>>

Commit(s) ==
  /\ sessions[s] # Idle
  /\ row.version = sessions[s].version - 1
  /\ row' = sessions[s]
  /\ armed' = armed \cup (Timers(row') \ (done \cup failed))
  /\ sessions' = [sessions EXCEPT ![s] = Idle]
  /\ UNCHANGED <<form, present, moves, passed, done, failed>>

(* The version moved, or the request died: its transaction rolls back.     *)
GiveUp(s) ==
  /\ sessions[s] # Idle
  /\ sessions' = [sessions EXCEPT ![s] = Idle]
  /\ UNCHANGED <<form, row, present, moves, passed, armed, done, failed>>

(***************************************************************************)
(* Timeouts.  The job runs once its deadline has passed, and either writes *)
(* its receipt with the new instance or changes nothing.                   *)
(***************************************************************************)
Outdated(t) ==
  ~(row.status = "reviewing" /\ t.status = "pending" /\ t.round = row.round)

Escalation(t) ==
  LET targets == Targets(row, Node(row).escalate, present)
  IN IF Node(row).timeout = "transfer" /\ Cardinality(targets) = 1 /\ t.source # "timeout"
     THEN Reassign(row, t, CHOOSE u \in targets : TRUE, "timeout")
     ELSE row   \* a reminder, or a notice that the requester must take over

Due(t) == t.id \in armed /\ t.due \in passed

SkipTimeout(t) ==
  /\ Due(t) /\ Outdated(t)
  /\ armed' = armed \ {t.id} /\ done' = done \cup {t.id}
  /\ UNCHANGED <<form, row, present, moves, sessions, passed, failed>>

(* An escalation loads the organisation as the requester sees it.          *)
NoContext == Node(row).timeout = "transfer" /\ Requester \notin present

HandleTimeout(t) ==
  /\ Due(t) /\ ~Outdated(t) /\ ~NoContext
  /\ row' = [Escalation(t) EXCEPT !.version = @ + 1] /\ Fits(row')
  /\ done' = done \cup {t.id}
  /\ armed' = (armed \ {t.id}) \cup (Timers(row') \ (done' \cup failed))
  /\ UNCHANGED <<form, present, moves, sessions, passed, failed>>

(* Without the requester it throws, until the job is out of attempts.      *)
FailTimeout(t) ==
  /\ Due(t) /\ ~Outdated(t) /\ NoContext
  /\ armed' = armed \ {t.id} /\ failed' = failed \cup {t.id}
  /\ UNCHANGED <<form, row, present, moves, sessions, passed, done>>

PassDeadline(t) ==
  /\ t.id \in armed \/ t.status = "pending"
  /\ t.due \notin passed \cup {0} /\ passed' = passed \cup {t.due}
  /\ UNCHANGED <<form, row, present, moves, sessions, armed, done, failed>>

(* The organisation is edited elsewhere.                                   *)
Move(u) ==
  /\ moves < MaxMoves /\ moves' = moves + 1
  /\ present' = IF u \in present THEN present \ {u} ELSE present \cup {u}
  /\ UNCHANGED <<form, row, sessions, passed, armed, done, failed>>

AllTasks == ToSet(row.tasks)
RunTimer(t) == SkipTimeout(t) \/ HandleTimeout(t) \/ FailTimeout(t)
Next ==
  \/ \E s \in Session :
       \/ \E t \in Current(row) :
            \/ \E vote \in {"approved", "rejected"} : Judge(s, t, vote)
            \/ CompleteTask(s, t) \/ AskAmendment(s, t)
            \/ \E target \in Person : Transfer(s, t, target) \/ AddSigner(s, t, target)
       \/ \E value \in Answers : SubmitAgain(s, value)
       \/ WithdrawIt(s) \/ Retry(s) \/ Commit(s) \/ GiveUp(s)
  \/ \E t \in AllTasks : RunTimer(t)
  \/ \E t \in AllTasks : PassDeadline(t)
  \/ \E u \in Mobile : Move(u)

Spec == Init /\ [][Next]_vars

(* The dispatcher gets to a job that is due; nobody has to answer.         *)
FairSpec == Spec /\ WF_vars(\E t \in AllTasks : RunTimer(t))

(***************************************************************************)
(* Properties.                                                             *)
(***************************************************************************)
(* A task is open only at the node and in the round the instance is at,    *)
(* and it is suspended exactly while an amendment is awaited: nothing of   *)
(* an earlier node or round can still be answered or time out.             *)
OpenTasksAreCurrent ==
  \A t \in AllTasks :
    /\ t.status \in {"pending", "waiting"} => row.status = "reviewing" /\ Here(row, t)
    /\ t.status = "suspended" => row.status = "awaiting_amendment" /\ Here(row, t)

(* Under review somebody has the task, and only one at a sequential node;  *)
(* whatever was transferred, countersigned, escalated or amended before.   *)
SomebodyMustAct ==
  LET pending == {t \in Current(row) : t.status = "pending"}
  IN row.status = "reviewing" =>
       pending # {} /\ (Node(row).mode = "sequential" => Cardinality(pending) = 1)

(* The nodes the values of the last round lead through.                    *)
Branch(k, value) ==
  IF form[k].type = "condition" /\ value # form[k].equals THEN form[k].otherwise
                                                          ELSE form[k].next
Follows(way, value) ==
  1 \in way /\ \A k \in way : form[k].type = "end" \/ Branch(k, value) \in way
Route(value) ==
  {k \in DOMAIN form : \A way \in SUBSET DOMAIN form : Follows(way, value) => k \in way}

(* Node k was passed by its own rule in the last round.                    *)
Judged(k) == form[k].type \in {"review", "handler"}
Agreed(i, k) ==
  LET yes == IF form[k].type = "review" THEN "approved" ELSE "completed"
      held == {t \in ToSet(i.tasks) : /\ t.round = i.round /\ t.node = k
                                      /\ t.status # "transferred"}
  IN /\ \E t \in held : t.status = yes
     /\ form[k].mode # "any" => \A t \in held : t.status = yes

(* An approved instance has passed every review of its route in its last   *)
(* round by that node's rule, and every handler has completed.             *)
ApprovalIsEarned ==
  row.status = "approved" => \A k \in Route(row.value) : Judged(k) => Agreed(row, k)

(* Nobody gets two tasks at one node of one round, by the walk, a retry, a *)
(* transfer, a countersignature or an escalation; the requester gets none  *)
(* that judges.                                                            *)
NoDoubleTask ==
  \A p, q \in DOMAIN row.tasks :
    LET t == row.tasks[p]
        x == row.tasks[q]
    IN /\ p # q => /\ t.id # x.id
                    /\ <<t.round, t.node, t.user>> # <<x.round, x.node, x.user>>
       /\ form[t.node].type = "review" => t.user # Requester

(* An overdue task that can still be answered is answered, taken away,     *)
(* reminded of or escalated, however it came about: by the walk, its turn, *)
(* a transfer, a countersignature or an escalation.  (A timer that cannot  *)
(* load the requester's organisation is the exception.)                    *)
Overdue(id) ==
  /\ id \notin done \cup failed
  /\ \E t \in Current(row) : /\ t.id = id /\ t.due \in passed
                           /\ t.status = "pending" /\ row.status = "reviewing"
OverdueIsHandled == \A id \in TaskId : Overdue(id) ~> ~Overdue(id)

(* The engine keeps what a review promises: decisions are never lost or    *)
(* taken back by a later or a stale write, and the review ends once, on a  *)
(* decision of its last round.                                             *)
Outcome(i) == IF i.status \in Open THEN "open" ELSE i.status
Ballots(i) ==
  {[round |-> t.round, step |-> t.node, user |-> t.user, vote |-> t.status] :
     t \in {x \in ToSet(i.tasks) : x.status \in {"approved", "rejected"}}}
Nodes == UNION {DOMAIN f : f \in Drafts}
Promise == INSTANCE Review WITH
  Step <- Nodes, outcome <- Outcome(row), round <- row.round, ballots <- Ballots(row)
KeepsReviewPromise == Promise!Spec
=============================================================================
