------------------------ MODULE KnowledgePublication ------------------------
(***************************************************************************)
(* Publication of knowledge documents after a review                       *)
(* (knowledge-publication/service.ts, the triggers of migrations 025 and   *)
(* 026, knowledge/publication.ts and the freeze of knowledge/scopes.ts),   *)
(* for the versions of one document.  An administrator confirms what he    *)
(* was shown and applies; the decision of the review enqueues a            *)
(* publication job in its own transaction; the job publishes the version   *)
(* and archives the one in force.  A job whose fate is unknown is replaced *)
(* by another after a second confirmation.                                 *)
(*                                                                         *)
(* A transaction locks the rows it decides on and is one action; only the  *)
(* one that archives does not (see Archive).  The job is high              *)
(* risk: module ExecutionJobs says it is started once, and is uncertain    *)
(* when its call throws or its lease runs out.  A material is its revision *)
(* number; the review is one decision (module ReviewEngine has the rest);  *)
(* an expired confirmation is one that is never used.                      *)
(***************************************************************************)
EXTENDS Integers, Sequences, SequencesExt, FiniteSets

CONSTANTS
  Doc,        \* versions of the document
  First,      \* the one that was uploaded
  None,       \* no version
  MaxEdits,   \* bound on the changes of scopes
  MaxApps,    \* bound on the applications
  MaxAsks,    \* bound on the confirmations
  MaxFaults   \* bound on crashes, failing statements, overdue renewals,
              \* stale archivings and changes of the applicant's role

ASSUME PublicationAssumption ==
  /\ First \in Doc /\ None \notin Doc
  /\ {MaxEdits, MaxApps, MaxAsks, MaxFaults} \subseteq Nat

VARIABLES
  docs,        \* knowledge_documents, lineage and scope
  apps,        \* knowledge_publication_applications with their review
  asks,        \* knowledge_publication_confirmations
  jobs,        \* of each application: its publication jobs, oldest first
  calls,       \* handler calls in the memory of the workers
  authorized,  \* the applicant is an administrator of the organisation
  faults

vars == <<docs, apps, asks, jobs, calls, authorized, faults>>

App == 1..MaxApps
DocStatus == {"absent", "draft", "pending_review", "published", "archived"}
Decision == {"approved", "rejected", "withdrawn"}
AppStatus == {"waiting", "published", "rejected", "withdrawn", "failed"}
JobStatus == {"queued", "running", "succeeded", "uncertain"}
Ask == [op : {"submit", "recover"}, doc : Doc, rev : Nat,
        seen : Nat, app : App \cup {0}, used : BOOLEAN]

TypeOK ==
  /\ docs \in [Doc -> [status : DocStatus, expected : Doc \cup {None}, rev : Nat]]
  /\ apps \in Seq([doc : Doc, rev : Nat, status : AppStatus,
                   review : {"reviewing"} \cup Decision])
  /\ asks \in Seq(Ask)
  /\ jobs \in [App -> Seq(JobStatus)]
  /\ calls \subseteq [app : App, n : Nat, phase : {"called", "returned"}]
  /\ authorized \in BOOLEAN /\ faults \in 0..MaxFaults

Init ==
  /\ docs = [d \in Doc |-> [status |-> IF d = First THEN "draft" ELSE "absent",
                            expected |-> None, rev |-> 0]]
  /\ apps = <<>> /\ asks = <<>> /\ calls = {}
  /\ jobs = [a \in App |-> <<>>]
  /\ authorized = TRUE /\ faults = 0

Fault == faults < MaxFaults /\ faults' = faults + 1

-----------------------------------------------------------------------------
(* The versions.                                                           *)

InForce == {d \in Doc : docs[d].status = "published"}
Waiting(d) == {a \in DOMAIN apps : apps[a].doc = d /\ apps[a].status = "waiting"}
SetDoc(d, status) == docs' = [docs EXCEPT ![d].status = status]

(* createDocumentRevision: the new version remembers the one in force.     *)
CreateRevision(d) ==
  /\ docs[d].status = "absent"
  /\ \E e \in InForce \cup {None} :
       /\ e = None => InForce = {}
       /\ docs' = [docs EXCEPT ![d].status = "draft", ![d].expected = e]
  /\ UNCHANGED <<apps, asks, jobs, calls, authorized, faults>>

(* The extraction and index jobs of the document are done.                 *)
Indexed(d) ==
  /\ docs[d].status = "draft"
  /\ SetDoc(d, "pending_review")
  /\ UNCHANGED <<apps, asks, jobs, calls, authorized, faults>>

(* saveScope: another scope, as checked as the last one; refused while the *)
(* version is frozen.                                                      *)
SaveScope(d) ==
  /\ docs[d].status = "pending_review" /\ Waiting(d) = {}
  /\ FoldFunction(+, 0, [e \in Doc |-> docs[e].rev]) < MaxEdits
  /\ docs' = [docs EXCEPT ![d].rev = @ + 1]
  /\ UNCHANGED <<apps, asks, jobs, calls, authorized, faults>>

(* batchWorkspaceItems refuses to archive while an application waits, but  *)
(* locks nothing between the check and the write: an application that      *)
(* comes in between counts as a fault.                                     *)
Archive(d) ==
  /\ docs[d].status \in {"draft", "pending_review", "published"}
  /\ \/ Waiting(d) = {} /\ UNCHANGED faults
     \/ Waiting(d) # {} /\ Fault
  /\ SetDoc(d, "archived")
  /\ UNCHANGED <<apps, asks, jobs, calls, authorized>>

(* The applicant loses or regains the role, or leaves the organisation.    *)
RightsChange ==
  /\ Fault
  /\ authorized' = ~ authorized
  /\ UNCHANGED <<docs, apps, asks, jobs, calls>>

-----------------------------------------------------------------------------
(* Confirmation, application, decision.                                    *)

(* documentMaterial and prepareMaterial, the state they require.           *)
MayApply(d) ==
  authorized /\ docs[d].status = "pending_review" /\ Waiting(d) = {}

NewAsk(ask) ==
  /\ Len(asks) < MaxAsks
  /\ asks' = Append(asks, ask)
  /\ UNCHANGED <<docs, apps, jobs, calls, authorized, faults>>

PreparePublication(d) ==
  /\ MayApply(d)
  /\ NewAsk([op |-> "submit", doc |-> d, rev |-> docs[d].rev, seen |-> 0,
             app |-> 0, used |-> FALSE])

(* submitPublication: the digest is compared and the confirmation consumed *)
(* with the application's INSERT.                                          *)
SubmitPublication(i) ==
  LET ask == asks[i] IN
  /\ ask.op = "submit" /\ ~ ask.used
  /\ MayApply(ask.doc) /\ ask.rev = docs[ask.doc].rev
  /\ Len(apps) < MaxApps
  /\ apps' = Append(apps, [doc |-> ask.doc, rev |-> ask.rev,
                           status |-> "waiting", review |-> "reviewing"])
  /\ asks' = [asks EXCEPT ![i].used = TRUE, ![i].app = Len(apps) + 1]
  /\ UNCHANGED <<docs, jobs, calls, authorized, faults>>

Enqueue(a) == jobs' = [jobs EXCEPT ![a] = Append(@, "queued")]

(* Mutation: the trigger takes note of approvals, and of nothing else.     *)
DecideApprovals(a) ==
  /\ apps[a].review = "reviewing"
  /\ \E decision \in Decision :
       /\ apps' = [apps EXCEPT ![a].review = decision]
       /\ IF decision = "approved" THEN Enqueue(a) ELSE UNCHANGED jobs
  /\ UNCHANGED <<docs, asks, calls, authorized, faults>>

(* The review ends; the trigger enqueue_knowledge_publication inserts the  *)
(* job in the same transaction.                                            *)
Decide(a) ==
  /\ apps[a].review = "reviewing"
  /\ \E decision \in Decision : apps' = [apps EXCEPT ![a].review = decision]
  /\ IF apps[a].status = "waiting" THEN Enqueue(a) ELSE UNCHANGED jobs
  /\ UNCHANGED <<docs, asks, calls, authorized, faults>>

-----------------------------------------------------------------------------
(* Recovery.                                                               *)

(* The last job of the application is over without a receipt.              *)
InDoubt(a) == jobs[a] # <<>> /\ Last(jobs[a]) = "uncertain"

(* recoveryMaterial: an approved application whose last job is over, and   *)
(* whose material is what was approved.  It asks for an administrator, who *)
(* need not be the applicant.                                              *)
MayRecover(a) ==
  /\ apps[a].status = "waiting" /\ apps[a].review = "approved"
  /\ InDoubt(a)
  /\ docs[apps[a].doc].status = "pending_review"
  /\ docs[apps[a].doc].rev = apps[a].rev

PrepareRecovery(a) ==
  /\ MayRecover(a)
  /\ NewAsk([op |-> "recover", doc |-> apps[a].doc, rev |-> apps[a].rev,
             seen |-> Len(jobs[a]), app |-> a, used |-> FALSE])

(* recoverPublication: the digest names the job the administrator was told *)
(* of.                                                                     *)
RecoverPublication(i) ==
  LET ask == asks[i] IN
  /\ ask.op = "recover" /\ ~ ask.used
  /\ MayRecover(ask.app) /\ ask.seen = Len(jobs[ask.app])
  /\ Enqueue(ask.app)
  /\ asks' = [asks EXCEPT ![i].used = TRUE]
  /\ UNCHANGED <<docs, apps, calls, authorized, faults>>

-----------------------------------------------------------------------------
(* The publication job.                                                    *)

SetJob(a, n, status) == jobs' = [jobs EXCEPT ![a][n] = status]

Claim(a, n) ==
  /\ jobs[a][n] = "queued"
  /\ SetJob(a, n, "running")
  /\ calls' = calls \cup {[app |-> a, n |-> n, phase |-> "called"]}
  /\ UNCHANGED <<docs, apps, asks, authorized, faults>>

(* The lease of a running job runs out and is recovered: its call is gone, *)
(* or, one of the bounded faults, is still at work without having renewed. *)
Abandoned(a, n) == ~ \E c \in calls : c.app = a /\ c.n = n
LoseLease(a, n) ==
  /\ jobs[a][n] = "running"
  /\ IF Abandoned(a, n) THEN UNCHANGED faults ELSE Fault
  /\ SetJob(a, n, "uncertain")
  /\ UNCHANGED <<docs, apps, asks, calls, authorized>>

(* The call commits what it wrote of its application, or threw instead.    *)
Commit(c, status) ==
  /\ apps' = [apps EXCEPT ![c.app].status = status]
  /\ calls' = (calls \ {c}) \cup {[c EXCEPT !.phase = "returned"]}
  /\ UNCHANGED <<asks, jobs, authorized, faults>>

Throw(c) ==
  /\ calls' = calls \ {c}
  /\ jobs' = IF jobs[c.app][c.n] = "running"
             THEN [jobs EXCEPT ![c.app][c.n] = "uncertain"] ELSE jobs
  /\ UNCHANGED <<docs, apps, asks, authorized>>

(* What the approved material has to be for an authorized applicant.       *)
MaterialHolds(app) ==
  authorized /\ docs[app.doc].status = "pending_review" /\ docs[app.doc].rev = app.rev

(* Mutation: whatever is in force is replaced.                             *)
ActiveWhatever(d) == TRUE

(* The version in force is the one the revision was made from.             *)
ActiveAsExpected(d) == InForce = {docs[d].expected} \ {None}

Publish(d) ==
  docs' = [e \in Doc |-> CASE e = d -> [docs[e] EXCEPT !.status = "published"]
                           [] e \in InForce \ {d} -> [docs[e] EXCEPT !.status = "archived"]
                           [] OTHER -> docs[e]]

(* Mutation: the status of the review is taken over as it is.              *)
CloseVerbatim(c) == UNCHANGED docs /\ Commit(c, apps[c.app].review)

(* A review that was refused or withdrawn closes its application.          *)
Close(c) ==
  /\ apps[c.app].review # "approved"
  /\ UNCHANGED docs
  /\ Commit(c, apps[c.app].review)

(* An approved one: domain conflicts are final, a lost lease throws.       *)
ExecuteApproved(c) ==
  LET app == apps[c.app]
      held == jobs[c.app][c.n] = "running" IN
  /\ app.review = "approved"
  /\ \/ /\ ~ MaterialHolds(app) \/ (held /\ ~ ActiveAsExpected(app.doc))
        /\ UNCHANGED docs /\ Commit(c, "failed")
     \/ MaterialHolds(app) /\ ~ held /\ Throw(c) /\ UNCHANGED faults
     \/ /\ MaterialHolds(app) /\ held /\ ActiveAsExpected(app.doc)
        /\ Publish(app.doc) /\ Commit(c, "published")

(* Mutation: the application is closed, whatever became of it before.      *)
ExecuteOnceMore(c) == c.phase = "called" /\ (Close(c) \/ ExecuteApproved(c))

(* executePublication.  An application that is no longer waiting has its   *)
(* receipt already.                                                        *)
ExecutePublication(c) ==
  /\ c.phase = "called"
  /\ IF apps[c.app].status # "waiting"
     THEN UNCHANGED docs /\ Commit(c, apps[c.app].status)
     ELSE Close(c) \/ ExecuteApproved(c)

(* An infrastructure failure: comes out of the handler.                    *)
InfrastructureFails(c) == Fault /\ c.phase = "called" /\ Throw(c)

CompleteJob(c) ==
  /\ c.phase = "returned"
  /\ calls' = calls \ {c}
  /\ jobs' = IF jobs[c.app][c.n] = "running"
             THEN [jobs EXCEPT ![c.app][c.n] = "succeeded"] ELSE jobs
  /\ UNCHANGED <<docs, apps, asks, authorized, faults>>

Crash(c) ==
  /\ Fault
  /\ calls' = calls \ {c}
  /\ UNCHANGED <<docs, apps, asks, jobs, authorized>>

-----------------------------------------------------------------------------
CallStep(c) == ExecutePublication(c) \/ CompleteJob(c)

Next ==
  \/ \E d \in Doc : \/ CreateRevision(d) \/ Indexed(d) \/ SaveScope(d) \/ Archive(d)
                    \/ PreparePublication(d)
  \/ RightsChange
  \/ \E i \in DOMAIN asks : SubmitPublication(i) \/ RecoverPublication(i)
  \/ \E a \in DOMAIN apps : \/ Decide(a) \/ PrepareRecovery(a)
                            \/ \E n \in DOMAIN jobs[a] : Claim(a, n) \/ LoseLease(a, n)
  \/ \E c \in calls : CallStep(c) \/ InfrastructureFails(c) \/ Crash(c)

Spec == Init /\ [][Next]_vars

(* Workers claim and their calls end; a lease nobody renews is recovered.  *)
Fairness ==
  \A a \in App :
    /\ WF_vars(\E n \in DOMAIN jobs[a] : Claim(a, n))
    /\ WF_vars(\E n \in DOMAIN jobs[a] : Abandoned(a, n) /\ LoseLease(a, n))
    /\ WF_vars(\E c \in calls : c.app = a /\ CallStep(c))

FairSpec == Spec /\ Fairness

-----------------------------------------------------------------------------
(* Properties.                                                             *)

(* A version comes into force only by an approved application, with the    *)
(* very material that was approved, and it replaces exactly the version it *)
(* was made from: of two revisions made from one version the second is     *)
(* not published over the first, however jobs are delayed or recovered.    *)
ReplacesWhatItExpected ==
  [][\A d \in Doc :
       (docs'[d].status = "published" /\ docs[d].status # "published") =>
         /\ \E a \in DOMAIN apps :
              /\ apps[a].doc = d /\ apps[a].review = "approved"
              /\ apps[a].rev = docs'[d].rev
              /\ apps[a].status = "waiting" /\ apps'[a].status = "published"
         /\ InForce = {docs[d].expected} \ {None}
         /\ InForce' = {d}]_vars

(* The receipts tell the truth of what employees are answered from: the    *)
(* version in force has an application that says published, of its very    *)
(* material.  The call of a job whose lease was lost may still be at work  *)
(* when the recovery's job publishes; it finds the version published, and  *)
(* must neither fail nor publish the application again.                    *)
InForceHasReceipt ==
  \A d \in InForce :
    \E a \in DOMAIN apps : /\ apps[a].doc = d /\ apps[a].rev = docs[d].rev
                          /\ apps[a].status = "published"

(* An application whose review has ended is closed, unless its last job's  *)
(* fate is unknown: the document does not stay frozen.                     *)
DecidedIsClosed ==
  \A a \in App :
    (a \in DOMAIN apps /\ apps[a].review # "reviewing")
      ~> (/\ a \in DOMAIN apps
          /\ apps[a].status # "waiting" \/ InDoubt(a))
=============================================================================
