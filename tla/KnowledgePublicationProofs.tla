--------------------- MODULE KnowledgePublicationProofs ---------------------
(***************************************************************************)
(* One version of a document at most is in force, a version comes into     *)
(* force only by the approval of its very material and over the version it *)
(* was made from, and the application that published the version in force  *)
(* stays so, for any number of versions, applications, recoveries, faults. *)
(* The argument: the transaction of executePublication decides on what it  *)
(* has locked, so the proof is about that one action; the rest has to keep *)
(* the types, and calls within the applications there are.                 *)
(***************************************************************************)
EXTENDS KnowledgePublication, SequenceTheorems, TLAPS

Application == [doc : Doc, rev : Nat, status : AppStatus, review : {"reviewing"} \cup Decision]
Version == [status : DocStatus, expected : Doc \cup {None}, rev : Nat]

(* The review of the application is over.                                  *)
Decided(a) == a \in DOMAIN apps /\ apps[a].review # "reviewing"

(* Only a decided application has jobs and calls, and a recovery belongs   *)
(* to an application.                                                      *)
Related ==
  /\ Len(apps) <= MaxApps
  /\ \A a \in App : jobs[a] # <<>> => Decided(a)
  /\ \A c \in calls : Decided(c.app)
  /\ \A i \in DOMAIN asks : asks[i].op = "recover" => asks[i].app \in App

Typed == TypeOK /\ Related

(* A step of the document's owner.                                         *)
DocStep ==
  \/ \E d \in Doc : CreateRevision(d) \/ Indexed(d) \/ SaveScope(d) \/ Archive(d)
  \/ RightsChange

(* Changing one element of a sequence.                                     *)
LEMMA ChangedElement ==
  ASSUME NEW S, NEW s \in Seq(S), NEW i, NEW x \in S
  PROVE  /\ [s EXCEPT ![i] = x] \in Seq(S)
         /\ Len([s EXCEPT ![i] = x]) = Len(s)
         /\ DOMAIN [s EXCEPT ![i] = x] = DOMAIN s
<1>1. CASE i \in 1..Len(s)
  BY <1>1, ExceptSeq
<1>2. CASE i \notin 1..Len(s)
  <2>1. [s EXCEPT ![i] = x] = s
    BY <1>2
  <2> QED
    BY <2>1
<1> QED
  BY <1>1, <1>2

(* Changing the status of a version leaves a version.                      *)
LEMMA VersionStatus ==
  ASSUME NEW v \in Version, NEW status \in DocStatus
  PROVE  [v EXCEPT !.status = status] \in Version
BY DEF Version

(* The owner's steps keep the types.                                       *)
LEMMA DocStepType ==
  ASSUME Typed, DocStep
  PROVE  Typed'
<1>0. docs \in [Doc -> Version]
  BY DEF Typed, TypeOK, Version
<1> SUFFICES docs' \in [Doc -> Version] /\ authorized' \in BOOLEAN /\ faults' \in 0..MaxFaults
             /\ UNCHANGED <<apps, asks, jobs, calls>>
  BY DEF Typed, TypeOK, Related, Version, Decided
<1>1. ASSUME NEW d \in Doc, CreateRevision(d) PROVE docs' \in [Doc -> Version]
  <2>1. PICK e \in InForce \cup {None} :
          docs' = [docs EXCEPT ![d].status = "draft", ![d].expected = e]
    BY <1>1 DEF CreateRevision
  <2>2. e \in Doc \cup {None}
    BY DEF InForce
  <2>3. [docs[d] EXCEPT !.status = "draft", !.expected = e] \in Version
    BY <1>0, <2>2 DEF Version, DocStatus
  <2> QED
    BY <1>0, <2>1, <2>3
<1>2. ASSUME NEW d \in Doc, NEW status \in DocStatus, SetDoc(d, status)
      PROVE  docs' \in [Doc -> Version]
  BY <1>0, <1>2, VersionStatus DEF SetDoc
<1>3. ASSUME NEW d \in Doc, SaveScope(d) PROVE docs' \in [Doc -> Version]
  <2>1. docs[d].rev + 1 \in Nat
    BY <1>0 DEF Version
  <2>2. [docs[d] EXCEPT !.rev = docs[d].rev + 1] \in Version
    BY <1>0, <2>1 DEF Version
  <2>3. docs' = [docs EXCEPT ![d] = [docs[d] EXCEPT !.rev = docs[d].rev + 1]]
    BY <1>3 DEF SaveScope
  <2> QED
    BY <1>0, <2>2, <2>3
<1>4. Fault => faults' \in 0..MaxFaults
  BY PublicationAssumption DEF Fault, Typed, TypeOK
<1>5. authorized \in BOOLEAN /\ faults \in 0..MaxFaults
  BY DEF Typed, TypeOK
<1>6. CASE \E d \in Doc : CreateRevision(d)
  BY <1>1, <1>5, <1>6 DEF CreateRevision
<1>7. CASE \E d \in Doc : Indexed(d)
  BY <1>2, <1>5, <1>7 DEF Indexed, DocStatus
<1>8. CASE \E d \in Doc : SaveScope(d)
  BY <1>3, <1>5, <1>8 DEF SaveScope
<1>9. CASE \E d \in Doc : Archive(d)
  BY <1>2, <1>4, <1>5, <1>9 DEF Archive, DocStatus
<1>10. CASE RightsChange
  BY <1>0, <1>4, <1>10 DEF RightsChange
<1> QED
  BY <1>6, <1>7, <1>8, <1>9, <1>10 DEF DocStep

(* Preparing, applying, deciding and recovering.                           *)
ReviewStep ==
  \/ \E d \in Doc : PreparePublication(d)
  \/ \E i \in DOMAIN asks : SubmitPublication(i) \/ RecoverPublication(i)
  \/ \E a \in DOMAIN apps : Decide(a) \/ PrepareRecovery(a)

(* Applications are numbered within the bound.                             *)
LEMMA AppsNumbered ==
  ASSUME Typed
  PROVE  /\ DOMAIN apps \subseteq App
         /\ \A a \in DOMAIN apps : apps[a] \in Application
         /\ apps \in Seq(Application)
         /\ \A a \in App : jobs[a] \in Seq(JobStatus) /\ Len(jobs[a]) \in Nat
<1>1. apps \in Seq(Application) /\ Len(apps) <= MaxApps
  BY DEF Typed, TypeOK, Related, Application
<1>2. Len(apps) \in Nat /\ DOMAIN apps = 1..Len(apps)
      /\ \A a \in 1..Len(apps) : apps[a] \in Application
  BY <1>1
<1>3. DOMAIN apps \subseteq App
  BY <1>1, <1>2, PublicationAssumption DEF App
<1>4. \A a \in App : jobs[a] \in Seq(JobStatus)
  BY DEF Typed, TypeOK
<1> QED
  BY <1>1, <1>2, <1>3, <1>4

(* A new job has the types of a job.                                       *)
LEMMA EnqueueType ==
  ASSUME Typed, NEW a, Enqueue(a)
  PROVE  jobs' \in [App -> Seq(JobStatus)] /\ \A b \in App : b # a => jobs'[b] = jobs[b]
<1>1. \A b \in App : Append(jobs[b], "queued") \in Seq(JobStatus)
  BY AppsNumbered, AppendProperties DEF JobStatus
<1> QED
  BY <1>1, Zenon DEF Enqueue, Typed, TypeOK

(* A confirmation that is shown has the types of one.                      *)
LEMMA NewAskType ==
  ASSUME Typed, NEW ask \in Ask, NewAsk(ask), ask.op = "recover" => ask.app \in App
  PROVE  Typed'
<1>1. /\ asks' \in Seq(Ask) /\ DOMAIN asks' = 1..(Len(asks) + 1)
      /\ \A i \in 1..Len(asks) : asks'[i] = asks[i]
      /\ asks'[Len(asks) + 1] = ask
  BY AppendProperties DEF NewAsk, Typed, TypeOK
<1>2. \A i \in DOMAIN asks' : asks'[i].op = "recover" => asks'[i].app \in App
  <2> SUFFICES ASSUME NEW i \in DOMAIN asks', asks'[i].op = "recover"
               PROVE  asks'[i].app \in App
    OBVIOUS
  <2>0. asks \in Seq(Ask)
    BY DEF Typed, TypeOK
  <2>1. CASE i \in 1..Len(asks)
    BY <2>0, <2>1, <1>1 DEF Typed, Related
  <2>2. CASE i = Len(asks) + 1
    BY <2>2, <1>1
  <2> QED
    BY <2>0, <2>1, <2>2, <1>1
<1> QED
  BY <1>1, <1>2 DEF NewAsk, Typed, TypeOK, Related, Decided

(* A confirmation that is used keeps its types.                            *)
LEMMA UsedAsk ==
  ASSUME Typed, NEW i \in DOMAIN asks, NEW a \in App
  PROVE  /\ [asks[i] EXCEPT !.used = TRUE, !.app = a] \in Ask
         /\ [asks[i] EXCEPT !.used = TRUE] \in Ask
         /\ asks[i] \in Ask
<1>1. asks[i] \in Ask
  BY DEF Typed, TypeOK
<1> QED
  BY <1>1 DEF Ask

(* They keep the types.                                                    *)
LEMMA ReviewStepType ==
  ASSUME Typed, ReviewStep
  PROVE  Typed'
<1>0. apps \in Seq(Application) /\ asks \in Seq(Ask) /\ Len(apps) \in Nat /\ DOMAIN apps \subseteq App
  BY AppsNumbered DEF Typed, TypeOK
<1>1. ASSUME NEW d \in Doc, PreparePublication(d) PROVE Typed'
  <2> DEFINE ask == [op |-> "submit", doc |-> d, rev |-> docs[d].rev, seen |-> 0,
                     app |-> 0, used |-> FALSE]
  <2>1. ask \in Ask /\ ask.op # "recover"
    BY DEF Ask, Typed, TypeOK
  <2>2. NewAsk(ask)
    BY <1>1 DEF PreparePublication
  <2> HIDE DEF ask
  <2> QED
    BY <2>1, <2>2, NewAskType
<1>2. ASSUME NEW i \in DOMAIN asks, SubmitPublication(i) PROVE Typed'
  <2> DEFINE app == [doc |-> asks[i].doc, rev |-> asks[i].rev,
                     status |-> "waiting", review |-> "reviewing"]
             ask == [asks[i] EXCEPT !.used = TRUE, !.app = Len(apps) + 1]
  <2>1. Len(apps) + 1 \in App
    BY <1>0, <1>2, PublicationAssumption DEF SubmitPublication, App
  <2>2. ask \in Ask /\ asks[i] \in Ask /\ ask.op = asks[i].op
    BY <2>1, UsedAsk DEF Ask
  <2>3. app \in Application
    BY <2>2 DEF Application, Ask, AppStatus
  <2>4. apps' = Append(apps, app) /\ asks' = [asks EXCEPT ![i] = ask]
        /\ UNCHANGED <<docs, jobs, calls, authorized, faults>>
        /\ asks[i].op = "submit"
    BY <1>2 DEF SubmitPublication
  <2> HIDE DEF app, ask
  <2>5. apps' \in Seq(Application) /\ Len(apps') = Len(apps) + 1
        /\ DOMAIN apps' = 1..(Len(apps) + 1) /\ \A a \in DOMAIN apps : apps'[a] = apps[a]
    BY <1>0, <2>3, <2>4, AppendProperties
  <2>6. Len(apps') <= MaxApps
    BY <2>1, <2>5 DEF App
  <2>7. \A a : Decided(a) => Decided(a)'
    BY <1>0, <2>5 DEF Decided
  <2>8. asks' \in Seq(Ask) /\ DOMAIN asks' = DOMAIN asks
    BY <1>0, <2>2, <2>4, ChangedElement
  <2>9. \A k \in DOMAIN asks' : asks'[k].op = "recover" => asks'[k].app \in App
    BY <2>2, <2>4, <2>8 DEF Typed, Related
  <2> QED
    BY <2>4, <2>5, <2>6, <2>7, <2>8, <2>9 DEF Typed, TypeOK, Related, Application
<1>3. ASSUME NEW i \in DOMAIN asks, RecoverPublication(i) PROVE Typed'
  <2> DEFINE ask == [asks[i] EXCEPT !.used = TRUE]
  <2>1. asks[i].app \in App
    BY <1>3 DEF RecoverPublication, Typed, Related
  <2>3. ask \in Ask /\ asks[i] \in Ask /\ ask.op = asks[i].op /\ ask.app = asks[i].app
    BY <2>1, UsedAsk DEF Ask
  <2>4. asks' = [asks EXCEPT ![i] = ask] /\ UNCHANGED <<docs, apps, calls, authorized, faults>>
    BY <1>3 DEF RecoverPublication
  <2>5. jobs' \in [App -> Seq(JobStatus)] /\ \A a \in App : jobs'[a] # <<>> => Decided(a)'
    <3>1. Enqueue(asks[i].app) /\ apps[asks[i].app].review = "approved" /\ UNCHANGED apps
          /\ InDoubt(asks[i].app)
      BY <1>3 DEF RecoverPublication, MayRecover
    <3>2. Decided(asks[i].app)
      BY <2>1, <3>1 DEF InDoubt, Typed, Related
    <3> QED
      BY <3>1, <3>2, EnqueueType DEF Decided, Typed, Related
  <2> HIDE DEF ask
  <2>6. asks' \in Seq(Ask) /\ DOMAIN asks' = DOMAIN asks
    BY <1>0, <2>3, <2>4, ChangedElement
  <2>7. \A k \in DOMAIN asks' : asks'[k].op = "recover" => asks'[k].app \in App
    BY <2>3, <2>4, <2>6 DEF Typed, Related
  <2> QED
    BY <2>4, <2>5, <2>6, <2>7 DEF Typed, TypeOK, Related, Decided
<1>4. ASSUME NEW a \in DOMAIN apps, Decide(a) PROVE Typed'
  <2>1. PICK decision \in Decision : apps' = [apps EXCEPT ![a].review = decision]
    BY <1>4 DEF Decide
  <2> DEFINE app == [apps[a] EXCEPT !.review = decision]
  <2>2. app \in Application
    BY AppsNumbered DEF Application
  <2>3. apps' = [apps EXCEPT ![a] = app]
    BY <2>1
  <2>4. app.review # "reviewing"
    BY AppsNumbered DEF Application, Decision
  <2> HIDE DEF app
  <2>5. apps' \in Seq(Application) /\ Len(apps') = Len(apps) /\ DOMAIN apps' = DOMAIN apps
    BY <1>0, <2>2, <2>3, ChangedElement
  <2>6. Decided(a)' /\ \A b : Decided(b) => Decided(b)'
    BY <2>3, <2>4, <2>5 DEF Decided
  <2>7. jobs' \in [App -> Seq(JobStatus)] /\ \A b \in App : b # a => jobs'[b] = jobs[b]
    BY <1>4, EnqueueType DEF Decide, Typed, TypeOK
  <2>8. UNCHANGED <<docs, asks, calls, authorized, faults>>
    BY <1>4 DEF Decide
  <2> QED
    BY <2>5, <2>6, <2>7, <2>8 DEF Typed, TypeOK, Related, Application
<1>5. ASSUME NEW a \in DOMAIN apps, PrepareRecovery(a) PROVE Typed'
  <2> DEFINE ask == [op |-> "recover", doc |-> apps[a].doc, rev |-> apps[a].rev,
                     seen |-> Len(jobs[a]), app |-> a, used |-> FALSE]
  <2>1. a \in App /\ Len(jobs[a]) \in Nat /\ apps[a] \in Application
    BY AppsNumbered
  <2>2. ask \in Ask /\ ask.app \in App
    BY <2>1 DEF Ask, Application
  <2>3. NewAsk(ask)
    BY <1>5 DEF PrepareRecovery
  <2> HIDE DEF ask
  <2> QED
    BY <2>2, <2>3, NewAskType
<1> QED
  BY <1>1, <1>2, <1>3, <1>4, <1>5 DEF ReviewStep

(* The workers.                                                            *)
WorkerStep ==
  \/ \E a \in DOMAIN apps : \E n \in DOMAIN jobs[a] : Claim(a, n) \/ LoseLease(a, n)
  \/ \E c \in calls : CallStep(c) \/ InfrastructureFails(c) \/ Crash(c)

InMemory == [app : App, n : Nat, phase : {"called", "returned"}]

(* A job whose status changes leaves a sequence of jobs.                   *)
LEMMA SetJobType ==
  ASSUME Typed, NEW a, NEW n, NEW status \in JobStatus, SetJob(a, n, status)
  PROVE  jobs' \in [App -> Seq(JobStatus)] /\ \A b \in App : jobs'[b] # <<>> => jobs[b] # <<>>
<1>1. \A b \in App : [jobs[b] EXCEPT ![n] = status] \in Seq(JobStatus)
  BY AppsNumbered, ChangedElement
<1>2. jobs \in [App -> Seq(JobStatus)]
  BY DEF Typed, TypeOK
<1>3. \A b \in App : jobs[b] = <<>> => [jobs[b] EXCEPT ![n] = status] = <<>>
  BY <1>2
<1> QED
  BY <1>1, <1>2, <1>3 DEF SetJob

(* What a call commits changes the status of its application.              *)
LEMMA CommitType ==
  ASSUME Typed, NEW c \in calls, NEW status \in AppStatus, Commit(c, status)
  PROVE  /\ apps' \in Seq(Application) /\ Len(apps') = Len(apps) /\ DOMAIN apps' = DOMAIN apps
         /\ calls' \subseteq InMemory /\ \A k \in calls' : Decided(k.app)
         /\ \A a : Decided(a) => Decided(a)'
         /\ c.app \in DOMAIN apps /\ apps'[c.app].status = status
<1> DEFINE app == [apps[c.app] EXCEPT !.status = status]
<1>1. c.app \in DOMAIN apps /\ Decided(c.app) /\ c \in InMemory
  BY DEF Typed, TypeOK, Related, InMemory, Decided
<1>2. app \in Application /\ app.status = status /\ app.review = apps[c.app].review
  BY <1>1, AppsNumbered DEF Application
<1>3. apps' = [apps EXCEPT ![c.app] = app]
  BY DEF Commit
<1> HIDE DEF app
<1>4. apps' \in Seq(Application) /\ Len(apps') = Len(apps) /\ DOMAIN apps' = DOMAIN apps
  BY <1>2, <1>3, AppsNumbered, ChangedElement
<1>5. [c EXCEPT !.phase = "returned"] \in InMemory /\ [c EXCEPT !.phase = "returned"].app = c.app
  BY <1>1 DEF InMemory
<1>6. calls' = (calls \ {c}) \cup {[c EXCEPT !.phase = "returned"]}
  BY DEF Commit
<1>7. calls' \subseteq InMemory /\ \A k \in calls' : Decided(k.app)
  BY <1>1, <1>5, <1>6 DEF Typed, TypeOK, Related, InMemory
<1>8. \A a : Decided(a) => Decided(a)'
  BY <1>2, <1>3, <1>4 DEF Decided
<1> QED
  BY <1>1, <1>2, <1>3, <1>4, <1>7, <1>8

(* A call that throws leaves the memory and may leave its job uncertain.   *)
LEMMA ThrowType ==
  ASSUME Typed, NEW c \in calls, Throw(c), faults' \in 0..MaxFaults
  PROVE  Typed'
<1>1. jobs' \in [App -> Seq(JobStatus)] /\ \A b \in App : jobs'[b] # <<>> => jobs[b] # <<>>
  <2>1. CASE jobs[c.app][c.n] = "running"
    BY <2>1, SetJobType DEF Throw, SetJob, JobStatus
  <2>2. CASE jobs[c.app][c.n] # "running"
    BY <2>2 DEF Throw, Typed, TypeOK
  <2> QED
    BY <2>1, <2>2
<1> QED
  BY <1>1 DEF Throw, Typed, TypeOK, Related, Decided

(* Publishing keeps the versions versions.                                 *)
LEMMA PublishType ==
  ASSUME docs \in [Doc -> Version], NEW d \in Doc, Publish(d)
  PROVE  docs' \in [Doc -> Version]
<1>1. \A e \in Doc : /\ [docs[e] EXCEPT !.status = "published"] \in Version
                     /\ [docs[e] EXCEPT !.status = "archived"] \in Version
                     /\ docs[e] \in Version
  BY VersionStatus DEF DocStatus
<1> QED
  BY <1>1, Zenon DEF Publish

(* Every outcome of executePublication: it publishes, throws, or commits a *)
(* status and leaves the versions alone.                                   *)
LEMMA ExecuteOutcome ==
  ASSUME Typed, NEW c \in calls, ExecutePublication(c)
  PROVE  \/ Throw(c) /\ UNCHANGED faults
         \/ UNCHANGED docs /\ \E status \in AppStatus : Commit(c, status)
         \/ /\ Publish(apps[c.app].doc) /\ Commit(c, "published")
            /\ apps[c.app].status = "waiting" /\ apps[c.app].review = "approved"
            /\ MaterialHolds(apps[c.app]) /\ ActiveAsExpected(apps[c.app].doc)
<1>1. apps[c.app] \in Application /\ apps[c.app].review # "reviewing"
  BY AppsNumbered DEF Typed, Related, Decided
<1>2. CASE apps[c.app].status # "waiting"
  BY <1>1, <1>2 DEF ExecutePublication, Application
<1>3. CASE apps[c.app].status = "waiting" /\ Close(c)
  <2>1. apps[c.app].review \in AppStatus
    BY <1>1, <1>3 DEF Application, Decision, AppStatus, Close
  <2> QED
    BY <1>3, <2>1 DEF Close
<1>4. CASE apps[c.app].status = "waiting" /\ ExecuteApproved(c)
  BY <1>4, Zenon DEF ExecuteApproved, AppStatus
<1> QED
  BY <1>2, <1>3, <1>4 DEF ExecutePublication

(* The steps of the workers keep the types.                                *)
LEMMA WorkerStepType ==
  ASSUME Typed, WorkerStep
  PROVE  Typed'
<1>0. Fault => faults' \in 0..MaxFaults
  BY PublicationAssumption DEF Fault, Typed, TypeOK
<1>00. faults \in 0..MaxFaults
  BY DEF Typed, TypeOK
<1>1. ASSUME NEW a \in DOMAIN apps, NEW n \in DOMAIN jobs[a], Claim(a, n) PROVE Typed'
  <2>1. a \in App /\ n \in Nat /\ jobs[a] # <<>>
    BY AppsNumbered
  <2>2. Decided(a) /\ [app |-> a, n |-> n, phase |-> "called"] \in InMemory
    BY <2>1 DEF InMemory, Typed, Related
  <2>3. jobs' \in [App -> Seq(JobStatus)] /\ \A b \in App : jobs'[b] # <<>> => jobs[b] # <<>>
    BY <1>1, SetJobType DEF Claim, JobStatus
  <2> QED
    BY <1>1, <2>2, <2>3 DEF Claim, Typed, TypeOK, Related, InMemory, Decided
<1>2. ASSUME NEW a \in DOMAIN apps, NEW n \in DOMAIN jobs[a], LoseLease(a, n) PROVE Typed'
  <2>1. jobs' \in [App -> Seq(JobStatus)] /\ \A b \in App : jobs'[b] # <<>> => jobs[b] # <<>>
    BY <1>2, SetJobType DEF LoseLease, JobStatus
  <2>2. faults' \in 0..MaxFaults
    BY <1>0, <1>00, <1>2 DEF LoseLease
  <2> QED
    BY <1>2, <2>1, <2>2 DEF LoseLease, Typed, TypeOK, Related, Decided
<1>3. ASSUME NEW c \in calls, ExecutePublication(c) PROVE Typed'
  <2>1. CASE Throw(c) /\ UNCHANGED faults
    BY <1>00, <2>1, ThrowType
  <2>2. docs \in [Doc -> Version] /\ c.app \in DOMAIN apps
    BY DEF Typed, TypeOK, Related, Version, Decided
  <2>3. ASSUME NEW status \in AppStatus, Commit(c, status), docs' \in [Doc -> Version]
        PROVE  Typed'
    BY <2>3, CommitType DEF Commit, Typed, TypeOK, Related, InMemory, Version, Application, Decided
  <2>4. CASE UNCHANGED docs /\ \E status \in AppStatus : Commit(c, status)
    BY <2>2, <2>3, <2>4
  <2>5. CASE Publish(apps[c.app].doc) /\ Commit(c, "published")
    <3>1. apps[c.app].doc \in Doc /\ "published" \in AppStatus
      BY <2>2, AppsNumbered DEF Application, AppStatus
    <3> QED
      BY <2>2, <2>3, <2>5, <3>1, PublishType
  <2> QED
    BY <1>3, <2>1, <2>4, <2>5, ExecuteOutcome
<1>4. ASSUME NEW c \in calls, CompleteJob(c) PROVE Typed'
  <2>1. jobs' \in [App -> Seq(JobStatus)] /\ \A b \in App : jobs'[b] # <<>> => jobs[b] # <<>>
    <3>1. CASE jobs[c.app][c.n] = "running"
      BY <1>4, <3>1, SetJobType DEF CompleteJob, SetJob, JobStatus
    <3>2. CASE jobs[c.app][c.n] # "running"
      BY <1>4, <3>2 DEF CompleteJob, Typed, TypeOK
    <3> QED
      BY <3>1, <3>2
  <2> QED
    BY <1>4, <2>1 DEF CompleteJob, Typed, TypeOK, Related, Decided
<1>5. ASSUME NEW c \in calls, InfrastructureFails(c) PROVE Typed'
  BY <1>0, <1>5, ThrowType DEF InfrastructureFails
<1>6. ASSUME NEW c \in calls, Crash(c) PROVE Typed'
  BY <1>0, <1>6 DEF Crash, Typed, TypeOK, Related, Decided
<1> QED
  BY <1>1, <1>2, <1>3, <1>4, <1>5, <1>6 DEF WorkerStep, CallStep

(* The parts of the next-state relation.                                   *)
LEMMA Steps == Next => DocStep \/ ReviewStep \/ WorkerStep
BY DEF Next, DocStep, ReviewStep, WorkerStep

(* The types, and the jobs and calls of decided applications only, hold in *)
(* every reachable state.                                                  *)
LEMMA TypedInvariant == Spec => []Typed
<1>1. Init => Typed
  BY PublicationAssumption DEF Init, Typed, TypeOK, Related, DocStatus
<1>2. Typed /\ [Next]_vars => Typed'
  <2>1. Typed /\ UNCHANGED vars => Typed'
    BY DEF vars, Typed, TypeOK, Related, Decided
  <2> QED
    BY <2>1, Steps, DocStepType, ReviewStepType, WorkerStepType
<1> QED
  BY <1>1, <1>2, PTL DEF Spec

(* Every reachable state of the documents, applications, confirmations and *)
(* jobs is well typed.                                                     *)
THEOREM TypeCorrect == Spec => []TypeOK
<1>1. Typed => TypeOK
  BY DEF Typed
<1> QED
  BY <1>1, TypedInvariant, PTL

-----------------------------------------------------------------------------
(* Publications.                                                           *)

(* What publishing changes: the version comes into force, and nothing else *)
(* is.                                                                     *)
LEMMA PublishReplaces ==
  ASSUME docs \in [Doc -> Version], NEW d \in Doc, Publish(d)
  PROVE  /\ InForce' = {d} /\ docs'[d].rev = docs[d].rev
         /\ \A e \in Doc \ {d} : docs'[e].status # "published"
<1>1. docs'[d] = [docs[d] EXCEPT !.status = "published"]
  BY DEF Publish
<1>2. docs'[d].status = "published" /\ docs'[d].rev = docs[d].rev
  BY <1>1 DEF Version
<1>3. ASSUME NEW e \in Doc \ {d} PROVE docs'[e].status # "published"
  <2>1. CASE e \in InForce
    <3>1. docs'[e] = [docs[e] EXCEPT !.status = "archived"]
      BY <2>1, <1>3 DEF Publish
    <3> QED
      BY <3>1 DEF Version
  <2>2. CASE e \notin InForce
    <3>1. docs'[e] = docs[e]
      BY <2>2, <1>3 DEF Publish
    <3> QED
      BY <2>2, <3>1 DEF InForce
  <2> QED
    BY <2>1, <2>2
<1> QED
  BY <1>2, <1>3 DEF InForce

(* No other step brings a version into force.                              *)
LEMMA OnlyExecutePublishes ==
  ASSUME Typed, [Next]_vars, ~ \E c \in calls : ExecutePublication(c),
         NEW d \in Doc, docs'[d].status = "published"
  PROVE  docs[d].status = "published"
<1>0. docs \in [Doc -> Version]
  BY DEF Typed, TypeOK, Version
<1>1. CASE UNCHANGED docs
  BY <1>1
<1>2. ASSUME NEW e \in Doc, NEW status \in DocStatus \ {"published"}, SetDoc(e, status)
      PROVE  docs[d].status = "published"
  <2>1. [docs[e] EXCEPT !.status = status].status = status
    BY <1>0 DEF Version
  <2>2. docs' = [docs EXCEPT ![e] = [docs[e] EXCEPT !.status = status]]
    BY <1>2 DEF SetDoc
  <2> QED
    BY <1>0, <2>1, <2>2
<1>3. ASSUME NEW e \in Doc, CreateRevision(e) PROVE docs[d].status = "published"
  <2>1. PICK x \in InForce \cup {None} :
          docs' = [docs EXCEPT ![e] = [docs[e] EXCEPT !.status = "draft", !.expected = x]]
    BY <1>3 DEF CreateRevision
  <2>2. [docs[e] EXCEPT !.status = "draft", !.expected = x].status = "draft"
    BY <1>0 DEF Version
  <2> QED
    BY <1>0, <2>1, <2>2
<1>4. ASSUME NEW e \in Doc, SaveScope(e) PROVE docs[d].status = "published"
  <2>1. docs' = [docs EXCEPT ![e] = [docs[e] EXCEPT !.rev = docs[e].rev + 1]]
    BY <1>4 DEF SaveScope
  <2>2. ASSUME NEW n PROVE [docs[e] EXCEPT !.rev = n].status = docs[e].status
    BY <1>0 DEF Version
  <2> QED
    BY <1>0, <2>1, <2>2
<1>5. CASE DocStep
  BY <1>1, <1>2, <1>3, <1>4, <1>5
  DEF DocStep, Indexed, Archive, RightsChange, DocStatus
<1>6. CASE ReviewStep
  BY <1>1, <1>6 DEF ReviewStep, PreparePublication, PrepareRecovery, NewAsk,
     SubmitPublication, RecoverPublication, Decide
<1>7. CASE WorkerStep
  BY <1>1, <1>7 DEF WorkerStep, Claim, LoseLease, CallStep, CompleteJob,
     InfrastructureFails, Throw, Crash
<1>8. CASE UNCHANGED vars
  BY <1>1, <1>8 DEF vars
<1> QED
  BY <1>5, <1>6, <1>7, <1>8, Steps

(* What the transaction that publishes has decided on.                     *)
LEMMA ExecuteReplaces ==
  ASSUME Typed, NEW c \in calls, ExecutePublication(c),
         NEW d \in Doc, docs'[d].status = "published", docs[d].status # "published"
  PROVE  /\ Publish(d) /\ Commit(c, "published")
         /\ c.app \in DOMAIN apps /\ apps[c.app].doc = d /\ apps[c.app].review = "approved"
         /\ apps[c.app].rev = docs'[d].rev /\ apps[c.app].status = "waiting"
         /\ ActiveAsExpected(d) /\ InForce' = {d}
<1>0. docs \in [Doc -> Version] /\ c.app \in DOMAIN apps
  BY DEF Typed, TypeOK, Version, Related, Decided
<1>1. docs' # docs
  OBVIOUS
<1>2. /\ Publish(apps[c.app].doc) /\ Commit(c, "published")
      /\ apps[c.app].status = "waiting" /\ apps[c.app].review = "approved"
      /\ MaterialHolds(apps[c.app]) /\ ActiveAsExpected(apps[c.app].doc)
  BY <1>1, ExecuteOutcome DEF Throw
<1>3. apps[c.app].doc \in Doc
  BY <1>0, AppsNumbered DEF Application
<1>4. apps[c.app].doc = d
  BY <1>0, <1>2, <1>3, PublishReplaces
<1>5. apps[c.app].rev = docs[d].rev
  BY <1>2, <1>4 DEF MaterialHolds
<1> QED
  BY <1>0, <1>2, <1>3, <1>4, <1>5, PublishReplaces

(* A version comes into force by the approval of its very material and     *)
(* over the version it was made from, for any number of revisions, delayed *)
(* and recovered jobs.                                                     *)
THEOREM ReplacesWhatItExpectedAlways == Spec => ReplacesWhatItExpected
<1> DEFINE Replaced(d) ==
      (docs'[d].status = "published" /\ docs[d].status # "published") =>
         /\ \E a \in DOMAIN apps :
              /\ apps[a].doc = d /\ apps[a].review = "approved"
              /\ apps[a].rev = docs'[d].rev
              /\ apps[a].status = "waiting" /\ apps'[a].status = "published"
         /\ InForce = {docs[d].expected} \ {None}
         /\ InForce' = {d}
<1>1. Typed /\ [Next]_vars => [\A d \in Doc : Replaced(d)]_vars
  <2> SUFFICES ASSUME Typed, [Next]_vars, NEW d \in Doc,
                      docs'[d].status = "published", docs[d].status # "published"
               PROVE  Replaced(d)
    OBVIOUS
  <2>1. PICK c \in calls : ExecutePublication(c)
    BY OnlyExecutePublishes
  <2>2. /\ Publish(d) /\ Commit(c, "published")
        /\ c.app \in DOMAIN apps /\ apps[c.app].doc = d /\ apps[c.app].review = "approved"
        /\ apps[c.app].rev = docs'[d].rev /\ apps[c.app].status = "waiting"
        /\ ActiveAsExpected(d) /\ InForce' = {d}
    BY <2>1, ExecuteReplaces
  <2>3. apps'[c.app].status = "published"
    BY <2>2, CommitType DEF AppStatus
  <2> QED
    BY <2>2, <2>3 DEF ActiveAsExpected
<1> QED
  BY <1>1, TypedInvariant, PTL DEF Spec, ReplacesWhatItExpected

(* One version of a document at most is in force.                          *)
OneInForce == \A d, e \in InForce : d = e

(* No sequence of revisions, publications, archivings and recoveries puts  *)
(* two versions of a document in force.                                    *)
THEOREM OneInForceAlways == Spec => []OneInForce
<1>1. Init => OneInForce
  BY DEF Init, OneInForce, InForce
<1>2. Typed /\ OneInForce /\ [Next]_vars => OneInForce'
  <2> SUFFICES ASSUME Typed, OneInForce, [Next]_vars PROVE OneInForce'
    OBVIOUS
  <2>1. CASE \E d \in Doc : docs'[d].status = "published" /\ docs[d].status # "published"
    <3>1. PICK d \in Doc : docs'[d].status = "published" /\ docs[d].status # "published"
      BY <2>1
    <3>2. PICK c \in calls : ExecutePublication(c)
      BY <3>1, OnlyExecutePublishes
    <3> QED
      BY <3>1, <3>2, ExecuteReplaces DEF OneInForce
  <2>2. CASE \A d \in Doc : docs'[d].status = "published" => docs[d].status = "published"
    BY <2>2 DEF OneInForce, InForce
  <2> QED
    BY <2>1, <2>2
<1> QED
  BY <1>1, <1>2, TypedInvariant, PTL DEF Spec

-----------------------------------------------------------------------------
(* Receipts.                                                               *)

(* The application says that the version was published with this material. *)
ReceiptFor(a, d) ==
  apps[a].doc = d /\ apps[a].rev = docs[d].rev /\ apps[a].status = "published"

(* The steps but that of executePublication take no receipt back.          *)
LEMMA ReceiptStays ==
  ASSUME Typed, [Next]_vars, ~ \E c \in calls : ExecutePublication(c),
         NEW a \in DOMAIN apps, NEW d \in InForce, ReceiptFor(a, d)
  PROVE  a \in DOMAIN apps' /\ apps'[a].doc = d /\ apps'[a].status = "published"
         /\ apps'[a].rev = apps[a].rev
<1>0. apps \in Seq(Application)
  BY AppsNumbered
<1>1. CASE UNCHANGED apps
  BY <1>1 DEF ReceiptFor
<1>2. ASSUME NEW x, apps' = Append(apps, x) PROVE a \in DOMAIN apps' /\ apps'[a] = apps[a]
  BY <1>0, <1>2
<1>3. ASSUME NEW b \in DOMAIN apps, NEW x, apps' = [apps EXCEPT ![b].review = x]
      PROVE  a \in DOMAIN apps' /\ apps'[a].doc = apps[a].doc
             /\ apps'[a].status = apps[a].status /\ apps'[a].rev = apps[a].rev
  <2>1. apps' = [apps EXCEPT ![b] = [apps[b] EXCEPT !.review = x]]
    BY <1>3
  <2>2. apps[b] \in Application
    BY AppsNumbered
  <2>3. LET app == [apps[b] EXCEPT !.review = x] IN
        app.doc = apps[b].doc /\ app.status = apps[b].status /\ app.rev = apps[b].rev
    BY <2>2 DEF Application
  <2> QED
    BY <1>0, <2>1, <2>3
<1>4. CASE DocStep
  BY <1>1, <1>4 DEF DocStep, CreateRevision, Indexed, SaveScope, Archive, RightsChange
<1>5. CASE ReviewStep
  BY <1>1, <1>2, <1>3, <1>5 DEF ReviewStep, PreparePublication, PrepareRecovery, NewAsk,
     SubmitPublication, RecoverPublication, Decide, ReceiptFor
<1>6. CASE WorkerStep
  BY <1>1, <1>6 DEF WorkerStep, Claim, LoseLease, CallStep, CompleteJob,
     InfrastructureFails, Throw, Crash
<1>7. CASE UNCHANGED vars
  BY <1>1, <1>7 DEF vars
<1> QED
  BY <1>4, <1>5, <1>6, <1>7, Steps

(* They do not change the material of a version that stays in force.       *)
LEMMA MaterialStays ==
  ASSUME Typed, [Next]_vars, ~ \E c \in calls : ExecutePublication(c),
         NEW d \in Doc, docs'[d].status = "published"
  PROVE  docs'[d].rev = docs[d].rev
<1>0. docs \in [Doc -> Version] /\ docs[d].status = "published"
  BY OnlyExecutePublishes DEF Typed, TypeOK, Version
<1>1. CASE UNCHANGED docs
  BY <1>1
<1>2. ASSUME NEW e \in Doc, NEW status, SetDoc(e, status) PROVE docs'[d].rev = docs[d].rev
  <2>1. docs' = [docs EXCEPT ![e] = [docs[e] EXCEPT !.status = status]]
    BY <1>2 DEF SetDoc
  <2>2. [docs[e] EXCEPT !.status = status].rev = docs[e].rev
    BY <1>0 DEF Version
  <2> QED
    BY <1>0, <2>1, <2>2
<1>3. ASSUME NEW e \in Doc, CreateRevision(e) \/ SaveScope(e) PROVE docs'[d] = docs[d]
  BY <1>0, <1>3 DEF CreateRevision, SaveScope
<1>4. CASE DocStep
  BY <1>1, <1>2, <1>3, <1>4 DEF DocStep, Indexed, Archive, RightsChange
<1>5. CASE ReviewStep
  BY <1>1, <1>5 DEF ReviewStep, PreparePublication, PrepareRecovery, NewAsk,
     SubmitPublication, RecoverPublication, Decide
<1>6. CASE WorkerStep
  BY <1>1, <1>6 DEF WorkerStep, Claim, LoseLease, CallStep, CompleteJob,
     InfrastructureFails, Throw, Crash
<1>7. CASE UNCHANGED vars
  BY <1>1, <1>7 DEF vars
<1> QED
  BY <1>4, <1>5, <1>6, <1>7, Steps

(* executePublication gives a receipt to what it publishes, and overwrites *)
(* none.                                                                   *)
LEMMA ExecuteKeepsReceipts ==
  ASSUME Typed, InForceHasReceipt, NEW c \in calls, ExecutePublication(c)
  PROVE  InForceHasReceipt'
<1>0. docs \in [Doc -> Version] /\ c.app \in DOMAIN apps
  BY DEF Typed, TypeOK, Version, Related, Decided
<1>1. apps[c.app] \in Application
  BY <1>0, AppsNumbered
<1>2. ASSUME NEW d \in Doc, docs'[d].status = "published", docs[d].status # "published"
      PROVE  InForceHasReceipt'
  <2>1. /\ Commit(c, "published") /\ apps[c.app].doc = d
        /\ apps[c.app].rev = docs'[d].rev /\ InForce' = {d}
    BY <1>2, ExecuteReplaces
  <2>2. apps' = [apps EXCEPT ![c.app] = [apps[c.app] EXCEPT !.status = "published"]]
    BY <2>1 DEF Commit
  <2>3. LET app == [apps[c.app] EXCEPT !.status = "published"] IN
        app.doc = apps[c.app].doc /\ app.rev = apps[c.app].rev /\ app.status = "published"
    BY <1>1 DEF Application
  <2>4. c.app \in DOMAIN apps' /\ apps'[c.app] = [apps[c.app] EXCEPT !.status = "published"]
    BY <1>0, <2>2, AppsNumbered
  <2>5. apps'[c.app].doc = d /\ apps'[c.app].rev = docs'[d].rev
        /\ apps'[c.app].status = "published"
    BY <2>1, <2>3, <2>4
  <2> SUFFICES ASSUME NEW e \in InForce'
               PROVE  \E a \in DOMAIN apps' : /\ apps'[a].doc = e /\ apps'[a].rev = docs'[e].rev
                                              /\ apps'[a].status = "published"
    BY DEF InForceHasReceipt
  <2>6. e = d
    BY <2>1
  <2> QED
    BY <2>4, <2>5, <2>6
<1>3. CASE \A d \in Doc : docs'[d].status = "published" => docs[d].status = "published"
  <2>1. CASE Throw(c)
    BY <2>1 DEF Throw, InForceHasReceipt, InForce
  <2>2. ASSUME UNCHANGED docs, NEW status \in AppStatus, Commit(c, status),
               apps[c.app].status = "published" => status = "published"
        PROVE  InForceHasReceipt'
    <3>1. apps' = [apps EXCEPT ![c.app] = [apps[c.app] EXCEPT !.status = status]]
      BY <2>2 DEF Commit
    <3>2. LET app == [apps[c.app] EXCEPT !.status = status] IN
          app.doc = apps[c.app].doc /\ app.rev = apps[c.app].rev /\ app.status = status
      BY <1>1 DEF Application
    <3>3. DOMAIN apps' = DOMAIN apps
      BY <2>2, CommitType
    <3>4. ASSUME NEW a \in DOMAIN apps, NEW d, ReceiptFor(a, d)
          PROVE  apps'[a].doc = d /\ apps'[a].rev = docs'[d].rev /\ apps'[a].status = "published"
      <4>1. CASE a = c.app
        BY <1>0, <2>2, <3>1, <3>2, <3>4, <4>1, AppsNumbered DEF ReceiptFor
      <4>2. CASE a # c.app
        BY <1>0, <2>2, <3>1, <3>4, <4>2, AppsNumbered DEF ReceiptFor
      <4> QED
        BY <4>1, <4>2
    <3> QED
      BY <2>2, <3>3, <3>4 DEF InForceHasReceipt, InForce, ReceiptFor
  <2>3. CASE apps[c.app].status # "waiting"
    BY <1>1, <2>2, <2>3 DEF ExecutePublication, Application
  <2>4. CASE apps[c.app].status = "waiting" /\ UNCHANGED docs /\ \E status \in AppStatus : Commit(c, status)
    BY <2>2, <2>4
  <2>5. CASE Publish(apps[c.app].doc) /\ MaterialHolds(apps[c.app])
    <3>1. apps[c.app].doc \in Doc /\ docs[apps[c.app].doc].status = "pending_review"
      BY <1>1, <2>5 DEF Application, MaterialHolds
    <3>2. docs'[apps[c.app].doc].status = "published"
      BY <1>0, <2>5, <3>1, PublishReplaces DEF InForce
    <3> QED
      BY <1>3, <3>1, <3>2
  <2> QED
    BY <2>1, <2>3, <2>4, <2>5, ExecuteOutcome
<1> QED
  BY <1>2, <1>3

(* The version in force has the receipt of an application of its material, *)
(* whatever calls of lost leases end late and however often a publication  *)
(* is recovered.                                                           *)
THEOREM InForceHasReceiptAlways == Spec => []InForceHasReceipt
<1>1. Init => InForceHasReceipt
  BY DEF Init, InForceHasReceipt, InForce
<1>2. Typed /\ InForceHasReceipt /\ [Next]_vars => InForceHasReceipt'
  <2> SUFFICES ASSUME Typed, InForceHasReceipt, [Next]_vars PROVE InForceHasReceipt'
    OBVIOUS
  <2>1. CASE \E c \in calls : ExecutePublication(c)
    BY <2>1, ExecuteKeepsReceipts
  <2>2. CASE ~ \E c \in calls : ExecutePublication(c)
    <3> SUFFICES ASSUME NEW d \in Doc, docs'[d].status = "published"
                 PROVE  \E a \in DOMAIN apps' :
                          /\ apps'[a].doc = d /\ apps'[a].rev = docs'[d].rev
                          /\ apps'[a].status = "published"
      BY DEF InForceHasReceipt, InForce
    <3>1. d \in InForce /\ docs'[d].rev = docs[d].rev
      BY <2>2, OnlyExecutePublishes, MaterialStays DEF InForce
    <3>2. PICK a \in DOMAIN apps : ReceiptFor(a, d)
      BY <3>1 DEF InForceHasReceipt, ReceiptFor
    <3> QED
      BY <2>2, <3>1, <3>2, ReceiptStays DEF ReceiptFor
  <2> QED
    BY <2>1, <2>2
<1> QED
  BY <1>1, <1>2, TypedInvariant, PTL DEF Spec
=============================================================================
