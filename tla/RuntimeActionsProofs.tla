------------------------ MODULE RuntimeActionsProofs ------------------------
(***************************************************************************)
(* A confirmed runtime action is one external effect, for every set of     *)
(* executions and every number of lost leases and crashes.  The            *)
(* argument: only the claim leads to the submission, the claim succeeds    *)
(* once in the life of an action, and whoever holds it knows whether it    *)
(* sent a request, or had the write queued as a crawl instead.             *)
(***************************************************************************)
EXTENDS RuntimeActions, TLAPS

(* The state's types hold in every reachable state.                        *)
LEMMA StepType ==
  ASSUME TypeOK, NEW e \in Exec, Step(e)
  PROVE  TypeOK'
<1> USE DEF TypeOK, Phase, Goto, At, remote
<1>1. CASE ReadAction(e)
  BY <1>1 DEF ReadAction
<1>2. CASE RejectPendingRuntimeAction(e)
  BY <1>2 DEF RejectPendingRuntimeAction
<1>3. CASE FailBeforeClaim(e)
  BY <1>3 DEF FailBeforeClaim
<1>4. CASE ClaimRuntimeAction(e)
  BY <1>4 DEF ClaimRuntimeAction
<1>5. CASE WaitForTerminal(e)
  BY <1>5 DEF WaitForTerminal
<1>6. CASE Dispatch(e)
  BY <1>6 DEF Dispatch
<1>7. CASE RemoteAnswers(e)
  BY <1>7 DEF RemoteAnswers
<1>8. CASE FinishRuntimeAction(e)
  BY <1>8 DEF FinishRuntimeAction, Finished
<1>9. CASE FailAfterClaim(e)
  BY <1>9 DEF FailAfterClaim, Finished, Failed, Undispatched, Submitting
<1>10. CASE EndJob(e)
  BY <1>10 DEF EndJob
<1>11. CASE QueueCrawl(e)
  BY <1>11 DEF QueueCrawl
<1> QED
  BY <1>1, <1>2, <1>3, <1>4, <1>5, <1>6, <1>7, <1>8, <1>9, <1>10, <1>11 DEF Step

(* The action's state, its operation and every execution stay well typed,  *)
(* whatever confirmations, lost leases and crashes interleave.             *)
THEOREM TypeCorrect == Spec => []TypeOK
<1>1. Init => TypeOK
  BY DEF Init, TypeOK, Phase
<1>2. TypeOK /\ [Next]_vars => TypeOK'
  <2> SUFFICES ASSUME TypeOK, [Next]_vars PROVE TypeOK'
    OBVIOUS
  <2> USE DEF remote
  <2>1. CASE Confirm \/ Cancel \/ ChangeBinding \/ LoseLease
    BY <2>1, ActionAssumption
       DEF TypeOK, Confirm, Cancel, ChangeBinding, LoseLease
  <2>2. ASSUME NEW e \in Exec, StartJob(e) \/ ConfirmDirectly(e) PROVE TypeOK'
    BY <2>2 DEF TypeOK, Phase, StartJob, ConfirmDirectly, At, Goto
  <2>3. ASSUME NEW e \in Exec, RemoteExecutes(e) PROVE TypeOK'
    BY <2>3 DEF TypeOK, RemoteExecutes
  <2>4. ASSUME NEW e \in Exec, Crash(e) PROVE TypeOK'
    BY <2>4 DEF TypeOK, Phase, Crash, At, Goto
  <2>5. CASE StartQueuedCrawl
    BY <2>5 DEF TypeOK, StartQueuedCrawl
  <2>6. CASE UNCHANGED vars
    BY <2>6 DEF TypeOK, vars
  <2> QED
    BY <2>1, <2>2, <2>3, <2>4, <2>5, <2>6, StepType DEF Next
<1> QED
  BY <1>1, <1>2, PTL DEF Spec

Sent == wire # {} \/ times = 1

(* There is at most one request, under way or carried out, never both, and *)
(* none besides a queued crawl.                                            *)
OneRequest ==
  /\ times = 0 \/ (times = 1 /\ wire = {})
  /\ \A e, f \in wire : e = f
  /\ reached # {} => times = 1
  /\ crawl # "none" => wire = {} /\ times = 0 /\ reached = {}

(* What the state of the action says of the request.                       *)
StateOK ==
  /\ action \in {"pending", "rejected", "cancelled"} => wire = {} /\ times = 0
  /\ action \in {"pending", "cancelled"} => crawl = "none"
  /\ action = "succeeded" => times = 1 \/ crawl # "none"
  /\ job.status = "succeeded" => Sent \/ crawl # "none"
  /\ job.status = "failed" => action = "rejected"

(* What the place an execution has reached says of it.                     *)
PhaseOK ==
  /\ \A e \in Exec : execs[e].phase \in Submitting => action = "dispatching"
  /\ \A e, f \in Exec :
       execs[e].phase \in Submitting /\ execs[f].phase \in Submitting => e = f
  /\ \A e \in Exec : At(e, "claimed") => wire = {} /\ times = 0 /\ crawl = "none"
  /\ \A e \in Exec : At(e, "queued") => crawl # "none"
  /\ \A e \in Exec :
       execs[e].phase \in {"sent", "answered", "refusedByRemote"} => crawl = "none"
  /\ \A e \in Exec : At(e, "answered") => times = 1
  /\ \A e \in Exec : At(e, "refusedByRemote") => Sent
  /\ \A e \in Exec : At(e, "returned") => Sent \/ crawl # "none"
  /\ \A e \in Exec : At(e, "notDispatched") => action = "rejected"

ActionOK == OneRequest /\ StateOK /\ PhaseOK

(* Every step of an execution keeps ActionOK.                              *)
LEMMA StepOK ==
  ASSUME TypeOK, ActionOK, NEW e \in Exec, Step(e)
  PROVE  ActionOK'
<1> USE DEF ActionOK, OneRequest, StateOK, PhaseOK, Sent, Submitting, TypeOK, Goto, At,
            remote
<1>1. CASE ReadAction(e)
  BY <1>1 DEF ReadAction
<1>2. CASE RejectPendingRuntimeAction(e)
  BY <1>2 DEF RejectPendingRuntimeAction
<1>3. CASE FailBeforeClaim(e)
  BY <1>3 DEF FailBeforeClaim
<1>4. CASE ClaimRuntimeAction(e)
  BY <1>4 DEF ClaimRuntimeAction
<1>5. CASE WaitForTerminal(e)
  BY <1>5 DEF WaitForTerminal
<1>6. CASE Dispatch(e)
  BY <1>6 DEF Dispatch
<1>7. CASE RemoteAnswers(e)
  <2>1. PICK phase \in {"answered", "refusedByRemote"} :
          /\ execs' = [execs EXCEPT ![e].phase = phase]
          /\ phase = "answered" => times = 1
    BY <1>7 DEF RemoteAnswers
  <2>2. UNCHANGED <<action, job, wire, reached, times, crawl>> /\ At(e, "sent") /\ Sent
    BY <1>7 DEF RemoteAnswers
  <2>3. OneRequest' /\ StateOK'
    BY <2>2
  <2>4. PhaseOK'
    BY <2>1, <2>2
  <2> QED
    BY <2>3, <2>4
<1>8. CASE FinishRuntimeAction(e)
  <2>1. action = "dispatching" /\ UNCHANGED <<job, wire, reached, times, crawl>>
    BY <1>8 DEF FinishRuntimeAction
  <2>2. /\ execs[e].phase \in {"queued", "answered"} => times = 1 \/ crawl # "none"
        /\ At(e, "refusedByRemote") => Sent
    OBVIOUS
  <2>3. /\ action' = "succeeded" => times = 1 \/ crawl # "none"
        /\ action' \in {"succeeded", "uncertain"}
        /\ Sent \/ crawl # "none"
    BY <1>8, <2>1, <2>2 DEF FinishRuntimeAction, Finished
  <2>4. PICK phase \in {"returned", "threw"} :
          execs' = [execs EXCEPT ![e].phase = phase]
    BY <1>8 DEF FinishRuntimeAction
  <2>5. OneRequest' /\ StateOK'
    BY <2>1, <2>3
  <2>6. \A f \in Exec \ {e} : execs[f].phase \notin Submitting
    BY <1>8 DEF FinishRuntimeAction
  <2>7. PhaseOK'
    BY <2>1, <2>3, <2>4, <2>6
  <2> QED
    BY <2>5, <2>7
<1>9. CASE FailAfterClaim(e)
  BY <1>9 DEF FailAfterClaim, Finished, Failed, Undispatched, Submitting
<1>10. CASE EndJob(e)
  BY <1>10 DEF EndJob
<1>11. CASE QueueCrawl(e)
  BY <1>11 DEF QueueCrawl
<1> QED
  BY <1>1, <1>2, <1>3, <1>4, <1>5, <1>6, <1>7, <1>8, <1>9, <1>10, <1>11 DEF Step

(* So does every step of the system.                                       *)
LEMMA NextOK ==
  ASSUME TypeOK, ActionOK, [Next]_vars
  PROVE  ActionOK'
<1> USE DEF ActionOK, OneRequest, StateOK, PhaseOK, Sent, Submitting, TypeOK, remote
<1>1. CASE Confirm
  BY <1>1 DEF Confirm, At
<1>2. CASE Cancel
  BY <1>2 DEF Cancel, At
<1>3. CASE ChangeBinding
  BY <1>3 DEF ChangeBinding, At
<1>4. CASE LoseLease
  BY <1>4 DEF LoseLease, At
<1>5. ASSUME NEW e \in Exec, ConfirmDirectly(e) PROVE ActionOK'
  BY <1>5 DEF ConfirmDirectly, At, Goto
<1>6. ASSUME NEW e \in Exec, StartJob(e) PROVE ActionOK'
  BY <1>6 DEF StartJob, At, Goto
<1>7. ASSUME NEW e \in Exec, RemoteExecutes(e) PROVE ActionOK'
  BY <1>7 DEF RemoteExecutes, At
<1>8. ASSUME NEW e \in Exec, Crash(e) PROVE ActionOK'
  BY <1>8 DEF Crash, At, Goto
<1>9. CASE StartQueuedCrawl
  BY <1>9 DEF StartQueuedCrawl, At
<1>10. CASE UNCHANGED vars
  BY <1>10 DEF vars, At
<1> QED
  BY <1>1, <1>2, <1>3, <1>4, <1>5, <1>6, <1>7, <1>8, <1>9, <1>10, StepOK DEF Next

(* One execution at most holds the claim, in every reachable state.        *)
LEMMA ActionInvariant == Spec => []ActionOK
<1>1. Init => ActionOK
  BY DEF Init, ActionOK, OneRequest, StateOK, PhaseOK, Sent, Submitting, At
<1>2. TypeOK /\ ActionOK /\ [Next]_vars => ActionOK'
  BY NextOK
<1> QED
  BY <1>1, <1>2, TypeCorrect, PTL DEF Spec

(* A runtime.confirm job that succeeded has a request or a queued crawl    *)
(* behind it, and no execution of one that failed sent a request or will   *)
(* (execution.ts invoke).                                                  *)
THEOREM JobTellsTheTruthAlways == Spec => []JobTellsTheTruth
<1>1. ActionOK => JobTellsTheTruth
  BY DEF ActionOK, StateOK, Sent, JobTellsTheTruth
<1> QED
  BY <1>1, ActionInvariant, PTL

(* To the effect, a step that leaves the action and its request alone is   *)
(* no step.                                                                *)
LEMMA Stutter ==
  ASSUME UNCHANGED <<action, remote>>
  PROVE  UNCHANGED AsEffect!vars
BY DEF remote, AsEffect!vars

(* Each step of an execution is a step of the effect, or none.             *)
LEMMA StepIsEffect ==
  ASSUME TypeOK, ActionOK, NEW e \in Exec, Step(e)
  PROVE  AsEffect!Next \/ UNCHANGED AsEffect!vars
<1> USE DEF Goto, At, remote
<1>1. CASE ReadAction(e) \/ FailBeforeClaim(e) \/ WaitForTerminal(e) \/ RemoteAnswers(e)
           \/ EndJob(e)
  BY <1>1, Stutter DEF ReadAction, FailBeforeClaim, WaitForTerminal, RemoteAnswers, EndJob
<1>2. CASE RejectPendingRuntimeAction(e)
  BY <1>2, Stutter DEF RejectPendingRuntimeAction, ActionOK, StateOK, TypeOK,
     AsEffect!Next, AsEffect!Release
<1>3. CASE ClaimRuntimeAction(e)
  BY <1>3, Stutter DEF ClaimRuntimeAction, ActionOK, StateOK, TypeOK,
     AsEffect!Next, AsEffect!Claim
<1>4. CASE Dispatch(e)
  <2>1. action = "dispatching" /\ wire = {} /\ times = 0 /\ crawl = "none"
    BY <1>4 DEF Dispatch, ActionOK, PhaseOK, Submitting
  <2>2. CASE wire' = wire
    BY <1>4, <2>2, Stutter DEF Dispatch
  <2>3. CASE wire' = wire \cup {e}
    <3>1. AsEffect!Attempt
      BY <1>4, <2>1, <2>3 DEF Dispatch, AsEffect!Attempt
    <3> QED
      BY <3>1 DEF AsEffect!Next
  <2> QED
    BY <1>4, <2>2, <2>3 DEF Dispatch
<1>5. CASE FinishRuntimeAction(e)
  <2>1. /\ action = "dispatching"
        /\ execs[e].phase \in {"queued", "answered"} =>
             times + (IF crawl = "none" THEN 0 ELSE 1) = 1
    BY <1>5 DEF FinishRuntimeAction, ActionOK, OneRequest, PhaseOK, Submitting
  <2>2. AsEffect!Settle \/ AsEffect!Doubt
    BY <1>5, <2>1 DEF FinishRuntimeAction, Finished, AsEffect!Settle, AsEffect!Doubt
  <2> QED
    BY <2>2 DEF AsEffect!Next
<1>6. CASE FailAfterClaim(e)
  <2>1. /\ action = "dispatching"
        /\ At(e, "claimed") => wire = {} /\ times = 0 /\ crawl = "none"
        /\ At(e, "queued") => crawl # "none"
    BY <1>6 DEF FailAfterClaim, ActionOK, PhaseOK, Submitting
  <2>2. AsEffect!Release \/ AsEffect!Doubt
    BY <1>6, <2>1 DEF FailAfterClaim, Finished, Failed, Undispatched,
       AsEffect!Release, AsEffect!Doubt
  <2> QED
    BY <2>2 DEF AsEffect!Next
<1>7. CASE QueueCrawl(e)
  <2>1. action = "dispatching" /\ wire = {} /\ times = 0 /\ crawl = "none"
    BY <1>7 DEF QueueCrawl, ActionOK, PhaseOK, Submitting
  <2>2. AsEffect!Perform
    BY <1>7, <2>1 DEF QueueCrawl, AsEffect!Perform
  <2> QED
    BY <2>2 DEF AsEffect!Next
<1> QED
  BY <1>1, <1>2, <1>3, <1>4, <1>5, <1>6, <1>7 DEF Step

(* Every behaviour of confirmations, executions, lost leases and crashes   *)
(* is, to the user, one external effect.                                   *)
THEOREM ActionIsOneEffectAlways == Spec => ActionIsOneEffect
<1>1. Init => AsEffect!Init
  BY DEF Init, AsEffect!Init
<1>2. TypeOK /\ ActionOK /\ [Next]_vars => [AsEffect!Next]_(AsEffect!vars)
  <2> SUFFICES ASSUME TypeOK, ActionOK, [Next]_vars
               PROVE  AsEffect!Next \/ UNCHANGED AsEffect!vars
    OBVIOUS
  <2>1. CASE Cancel
    BY <2>1 DEF Cancel, ActionOK, StateOK, remote, AsEffect!Next, AsEffect!Release
  <2>2. CASE Confirm \/ ChangeBinding \/ LoseLease
    BY <2>2, Stutter DEF Confirm, ChangeBinding, LoseLease, remote
  <2>3. ASSUME NEW e \in Exec, StartJob(e) \/ ConfirmDirectly(e) \/ Crash(e)
        PROVE  UNCHANGED AsEffect!vars
    BY <2>3, Stutter DEF StartJob, ConfirmDirectly, Crash, remote
  <2>4. ASSUME NEW e \in Exec, RemoteExecutes(e) PROVE AsEffect!Happen
    BY <2>4 DEF RemoteExecutes, ActionOK, OneRequest, AsEffect!Happen
  <2>5. CASE StartQueuedCrawl
    BY <2>5 DEF StartQueuedCrawl, AsEffect!vars
  <2>6. CASE UNCHANGED vars
    BY <2>6, Stutter DEF vars, remote
  <2> QED
    BY <2>1, <2>2, <2>3, <2>4, <2>5, <2>6, StepIsEffect DEF Next, AsEffect!Next
<1> QED
  BY <1>1, <1>2, TypeCorrect, ActionInvariant, PTL
     DEF Spec, ActionIsOneEffect, AsEffect!Spec
=============================================================================
