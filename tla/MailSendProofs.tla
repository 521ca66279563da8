--------------------------- MODULE MailSendProofs ---------------------------
(***************************************************************************)
(* A confirmed mail is sent at most once and a refused one never, for all  *)
(* texts, requests and calls and any number of edits, incoming mails and   *)
(* restarts.  The argument: the attempt is the only permit to send, only   *)
(* its owner changes it while it is "sending", and it becomes free again   *)
(* only through a refusal before the network.                              *)
(***************************************************************************)
EXTENDS MailSend, TLAPS

(* A call that goes ahead answers a request, and one that has read the     *)
(* draft carries its text.                                                 *)
Carries(call) ==
  /\ call.phase \notin {"idle", "refused"} => call.request \in Request
  /\ call.phase \in {"ready", "calling"} => call.text \in Text

Typed == TypeOK /\ \A c \in Call : Carries(calls[c])

(* A call that is idle carries nothing.                                    *)
LEMMA IdleType == Idle \in InFlight /\ Carries(Idle)
BY DEF Idle, InFlight, Carries, Phase, DraftStatus

(* The other phases of a call differ from the last in the phase only, and  *)
(* read the draft only where they load it.                                 *)
LEMMA GotoType ==
  ASSUME Typed, NEW c \in Call, NEW phase \in Phase, Goto(c, phase),
         phase \notin {"idle", "refused"} => calls[c].request \in Request,
         phase \in {"ready", "calling"} => calls[c].text \in Text
  PROVE  calls' \in [Call -> InFlight] /\ \A d \in Call : Carries(calls'[d])
BY DEF Typed, TypeOK, Goto, InFlight, Carries

(* A call that returns is idle.                                            *)
LEMMA ReturnType ==
  ASSUME Typed, NEW c \in Call, Return(c)
  PROVE  calls' \in [Call -> InFlight] /\ \A d \in Call : Carries(calls'[d])
BY IdleType DEF Typed, TypeOK, Return

(* Loading gives a call the text of the draft.                             *)
LEMMA LoadType ==
  ASSUME Typed, NEW c \in Call, Load(c)
  PROVE  calls' \in [Call -> InFlight] /\ \A d \in Call : Carries(calls'[d])
<1> DEFINE call == [calls[c] EXCEPT !.phase = "ready", !.text = draft.text]
<1>1. calls[c] \in InFlight /\ draft.text \in Text /\ calls[c].request \in Request
  BY DEF Typed, TypeOK, Carries, DraftRow, Load, At
<1>2. call \in InFlight /\ call.phase = "ready" /\ call.request \in Request
      /\ call.text \in Text
  BY <1>1 DEF InFlight, Phase
<1>3. calls' = [calls EXCEPT ![c] = call]
  BY DEF Load, Typed, TypeOK, InFlight
<1> HIDE DEF call
<1>4. Carries(call)
  BY <1>2 DEF Carries
<1> QED
  BY <1>2, <1>3, <1>4 DEF Typed, TypeOK

(* Every step of a call keeps the types.                                   *)
LEMMA StepType ==
  ASSUME Typed, NEW c \in Call, Step(c)
  PROVE  Typed'
<1> USE DEF Typed
<1>1. CASE SetDraftStatus(c)
  BY <1>1, ReturnType DEF SetDraftStatus, TypeOK, DraftRow, DraftStatus
<1>2. CASE BindCheck(c)
  BY <1>2, ReturnType, GotoType DEF BindCheck, TypeOK, At, Carries, Phase
<1>3. CASE Bind(c)
  BY <1>3, ReturnType, GotoType DEF Bind, TypeOK, At, Carries, Phase
<1>4. CASE Claim(c)
  BY <1>4, ReturnType, GotoType DEF Claim, TypeOK, At, Carries, Phase, DraftRow, DraftStatus
<1>5. CASE Load(c)
  BY <1>5, LoadType DEF Load, TypeOK
<1>6. CASE Recheck(c)
  BY <1>6, GotoType DEF Recheck, TypeOK, At, Carries, Phase
<1>7. CASE RejectStale(c)
  BY <1>7, ReturnType DEF RejectStale, TypeOK, DraftRow, DraftStatus
<1>8. CASE Dispatch(c)
  BY <1>8, GotoType DEF Dispatch, TypeOK, At, Carries, Phase, Mail
<1>9. CASE Answer(c)
  BY <1>9, GotoType DEF Answer, TypeOK, At, Carries, Phase
<1>10. CASE Fail(c)
  BY <1>10, GotoType DEF Fail, TypeOK, Carries, Phase
<1>11. CASE CompleteMailSend(c)
  BY <1>11, ReturnType DEF CompleteMailSend, TypeOK, DraftRow, DraftStatus
<1>12. CASE MarkUnknown(c)
  BY <1>12, ReturnType DEF MarkUnknown, TypeOK, DraftRow, DraftStatus
<1> QED
  BY <1>1, <1>2, <1>3, <1>4, <1>5, <1>6, <1>7, <1>8, <1>9, <1>10, <1>11, <1>12 DEF Step

(* Edits, confirmations, incoming mail, the provider and a restart.        *)
Outside ==
  \/ \E t \in Text : Patch(t) \/ EndRevision(t)
  \/ BeginRevision \/ MailArrives \/ Crash
  \/ \E r \in Request : Confirm(r)
  \/ \E c \in Call : SyncEmailCardFails(c)
  \/ \E c \in Call, r \in Request : Open(c, r)
  \/ \E m \in wire : Accept(m)

(* A revised row is a row.                                                 *)
LEMMA RevisedRow ==
  ASSUME NEW row \in DraftRow, NEW t \in Text, NEW n \in Nat
  PROVE  [row EXCEPT !.text = t, !.revision = n] \in DraftRow
BY DEF DraftRow

(* They keep the types too.                                                *)
LEMMA OutsideType ==
  ASSUME Typed, Outside
  PROVE  Typed'
<1> USE DEF Typed, TypeOK
<1>1. ASSUME NEW t \in Text, Patch(t) PROVE Typed'
  <2>1. draft.revision + 1 \in Nat
    BY DEF DraftRow
  <2>2. draft' \in DraftRow
    BY <1>1, <2>1, RevisedRow DEF Patch
  <2> QED
    BY <1>1, <2>2 DEF Patch
<1>2. ASSUME NEW t \in Text, EndRevision(t) PROVE Typed'
  <2>1. revising + 1 \in Nat
    BY <1>2 DEF EndRevision
  <2>2. draft' \in DraftRow
    BY <1>2, <2>1, RevisedRow DEF EndRevision
  <2> QED
    BY <1>2, <2>2 DEF EndRevision
<1>3. CASE BeginRevision
  BY <1>3 DEF BeginRevision, DraftRow
<1>4. CASE MailArrives
  BY <1>4 DEF MailArrives
<1>5. CASE Crash
  BY <1>5, IdleType DEF Crash
<1>6. ASSUME NEW r \in Request, Confirm(r) PROVE Typed'
  BY <1>6 DEF Confirm, DraftRow
<1>7. ASSUME NEW c \in Call, NEW r \in Request, Open(c, r) PROVE Typed'
  <2>1. [Idle EXCEPT !.phase = "opened", !.request = r] \in InFlight
        /\ Carries([Idle EXCEPT !.phase = "opened", !.request = r])
    BY DEF Idle, InFlight, Carries, Phase, DraftStatus
  <2>2. [Idle EXCEPT !.phase = "refused", !.saw = draft.status] \in InFlight
        /\ Carries([Idle EXCEPT !.phase = "refused", !.saw = draft.status])
    BY DEF Idle, InFlight, Carries, Phase, DraftStatus, DraftRow
  <2> QED
    BY <1>7, <2>1, <2>2, Zenon DEF Open
<1>8. ASSUME NEW m \in wire, Accept(m) PROVE Typed'
  BY <1>8 DEF Accept
<1>9. ASSUME NEW c \in Call, SyncEmailCardFails(c) PROVE Typed'
  BY <1>9, ReturnType DEF SyncEmailCardFails
<1> QED
  BY <1>1, <1>2, <1>3, <1>4, <1>5, <1>6, <1>7, <1>8, <1>9 DEF Outside

(* The types and what calls carry hold in every reachable state.           *)
LEMMA TypedInvariant == Spec => []Typed
<1>1. Init => Typed
  <2> SUFFICES ASSUME Init PROVE Typed
    OBVIOUS
  <2>1. draft \in DraftRow
    BY DEF Init, DraftRow, DraftStatus
  <2> QED
    BY <2>1, IdleType DEF Init, Typed, TypeOK
<1>2. Typed /\ [Next]_vars => Typed'
  <2>1. Typed /\ UNCHANGED vars => Typed'
    BY DEF Typed, TypeOK, vars
  <2>2. Next => Outside \/ \E c \in Call : Step(c)
    BY Zenon DEF Next, Outside
  <2> QED
    BY <2>1, <2>2, StepType, OutsideType
<1> QED
  BY <1>1, <1>2, PTL DEF Spec

(* The state's types hold in every reachable state.                        *)
THEOREM TypeCorrect == Spec => []TypeOK
<1>1. Typed => TypeOK
  BY DEF Typed
<1> QED
  BY <1>1, TypedInvariant, PTL

(***************************************************************************)
(* The attempt is the permit.                                              *)
(***************************************************************************)
Sending == {"claimed", "ready", "calling", "waiting", "answered", "failed"}

(* A call past the claim owns the attempt, and is the only one.            *)
OneOwner ==
  /\ \A c \in Call : calls[c].phase \in Sending =>
       attempt.status = "sending" /\ attempt.request = calls[c].request
  /\ \A c, d \in Call :
       calls[c].phase \in Sending /\ calls[d].phase \in Sending => c = d

(* One mail at most: under way or accepted, never both.                    *)
OneLetter ==
  /\ accepted = 0 \/ (accepted = 1 /\ wire = {})
  /\ \A m, n \in wire : m = n
  /\ accepted = 0 => letter = Unset

(* What a call and the attempt know of the mail.                           *)
Known ==
  /\ \A c \in Call : calls[c].phase \in {"claimed", "ready", "calling"} =>
       wire = {} /\ accepted = 0
  /\ \A c \in Call : calls[c].phase \in {"calling"} => basis[calls[c].request] = "confirmed"
  /\ \A c \in Call : At(c, "answered") => accepted = 1
  /\ attempt.status \in {"none", "reply_stale"} => wire = {} /\ accepted = 0
  /\ attempt.status = "sent" => accepted = 1

MailOK == OneOwner /\ OneLetter /\ Known /\ RejectedNeverSent

(* Every step of a call keeps it.                                          *)
LEMMA StepOK ==
  ASSUME Typed, MailOK, NEW c \in Call, Step(c)
  PROVE  MailOK'
<1> USE DEF MailOK, OneOwner, OneLetter, Known, RejectedNeverSent, Sending, Typed, TypeOK,
            Carries, Goto, At, Return, Idle, InFlight
<1>1. CASE SetDraftStatus(c)
  BY <1>1 DEF SetDraftStatus
<1>2. CASE BindCheck(c)
  <2>1. At(c, "opened") /\ (Goto(c, "bound") \/ Goto(c, "binding") \/ Return(c))
    BY <1>2 DEF BindCheck
  <2>2. UNCHANGED <<attempt, basis, wire, accepted, letter>>
    BY <1>2 DEF BindCheck
  <2> QED
    BY <2>1, <2>2
<1>3. CASE Bind(c)
  <2>1. At(c, "binding") /\ (Goto(c, "bound") \/ Return(c))
    BY <1>3 DEF Bind
  <2>2. \A d \in Call : calls'[d].phase \in Sending =>
          calls'[d] = calls[d] /\ d # c
    BY <2>1
  <2>3. attempt' = attempt
        \/ (attempt.status = "reply_stale" /\ attempt'.status = "none")
    BY <1>3 DEF Bind
  <2>4. \A r \in Request : basis'[r] = basis[r] \/ basis'[r] = "confirmed"
    BY <1>3 DEF Bind
  <2>5. UNCHANGED <<wire, accepted, letter>>
    BY <1>3 DEF Bind
  <2> HIDE DEF Goto, Return, TypeOK
  <2>6. OneOwner'
    BY <2>2, <2>3
  <2>7. OneLetter' /\ RejectedNeverSent'
    BY <2>4, <2>5
  <2>8. Known'
    BY <2>2, <2>3, <2>4, <2>5
  <2> QED
    BY <2>6, <2>7, <2>8
<1>4. CASE Claim(c)
  <2>1. CASE Return(c) /\ UNCHANGED <<attempt, draft>>
    BY <1>4, <2>1 DEF Claim
  <2>2. CASE /\ attempt.status = "none" /\ Goto(c, "claimed")
             /\ attempt' = [status |-> "sending", request |-> calls[c].request]
    <3>1. UNCHANGED <<basis, wire, accepted, letter>>
      BY <1>4 DEF Claim
    <3>2. \A d \in Call \ {c} : calls[d].phase \notin Sending /\ calls'[d] = calls[d]
      BY <2>2
    <3>3. calls'[c].phase = "claimed" /\ calls'[c].request = calls[c].request
      BY <2>2
    <3> HIDE DEF Goto, TypeOK
    <3>4. OneOwner' /\ OneLetter' /\ RejectedNeverSent'
      BY <2>2, <3>1, <3>2, <3>3
    <3>5. Known'
      BY <2>2, <3>1, <3>2, <3>3
    <3> QED
      BY <3>4, <3>5
  <2> QED
    BY <1>4, <2>1, <2>2 DEF Claim
<1>5. CASE Load(c)
  BY <1>5 DEF Load
<1>6. CASE Recheck(c)
  BY <1>6 DEF Recheck, Current
<1>7. CASE RejectStale(c)
  BY <1>7 DEF RejectStale
<1>8. CASE Dispatch(c)
  BY <1>8 DEF Dispatch
<1>9. CASE Answer(c)
  BY <1>9 DEF Answer
<1>10. CASE Fail(c)
  BY <1>10 DEF Fail
<1>11. CASE CompleteMailSend(c)
  BY <1>11 DEF CompleteMailSend, Owns
<1>12. CASE MarkUnknown(c)
  BY <1>12 DEF MarkUnknown, Owns
<1> QED
  BY <1>1, <1>2, <1>3, <1>4, <1>5, <1>6, <1>7, <1>8, <1>9, <1>10, <1>11, <1>12 DEF Step

(* Every other step does.                                                  *)
LEMMA OutsideOK ==
  ASSUME Typed, MailOK, Outside
  PROVE  MailOK'
<1> USE DEF MailOK, OneOwner, OneLetter, Known, RejectedNeverSent, Sending, Typed, TypeOK,
            Carries, At, Idle, InFlight
<1>1. ASSUME NEW t \in Text, Patch(t) \/ EndRevision(t) PROVE MailOK'
  BY <1>1 DEF Patch, EndRevision
<1>2. CASE BeginRevision \/ MailArrives
  BY <1>2 DEF BeginRevision, MailArrives
<1>3. CASE Crash
  BY <1>3 DEF Crash
<1>4. ASSUME NEW r \in Request, Confirm(r) PROVE MailOK'
  BY <1>4 DEF Confirm
<1>5. ASSUME NEW c \in Call, NEW r \in Request, Open(c, r) PROVE MailOK'
  <2>1. \A d \in Call : calls'[d].phase \in Sending => calls'[d] = calls[d]
    <3>1. CASE calls' = [calls EXCEPT ![c] = [Idle EXCEPT !.phase = "opened", !.request = r]]
      BY <3>1
    <3>2. CASE calls' = [calls EXCEPT ![c] = [Idle EXCEPT !.phase = "refused",
                                                          !.saw = draft.status]]
      BY <3>2
    <3> QED
      BY <1>5, <3>1, <3>2 DEF Open
  <2>2. UNCHANGED <<attempt, basis, wire, accepted, letter>>
    BY <1>5 DEF Open
  <2> QED
    BY <2>1, <2>2
<1>6. ASSUME NEW m \in wire, Accept(m) PROVE MailOK'
  BY <1>6 DEF Accept
<1>7. ASSUME NEW c \in Call, SyncEmailCardFails(c) PROVE MailOK'
  BY <1>7 DEF SyncEmailCardFails, Return
<1> QED
  BY <1>1, <1>2, <1>3, <1>4, <1>5, <1>6, <1>7 DEF Outside

(* The attempt is the permit in every reachable state.                     *)
LEMMA MailInvariant == Spec => []MailOK
<1>1. Init => MailOK
  BY DEF Init, MailOK, OneOwner, OneLetter, Known, RejectedNeverSent, Sending, At, Idle
<1>2. Typed /\ MailOK /\ [Next]_vars => MailOK'
  <2>1. Typed /\ MailOK /\ UNCHANGED vars => MailOK'
    BY DEF MailOK, OneOwner, OneLetter, Known, RejectedNeverSent, At, vars
  <2>2. Next => Outside \/ \E c \in Call : Step(c)
    BY Zenon DEF Next, Outside
  <2> QED
    BY <2>1, <2>2, StepOK, OutsideOK
<1> QED
  BY <1>1, <1>2, TypedInvariant, PTL DEF Spec

(* However often a send is confirmed, repeated, refused or cut off, the    *)
(* provider accepts one mail of the draft at most.                         *)
THEOREM AtMostOneMailAlways == Spec => []AtMostOneMail
<1>1. MailOK => AtMostOneMail
  BY DEF MailOK, OneLetter, AtMostOneMail
<1> QED
  BY <1>1, MailInvariant, PTL

(* A request refused because the conversation moved sends nothing, then or *)
(* later.                                                                  *)
THEOREM RejectedNeverSentAlways == Spec => []RejectedNeverSent
<1>1. MailOK => RejectedNeverSent
  BY DEF MailOK
<1> QED
  BY <1>1, MailInvariant, PTL

(***************************************************************************)
(* The effect.                                                             *)
(***************************************************************************)
(* To the effect, a step that leaves the attempt and the wire alone is no  *)
(* step.                                                                   *)
LEMMA Stutter ==
  ASSUME UNCHANGED <<attempt, wire, accepted>>
  PROVE  UNCHANGED AsEffect!vars
BY DEF AsEffect!vars

(* Each step of a send call is a step of the effect, or none.              *)
LEMMA StepIsEffect ==
  ASSUME Typed, MailOK, NEW c \in Call, Step(c)
  PROVE  AsEffect!Next \/ UNCHANGED AsEffect!vars
<1> USE DEF Typed, TypeOK
<1>1. CASE SetDraftStatus(c) \/ BindCheck(c) \/ Load(c) \/ Recheck(c) \/ Answer(c) \/ Fail(c)
  BY <1>1, Stutter DEF SetDraftStatus, BindCheck, Load, Recheck, Answer, Fail
<1>2. CASE Bind(c)
  BY <1>2 DEF Bind, AsEffect!vars
<1>3. CASE Claim(c)
  <2>1. AsEffect!Claim \/ UNCHANGED <<attempt, wire, accepted>>
    BY <1>3 DEF Claim, AsEffect!Claim
  <2> QED
    BY <2>1, Stutter DEF AsEffect!Next
<1>4. CASE RejectStale(c)
  <2>1. attempt.status = "sending" /\ attempt.request = calls[c].request
        /\ wire = {} /\ accepted = 0
    BY <1>4 DEF RejectStale, MailOK, OneOwner, Known, Sending
  <2>2. attempt'.status \in {"sending", "reply_stale"} /\ UNCHANGED <<wire, accepted>>
    BY <1>4, <2>1 DEF RejectStale
  <2>3. AsEffect!Release \/ UNCHANGED AsEffect!vars
    BY <2>1, <2>2 DEF AsEffect!Release, AsEffect!vars
  <2> QED
    BY <2>3 DEF AsEffect!Next
<1>5. CASE Dispatch(c)
  <2>1. attempt.status = "sending" /\ wire = {} /\ accepted = 0
    BY <1>5 DEF Dispatch, At, MailOK, OneOwner, Known, Sending
  <2>2. AsEffect!Attempt
    BY <1>5, <2>1 DEF Dispatch, AsEffect!Attempt
  <2> QED
    BY <2>2 DEF AsEffect!Next
<1>6. CASE CompleteMailSend(c)
  <2>1. attempt.status = "sending" /\ accepted = 1
    BY <1>6 DEF CompleteMailSend, At, MailOK, OneOwner, Known, Sending
  <2>2. AsEffect!Settle
    BY <1>6, <2>1 DEF CompleteMailSend, AsEffect!Settle
  <2> QED
    BY <2>2 DEF AsEffect!Next
<1>7. CASE MarkUnknown(c)
  <2>1. attempt.status = "sending"
    BY <1>7 DEF MarkUnknown, At, MailOK, OneOwner, Sending
  <2>2. AsEffect!Doubt \/ UNCHANGED <<attempt, wire, accepted>>
    BY <1>7, <2>1 DEF MarkUnknown, AsEffect!Doubt
  <2> QED
    BY <2>2, Stutter DEF AsEffect!Next
<1> QED
  BY <1>1, <1>2, <1>3, <1>4, <1>5, <1>6, <1>7 DEF Step

(* Every behaviour of edits, confirmations, calls, mail that comes in and  *)
(* restarts is, to the user, one external effect.                          *)
THEOREM MailIsOneEffectAlways == Spec => MailIsOneEffect
<1>1. Init => AsEffect!Init
  BY DEF Init, AsEffect!Init
<1>2. Typed /\ MailOK /\ [Next]_vars => [AsEffect!Next]_(AsEffect!vars)
  <2> SUFFICES ASSUME Typed, MailOK, [Next]_vars
               PROVE  AsEffect!Next \/ UNCHANGED AsEffect!vars
    OBVIOUS
  <2>1. ASSUME NEW m \in wire, Accept(m) PROVE AsEffect!Happen
    BY <2>1 DEF Accept, MailOK, OneLetter, AsEffect!Happen
  <2>2. ASSUME Outside, \A m \in wire : ~ Accept(m)
        PROVE  UNCHANGED AsEffect!vars
    BY <2>2, Stutter DEF Outside, Patch, EndRevision, BeginRevision, MailArrives, Crash,
       Confirm, SyncEmailCardFails, Open
  <2>3. CASE UNCHANGED vars
    BY <2>3, Stutter DEF vars
  <2>4. Next => Outside \/ \E c \in Call : Step(c)
    BY Zenon DEF Next, Outside
  <2> QED
    BY <2>1, <2>2, <2>3, <2>4, StepIsEffect DEF AsEffect!Next
<1> QED
  BY <1>1, <1>2, TypedInvariant, MailInvariant, PTL
     DEF Spec, MailIsOneEffect, AsEffect!Spec

(***************************************************************************)
(* The effect itself, whoever implements it: this is what MailIsOneEffect  *)
(* here and ActionIsOneEffect in RuntimeActionsProofs carry over to the    *)
(* code.                                                                   *)
(***************************************************************************)
VARIABLES stage, sent, times
Any == INSTANCE Effect

(* What happened was sent, and what is open or refused was not.            *)
EffectOK ==
  /\ Any!TypeOK
  /\ times <= 1 /\ (times = 1 => sent)
  /\ stage = "done" => times = 1
  /\ stage \in {"open", "refused"} => ~sent

(* EffectOK holds at first and every action of Effect keeps it.            *)
LEMMA EffectInvariant == Any!Spec => []EffectOK
<1>1. Any!Init => EffectOK
  <2> SUFFICES ASSUME Any!Init PROVE EffectOK
    OBVIOUS
  <2>1. sent \in BOOLEAN /\ ~sent
    BY Zenon DEF Any!Init
  <2> QED
    BY <2>1, SMT DEF Any!Init, EffectOK, Any!TypeOK
<1>2. EffectOK /\ [Any!Next]_(Any!vars) => EffectOK'
  <2> SUFFICES ASSUME EffectOK, [Any!Next]_(Any!vars) PROVE EffectOK'
    OBVIOUS
  <2> USE DEF EffectOK, Any!TypeOK
  <2>1. CASE Any!Claim
    BY <2>1 DEF Any!Claim
  <2>2. CASE Any!Attempt
    BY <2>2 DEF Any!Attempt
  <2>3. CASE Any!Happen
    BY <2>3 DEF Any!Happen
  <2>4. CASE Any!Release
    BY <2>4 DEF Any!Release
  <2>5. CASE Any!Settle
    BY <2>5 DEF Any!Settle
  <2>6. CASE Any!Doubt
    BY <2>6 DEF Any!Doubt
  <2>7. CASE Any!Perform
    BY <2>7 DEF Any!Perform
  <2>8. CASE UNCHANGED Any!vars
    BY <2>8 DEF Any!vars
  <2> QED
    BY <2>1, <2>2, <2>3, <2>4, <2>5, <2>6, <2>7, <2>8 DEF Any!Next
<1> QED
  BY <1>1, <1>2, PTL DEF Any!Spec

(* A confirmed write happens at most once, has happened when it is         *)
(* reported done, and neither has happened nor still can while it is open  *)
(* or once it is refused: what the mail and action receipts tell the user. *)
THEOREM EffectIsSafe ==
  Any!Spec => [](Any!TypeOK /\ Any!AtMostOnce /\ Any!DoneHappened /\ Any!RefusedNeverHappens)
<1>1. EffectOK => /\ Any!TypeOK /\ Any!AtMostOnce /\ Any!DoneHappened
                  /\ Any!RefusedNeverHappens
  BY DEF EffectOK, Any!TypeOK, Any!AtMostOnce, Any!DoneHappened, Any!RefusedNeverHappens
<1> QED
  BY <1>1, EffectInvariant, PTL
=============================================================================
