------------------------------ MODULE MailSend ------------------------------
(***************************************************************************)
(* One mail draft between its edits, the confirmations of its author and   *)
(* the provider: the send route (host/api.ts sendMailDraft), the claim     *)
(* (host/mail-send-confirmation.ts), the recheck of the conversation       *)
(* (mail/reply-send.ts) and the gateway (gateway/send.ts).                 *)
(*                                                                         *)
(* The steps of a call interleave with other calls, with edits and with    *)
(* mail that comes in; the process may die between any two of them.  One   *)
(* user; who may send is a condition that can fail at any check.           *)
(***************************************************************************)
EXTENDS Integers

CONSTANTS
  Text,        \* contents a draft may have
  Request,     \* request ids, one per confirmation the user gives
  Call,        \* HTTP calls in flight at once, several per request id
  Unset,       \* no value yet
  MaxEdits,    \* bound on the edits
  MaxMails,    \* bound on the mails that come in
  MaxCrashes   \* bound on the restarts of the process and on failing refreshes

ASSUME MailAssumption ==
  /\ Unset \notin Request \cup Text
  /\ MaxEdits \in Nat /\ MaxMails \in Nat /\ MaxCrashes \in Nat

VARIABLES
  draft,      \* the row of drafts: status, text, confirmation_revision
  attempt,    \* the row of mail_send_attempts: status and request id
  basis,      \* reply_send_basis of each request
  token,      \* what the user saw when confirming each request
  context,    \* version of the conversation's mail
  calls,      \* the calls in memory
  revising,   \* the revision a chat turn has read, until it writes
  wire,       \* mails handed to the network and not yet accepted
  accepted,   \* number of mails the provider has accepted
  letter,     \* the last of them
  crashes     \* restarts and failing refreshes so far

vars == <<draft, attempt, basis, token, context, calls, revising, wire, accepted,
          letter, crashes>>

Phase == {"idle", "refused", "opened", "binding", "bound", "claimed", "ready",
          "calling", "waiting", "answered", "failed"}
DraftStatus == {"draft", "held", "sending", "sent", "send_unknown"}
DraftRow == [status : DraftStatus, text : Text, revision : Nat]
InFlight == [phase : Phase, request : Request \cup {Unset}, text : Text \cup {Unset},
             saw : DraftStatus]
Mail == [request : Request, text : Text]
Idle == [phase |-> "idle", request |-> Unset, text |-> Unset, saw |-> "draft"]

(* The state's types, in one invariant.                                    *)
TypeOK ==
  /\ draft \in DraftRow
  /\ attempt \in [status : {"none", "sending", "sent", "unknown", "reply_stale"},
                  request : Request \cup {Unset}]
  /\ basis \in [Request -> {"none", "confirmed", "rejected"}]
  /\ token \in [Request -> [text : Text, revision : Nat, context : Nat] \cup {Unset}]
  /\ context \in Nat
  /\ calls \in [Call -> InFlight]
  /\ revising \in Nat \cup {Unset}
  /\ wire \subseteq Mail
  /\ accepted \in Nat /\ letter \in Mail \cup {Unset} /\ crashes \in Nat

Init ==
  /\ draft \in [status : {"draft"}, text : Text, revision : {0}]
  /\ attempt = [status |-> "none", request |-> Unset]
  /\ basis = [r \in Request |-> "none"] /\ token = [r \in Request |-> Unset]
  /\ context = 0 /\ calls = [c \in Call |-> Idle] /\ revising = Unset
  /\ wire = {} /\ accepted = 0 /\ letter = Unset /\ crashes = 0

At(c, phase) == calls[c].phase = phase
Goto(c, phase) == calls' = [calls EXCEPT ![c].phase = phase]
Return(c) == calls' = [calls EXCEPT ![c] = Idle]

(* What mailSendAction shows, and assertDraftEditable asks: nothing of the *)
(* draft is sent, being sent or in doubt.                                  *)
Editable ==
  /\ draft.status \notin {"sending", "sent", "send_unknown"}
  /\ attempt.status \notin {"sending", "sent", "unknown"}
Unchanged(r) == token[r].text = draft.text /\ token[r].revision = draft.revision
Current(r) == basis[r] = "confirmed" /\ token[r].context = context

(***************************************************************************)
(* Edits and confirmations.                                                *)
(***************************************************************************)
(* PATCH /drafts/:did checks again under the lock it writes with.          *)
Patch(t) ==
  /\ draft.revision < MaxEdits /\ Editable
  /\ draft' = [draft EXCEPT !.text = t, !.revision = @ + 1]
  /\ UNCHANGED <<attempt, basis, token, context, calls, revising, wire, accepted,
                 letter, crashes>>

(* A revision by chat checks first and writes later, whatever came between.*)
BeginRevision ==
  /\ revising = Unset /\ draft.revision < MaxEdits /\ Editable
  /\ revising' = draft.revision
  /\ UNCHANGED <<draft, attempt, basis, token, context, calls, wire, accepted,
                 letter, crashes>>

EndRevision(t) ==
  /\ revising # Unset /\ revising' = Unset
  /\ draft' = [draft EXCEPT !.text = t, !.revision = revising + 1]
  /\ UNCHANGED <<attempt, basis, token, context, calls, wire, accepted, letter, crashes>>

MailArrives ==
  /\ context < MaxMails /\ context' = context + 1
  /\ UNCHANGED <<draft, attempt, basis, token, calls, revising, wire, accepted,
                 letter, crashes>>

Confirm(r) ==
  /\ token[r] = Unset /\ Editable
  /\ token' = [token EXCEPT ![r] =
       [text |-> draft.text, revision |-> draft.revision, context |-> context]]
  /\ UNCHANGED <<draft, attempt, basis, context, calls, revising, wire, accepted,
                 letter, crashes>>

(***************************************************************************)
(* The route up to the claim.                                              *)
(***************************************************************************)
Open(c, r) ==
  /\ At(c, "idle") /\ token[r] # Unset
  /\ \/ calls' = [calls EXCEPT ![c] = [Idle EXCEPT !.phase = "opened", !.request = r]]
     \/ calls' = [calls EXCEPT ![c] = [Idle EXCEPT !.phase = "refused", !.saw = draft.status]]
  /\ UNCHANGED <<draft, attempt, basis, token, context, revising, wire, accepted,
                 letter, crashes>>

(* A policy refusal is written over the status, unless the draft was sent  *)
(* or being sent when it was read.                                         *)
SetDraftStatus(c) ==
  /\ At(c, "refused") /\ Return(c)
  /\ draft' = IF calls[c].saw \in {"draft", "held"} THEN [draft EXCEPT !.status = "held"]
              ELSE draft
  /\ UNCHANGED <<attempt, basis, token, context, revising, wire, accepted, letter, crashes>>

BindCheck(c) ==
  LET r == calls[c].request
      now == Editable /\ Unchanged(r) /\ token[r].context = context
  IN /\ At(c, "opened")
     /\ IF basis[r] = "confirmed" THEN Goto(c, "bound")
        ELSE IF basis[r] = "none" /\ now THEN Goto(c, "binding") ELSE Return(c)
     /\ UNCHANGED <<draft, attempt, basis, token, context, revising, wire, accepted,
                    letter, crashes>>

(* Mutation: any earlier attempt is cleared away.                          *)
BindClearsAttempt(c) ==
  LET r == calls[c].request
  IN /\ At(c, "binding")
     /\ IF basis[r] = "rejected" THEN Return(c) /\ UNCHANGED <<attempt, basis>>
        ELSE /\ attempt' = [status |-> "none", request |-> Unset]
             /\ basis' = [basis EXCEPT ![r] = "confirmed"]
             /\ Goto(c, "bound")
     /\ UNCHANGED <<draft, token, context, revising, wire, accepted, letter, crashes>>

(* A definite refusal before the network makes room for a new attempt.     *)
Bind(c) ==
  LET r == calls[c].request
  IN /\ At(c, "binding")
     /\ IF basis[r] = "rejected" THEN Return(c) /\ UNCHANGED <<attempt, basis>>
        ELSE /\ attempt' = IF attempt.status = "reply_stale"
                           THEN [status |-> "none", request |-> Unset] ELSE attempt
             /\ basis' = [basis EXCEPT ![r] = "confirmed"]
             /\ Goto(c, "bound")
     /\ UNCHANGED <<draft, token, context, revising, wire, accepted, letter, crashes>>

(* The claim locks the draft; an earlier attempt is replayed or refused.   *)
Claim(c) ==
  LET r == calls[c].request
  IN /\ At(c, "bound")
     /\ IF attempt.status = "none" /\ Editable /\ Unchanged(r)
        THEN /\ attempt' = [status |-> "sending", request |-> r]
             /\ draft' = [draft EXCEPT !.status = "sending"]
             /\ Goto(c, "claimed")
        ELSE Return(c) /\ UNCHANGED <<attempt, draft>>
     /\ UNCHANGED <<basis, token, context, revising, wire, accepted, letter, crashes>>

(* The card in the chat cannot be refreshed: the call ends there, outside  *)
(* the part that marks a failed send, and the claim stays.                 *)
SyncEmailCardFails(c) ==
  /\ At(c, "claimed") /\ Return(c)
  /\ crashes < MaxCrashes /\ crashes' = crashes + 1
  /\ UNCHANGED <<draft, attempt, basis, token, context, revising, wire, accepted, letter>>

(***************************************************************************)
(* The gateway.                                                            *)
(***************************************************************************)
(* Mutation: the draft is not read again for the sending.                  *)
LoadNothing(c) ==
  LET r == calls[c].request
  IN /\ At(c, "claimed") /\ attempt = [status |-> "sending", request |-> r] /\ Current(r)
     /\ Goto(c, "ready")
     /\ UNCHANGED <<draft, attempt, basis, token, context, revising, wire, accepted,
                    letter, crashes>>

Load(c) ==
  LET r == calls[c].request
  IN /\ At(c, "claimed") /\ attempt = [status |-> "sending", request |-> r] /\ Current(r)
     /\ calls' = [calls EXCEPT ![c].phase = "ready", ![c].text = draft.text]
     /\ UNCHANGED <<draft, attempt, basis, token, context, revising, wire, accepted,
                    letter, crashes>>

Recheck(c) ==
  /\ At(c, "ready") /\ Current(calls[c].request) /\ Goto(c, "calling")
  /\ UNCHANGED <<draft, attempt, basis, token, context, revising, wire, accepted,
                 letter, crashes>>

(* Mutation: the attempt is given back even when the mail is under way.    *)
RejectStaleAnyTime(c) ==
  LET r == calls[c].request
  IN /\ calls[c].phase \in {"claimed", "ready", "waiting"} /\ ~Current(r)
     /\ basis' = [basis EXCEPT ![r] = "rejected"]
     /\ attempt' = IF attempt = [status |-> "sending", request |-> r]
                   THEN [attempt EXCEPT !.status = "reply_stale"] ELSE attempt
     /\ draft' = IF draft.status = "sending" THEN [draft EXCEPT !.status = "draft"] ELSE draft
     /\ Return(c)
     /\ UNCHANGED <<token, context, revising, wire, accepted, letter, crashes>>

(* The conversation moved: nothing was sent, the draft is free again.      *)
RejectStale(c) ==
  LET r == calls[c].request
  IN /\ calls[c].phase \in {"claimed", "ready"} /\ ~Current(r)
     /\ basis' = [basis EXCEPT ![r] = "rejected"]
     /\ attempt' = IF attempt = [status |-> "sending", request |-> r]
                   THEN [attempt EXCEPT !.status = "reply_stale"] ELSE attempt
     /\ draft' = IF draft.status = "sending" THEN [draft EXCEPT !.status = "draft"] ELSE draft
     /\ Return(c)
     /\ UNCHANGED <<token, context, revising, wire, accepted, letter, crashes>>

Dispatch(c) ==
  /\ At(c, "calling") /\ Goto(c, "waiting")
  /\ wire' = wire \cup {[request |-> calls[c].request, text |-> calls[c].text]}
  /\ UNCHANGED <<draft, attempt, basis, token, context, revising, accepted, letter, crashes>>

(* The provider accepts a mail some time after it was handed over, perhaps *)
(* after the call has given up; a lost one it never accepts.               *)
Accept(m) ==
  /\ m \in wire /\ wire' = wire \ {m}
  /\ accepted' = accepted + 1 /\ letter' = m
  /\ UNCHANGED <<draft, attempt, basis, token, context, calls, revising, crashes>>

Answer(c) ==
  /\ At(c, "waiting") /\ letter # Unset /\ letter.request = calls[c].request
  /\ Goto(c, "answered")
  /\ UNCHANGED <<draft, attempt, basis, token, context, revising, wire, accepted,
                 letter, crashes>>

(* A check that refuses, an error, a lost or unclear answer, a receipt     *)
(* that cannot be written.                                                 *)
Fail(c) ==
  /\ calls[c].phase \in {"claimed", "ready", "calling", "waiting", "answered"}
  /\ Goto(c, "failed")
  /\ UNCHANGED <<draft, attempt, basis, token, context, revising, wire, accepted,
                 letter, crashes>>

Owns(c) == attempt = [status |-> "sending", request |-> calls[c].request]

CompleteMailSend(c) ==
  /\ At(c, "answered") /\ Owns(c) /\ Return(c)
  /\ attempt' = [attempt EXCEPT !.status = "sent"]
  /\ draft' = [draft EXCEPT !.status = "sent"]
  /\ UNCHANGED <<basis, token, context, revising, wire, accepted, letter, crashes>>

(* Mutation: a failed call gives the draft back.                           *)
MarkUnsent(c) ==
  /\ At(c, "failed") /\ Return(c)
  /\ attempt' = IF Owns(c) THEN [status |-> "none", request |-> Unset] ELSE attempt
  /\ draft' = IF Owns(c) THEN [draft EXCEPT !.status = "draft"] ELSE draft
  /\ UNCHANGED <<basis, token, context, revising, wire, accepted, letter, crashes>>

(* Mutation: a failed call leaves its attempt as it is.                    *)
MarkNothing(c) ==
  /\ At(c, "failed") /\ Return(c)
  /\ UNCHANGED <<draft, attempt, basis, token, context, revising, wire, accepted,
                 letter, crashes>>

MarkUnknown(c) ==
  /\ At(c, "failed") /\ Return(c)
  /\ attempt' = IF Owns(c) THEN [attempt EXCEPT !.status = "unknown"] ELSE attempt
  /\ draft' = IF Owns(c) THEN [draft EXCEPT !.status = "send_unknown"] ELSE draft
  /\ UNCHANGED <<basis, token, context, revising, wire, accepted, letter, crashes>>

(* The process dies; what was claimed stays claimed.                       *)
Crash ==
  /\ crashes < MaxCrashes /\ crashes' = crashes + 1
  /\ calls' = [c \in Call |-> Idle] /\ revising' = Unset
  /\ UNCHANGED <<draft, attempt, basis, token, context, wire, accepted, letter>>

Step(c) ==
  \/ SetDraftStatus(c) \/ BindCheck(c) \/ Bind(c) \/ Claim(c)
  \/ Load(c) \/ Recheck(c) \/ RejectStale(c) \/ Dispatch(c)
  \/ Answer(c) \/ Fail(c) \/ CompleteMailSend(c) \/ MarkUnknown(c)

Next ==
  \/ \E t \in Text : Patch(t) \/ EndRevision(t)
  \/ BeginRevision \/ MailArrives \/ Crash
  \/ \E r \in Request : Confirm(r)
  \/ \E c \in Call : Step(c) \/ SyncEmailCardFails(c) \/ \E r \in Request : Open(c, r)
  \/ \E m \in wire : Accept(m)

Spec == Init /\ [][Next]_vars

(* A call that has started runs on until it returns or the process dies.   *)
FairSpec == Spec /\ \A c \in Call : WF_vars(Step(c))

(***************************************************************************)
(* Properties.                                                             *)
(***************************************************************************)
(* The provider accepts one mail per draft at most, whatever is confirmed  *)
(* again, repeated, refused halfway or cut off by a restart.               *)
AtMostOneMail == accepted <= 1

(* A request refused for a changed conversation never sends a mail.        *)
RejectedNeverSent ==
  \A r \in Request : basis[r] = "rejected" =>
    (letter # Unset => letter.request # r) /\ \A m \in wire : m.request # r

(* Unless the process dies or the card cannot be refreshed, a claimed send *)
(* ends sent, in doubt or refused.                                         *)
SendSettles == attempt.status = "sending" ~> attempt.status # "sending" \/ crashes > 0

(* The send is one external effect of the kind Effect promises.            *)
AsEffect == INSTANCE Effect WITH
  stage <- CASE attempt.status = "sending" -> "claimed"
             [] attempt.status = "sent" -> "done"
             [] attempt.status = "unknown" -> "doubtful"
             [] OTHER -> "open",
  sent <- wire # {} \/ accepted > 0,
  times <- accepted
MailIsOneEffect == AsEffect!Spec
=============================================================================
