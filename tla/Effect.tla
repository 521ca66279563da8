------------------------------- MODULE Effect -------------------------------
(***************************************************************************)
(* What the program promises of one confirmed write outside itself: it is  *)
(* claimed before it is attempted, it happens at most once, it is reported *)
(* done only if it happened, and it is reported refused, or offered again, *)
(* only if it neither happened nor still can.  When nobody knows, it stays *)
(* in doubt.  MailSend and RuntimeActions implement it.                    *)
(***************************************************************************)
EXTENDS Integers

VARIABLES
  stage,   \* what is on record
  sent,    \* an attempt is on its way or has arrived
  times    \* how often the effect has happened

vars == <<stage, sent, times>>

TypeOK ==
  /\ stage \in {"open", "claimed", "done", "refused", "doubtful"}
  /\ sent \in BOOLEAN /\ times \in Nat

AtMostOnce == times <= 1
DoneHappened == stage = "done" => times = 1
RefusedNeverHappens == stage \in {"open", "refused"} => ~sent /\ times = 0

Init == stage = "open" /\ sent = FALSE /\ times = 0

Claim == stage = "open" /\ stage' = "claimed" /\ UNCHANGED <<sent, times>>

Attempt == stage = "claimed" /\ ~sent /\ sent' = TRUE /\ UNCHANGED <<stage, times>>

(* An effect inside the program's own tables happens as it is attempted.   *)
Perform == stage = "claimed" /\ ~sent /\ times = 0
           /\ sent' = TRUE /\ times' = 1 /\ UNCHANGED stage

Happen == sent /\ times = 0 /\ times' = 1 /\ UNCHANGED <<stage, sent>>

(* Not attempted: it may be offered again, or be refused for good.         *)
Release ==
  /\ stage \in {"open", "claimed"} /\ ~sent
  /\ stage' \in {"open", "refused"}
  /\ UNCHANGED <<sent, times>>

Settle == stage = "claimed" /\ times = 1 /\ stage' = "done" /\ UNCHANGED <<sent, times>>

Doubt == stage = "claimed" /\ stage' = "doubtful" /\ UNCHANGED <<sent, times>>

Next == Claim \/ Attempt \/ Perform \/ Happen \/ Release \/ Settle \/ Doubt

Spec == Init /\ [][Next]_vars
=============================================================================
