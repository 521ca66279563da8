------------------------------- MODULE Review -------------------------------
(***************************************************************************)
(* What a review promises, whatever its form: people other than the        *)
(* requester cast ballots, each at most one per step of a round; a ballot  *)
(* once cast is never changed; the review ends once, approved only after   *)
(* an approval in the round that was decided, rejected only by a refusal.  *)
(* ReviewEngine implements it.                                             *)
(***************************************************************************)
EXTENDS Integers

CONSTANTS Person, Requester, Step

VARIABLES
  outcome,   \* open, or how the review ended
  round,     \* submissions so far: 1, and one more per amendment
  ballots    \* the ballots cast in every round

vars == <<outcome, round, ballots>>

Vote == {"approved", "rejected"}
Ballot == [round : Nat \ {0}, step : Step, user : Person \ {Requester}, vote : Vote]

TypeOK ==
  /\ outcome \in {"open", "approved", "rejected", "withdrawn"}
  /\ round \in Nat \ {0}
  /\ ballots \subseteq Ballot

(* Nobody is heard twice at one step of one round.                         *)
OneBallotEach ==
  \A b, c \in ballots :
    b.round = c.round /\ b.step = c.step /\ b.user = c.user => b = c

(* The outcome is backed by a ballot of the round it closes.               *)
OutcomeIsBacked ==
  outcome \in Vote => \E b \in ballots : b.round = round /\ b.vote = outcome

Init == outcome = "open" /\ round = 1 /\ ballots = {}

Cast(step, user, vote) ==
  /\ outcome = "open"
  /\ ~\E b \in ballots : b.round = round /\ b.step = step /\ b.user = user
  /\ ballots' = ballots \cup {[round |-> round, step |-> step, user |-> user, vote |-> vote]}
  /\ outcome' \in {"open", vote}
  /\ UNCHANGED round

(* What follows the last approval may hold the review up for a while.      *)
Conclude ==
  /\ outcome = "open"
  /\ \E b \in ballots : b.round = round /\ b.vote = "approved"
  /\ outcome' = "approved"
  /\ UNCHANGED <<round, ballots>>

Resubmit ==
  /\ outcome = "open"
  /\ round' = round + 1
  /\ UNCHANGED <<outcome, ballots>>

Withdraw ==
  /\ outcome = "open"
  /\ outcome' = "withdrawn"
  /\ UNCHANGED <<round, ballots>>

Next ==
  \/ \E step \in Step, user \in Person \ {Requester}, vote \in Vote : Cast(step, user, vote)
  \/ Conclude \/ Resubmit \/ Withdraw

Spec == Init /\ [][Next]_vars
=============================================================================
