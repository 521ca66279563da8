--------------------------- MODULE MCReviewEngine ---------------------------
(* Small forms and people for TLC.                                         *)
EXTENDS ReviewEngine

CONSTANTS a, b, c, r, s1, s2

Nobody == [named |-> TRUE, users |-> <<>>]
Named(users) == [named |-> TRUE, users |-> users]
Role(users) == [named |-> FALSE, users |-> users]

Plain(type, next) ==
  [type |-> type, next |-> next, otherwise |-> next, equals |-> "high",
   assignee |-> Nobody, mode |-> "all", allReject |-> FALSE,
   timeout |-> "none", deadline |-> "preserve", amendment |-> FALSE,
   transfer |-> Nobody, countersign |-> Nobody, escalate |-> Nobody]
Of(type, next, rule, mode) ==
  [Plain(type, next) EXCEPT !.assignee = rule, !.mode = mode]

(* Two who must both agree and may add a third, with a reminder; then one  *)
(* who executes, with a copy on the way.                                   *)
Joint ==
  <<Plain("start", 2),
    [Of("review", 3, Role(<<a, b>>), "all") EXCEPT
       !.countersign = Named(<<c>>), !.timeout = "remind"],
    Of("cc", 4, Named(<<c>>), "all"),
    Of("handler", 5, Named(<<b>>), "single"),
    Plain("end", 0)>>

(* One of two is enough, both must refuse; an overdue task goes to a third *)
(* or is handed over with its deadline.                                    *)
AnyOf ==
  <<Plain("start", 2),
    [Of("review", 3, Named(<<a, b>>), "any") EXCEPT
       !.allReject = TRUE, !.transfer = Role(<<r, c>>), !.timeout = "transfer",
       !.escalate = Role(<<c>>)],
    Plain("end", 0)>>

(* One after the other when the value is high, else a single reviewer; the *)
(* material may be sent back.                                              *)
Branching ==
  <<Plain("start", 2),
    [Plain("condition", 3) EXCEPT !.otherwise = 4],
    [Of("review", 5, Named(<<a, b>>), "sequential") EXCEPT
       !.countersign = Named(<<c>>), !.transfer = Named(<<c>>), !.deadline = "reset",
       !.timeout = "remind", !.amendment = TRUE],
    [Of("review", 5, Role(<<c>>), "single") EXCEPT !.amendment = TRUE],
    Plain("end", 0)>>

(* A draft that lets low values end without a review.                      *)
Unreviewed ==
  <<Plain("start", 2),
    [Plain("condition", 3) EXCEPT !.otherwise = 4],
    Of("review", 4, Named(<<a>>), "single"),
    Plain("end", 0)>>

AllDrafts == {Joint, AnyOf, Branching, Unreviewed}
SessionSymmetry == Permutations(Session)
=============================================================================
