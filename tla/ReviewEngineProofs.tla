------------------------- MODULE ReviewEngineProofs -------------------------
(***************************************************************************)
(* A review keeps its tasks in order, for every form that may be           *)
(* published, every organisation and every number of requests and timers.  *)
(*                                                                         *)
(* The argument: wherever the walk over the form stops, it stops on the    *)
(* way forward, with tasks of nodes not visited before (WalkLands, by      *)
(* induction from the end of the form); every operation makes from an      *)
(* instance in order another one (InstanceOK); and the row, like whatever  *)
(* a request is about to write, is one (ReviewOK).                         *)
(*                                                                         *)
(* That an approval was earned rests on the trail an instance has left     *)
(* through the form (Earned); that no write loses a ballot, on what a      *)
(* request that read the last version computes from it (PromiseOK).        *)
(*                                                                         *)
(* Walk and Among are recursive functions: what they compute is shown with *)
(* Downwards and Upwards, induction over a set of numbers that stands for  *)
(* the predicate.                                                          *)
(***************************************************************************)
EXTENDS ReviewEngine, FiniteSetTheorems, WellFoundedInduction, TLAPS

(* A set of numbers has a least one.                                       *)
LEMMA Least ==
  ASSUME NEW T \in SUBSET Nat, T # {}
  PROVE  \E n \in T : \A m \in T : n <= m
<1>1. \E x \in T : \A y \in T : ~ (<<y, x>> \in OpToRel(<, Nat))
  BY WFMin, NatLessThanWellFounded, Zenon
<1>2. PICK x \in T : \A y \in T : ~ (<<y, x>> \in OpToRel(<, Nat))
  BY <1>1, Zenon
<1>3. \A y \in T : ~ (y < x)
  BY <1>2, Zenon DEF OpToRel
<1>4. \A y \in T : x <= y
  BY <1>3
<1> QED
  BY <1>4

(* Induction upwards from 0, and downwards from a bound.                   *)
LEMMA Upwards ==
  ASSUME NEW L \in Nat, NEW Good,
         \A m \in 0 .. L : 0 .. m - 1 \subseteq Good => m \in Good
  PROVE  0 .. L \subseteq Good
<1> SUFFICES ASSUME ~ (0 .. L \subseteq Good) PROVE FALSE
  OBVIOUS
<1> DEFINE Bad == {m \in 0 .. L : m \notin Good}
<1>1. Bad \in SUBSET Nat /\ Bad # {}
  OBVIOUS
<1>2. PICK m \in Bad : \A x \in Bad : m <= x
  BY <1>1, Least, Zenon
<1>3. 0 .. m - 1 \subseteq Good
  BY <1>2
<1> QED
  BY <1>2, <1>3

LEMMA Downwards ==
  ASSUME NEW L \in Nat, NEW Good,
         \A k \in 1 .. L : k + 1 .. L \subseteq Good => k \in Good
  PROVE  1 .. L \subseteq Good
<1> SUFFICES ASSUME ~ (1 .. L \subseteq Good) PROVE FALSE
  OBVIOUS
<1> DEFINE Bad == {m \in 0 .. L : L - m \in 1 .. L /\ L - m \notin Good}
<1>1. Bad \in SUBSET Nat /\ Bad # {}
  <2>1. PICK k \in 1 .. L : k \notin Good
    OBVIOUS
  <2>2. L - k \in 0 .. L /\ L - (L - k) = k
    OBVIOUS
  <2>3. L - k \in Bad
    BY <2>1, <2>2
  <2>4. \A m \in Bad : m \in Nat
    OBVIOUS
  <2> QED
    BY <2>3, <2>4, Zenon
<1>2. PICK m \in Bad : \A x \in Bad : m <= x
  BY <1>1, Least, Zenon
<1> DEFINE k == L - m
<1>3. k \in 1 .. L /\ k \notin Good
  BY <1>2
<1>4. ASSUME NEW x \in k + 1 .. L PROVE x \in Good
  <2>1. L - x \in 0 .. L /\ L - (L - x) = x /\ L - x < m /\ x \in 1 .. L
    BY <1>2, <1>3
  <2>2. L - x \notin Bad
    BY <1>2, <2>1
  <2> QED
    BY <2>1, <2>2
<1> QED
  BY <1>3, <1>4

(***************************************************************************)
(* Who may act.  Among is the function that satisfies its own equation:    *)
(* one exists on every initial part of the list.                           *)
(***************************************************************************)
Chosen(first, users, here, k) ==
  first = [n \in 0 .. k |->
    IF n = 0 THEN <<>>
    ELSE IF users[n] \in here THEN Append(first[n - 1], users[n]) ELSE first[n - 1]]

LEMMA ChosenExists ==
  ASSUME NEW users, NEW here, NEW L \in Nat
  PROVE  \E first : Chosen(first, users, here, L)
<1> DEFINE Good == {k \in 0 .. L : \E first : Chosen(first, users, here, k)}
<1>1. ASSUME NEW k \in 0 .. L, 0 .. k - 1 \subseteq Good PROVE k \in Good
  <2>1. CASE k = 0
    <3> DEFINE first == [n \in 0 .. 0 |-> <<>>]
    <3>1. Chosen(first, users, here, 0)
      BY DEF Chosen
    <3> QED
      BY <2>1, <3>1
  <2>2. CASE k # 0
    <3>1. PICK old : Chosen(old, users, here, k - 1)
      BY <1>1, <2>2
    <3> DEFINE last == IF users[k] \in here THEN Append(old[k - 1], users[k]) ELSE old[k - 1]
               first == [n \in 0 .. k |-> IF n = k THEN last ELSE old[n]]
    <3>2. \A n \in 0 .. k - 1 : first[n] = old[n]
      BY <2>2
    <3>3. \A n \in 1 .. k : n - 1 \in 0 .. k - 1 /\ first[n - 1] = old[n - 1]
      BY <2>2, <3>2
    <3>4. ASSUME NEW n \in 0 .. k
          PROVE  first[n] = IF n = 0 THEN <<>>
                 ELSE IF users[n] \in here THEN Append(first[n - 1], users[n]) ELSE first[n - 1]
      <4>1. CASE n = k
        BY <2>2, <3>3, <4>1
      <4>2. CASE n # k
        <5>1. n \in 0 .. k - 1
          BY <4>2
        <5>2. old[n] = IF n = 0 THEN <<>>
                 ELSE IF users[n] \in here THEN Append(old[n - 1], users[n]) ELSE old[n - 1]
          BY <3>1, <5>1 DEF Chosen
        <5> HIDE DEF first
        <5> QED
          BY <3>2, <3>3, <5>1, <5>2
      <4> QED
        BY <4>1, <4>2
    <3>5. first = [n \in 0 .. k |-> first[n]]
      OBVIOUS
    <3> HIDE DEF first
    <3>6. Chosen(first, users, here, k)
      BY <3>4, <3>5 DEF Chosen
    <3> QED
      BY <3>6
  <2> QED
    BY <2>1, <2>2
<1> HIDE DEF Good
<1>2. 0 .. L \subseteq Good
  BY <1>1, Upwards
<1> QED
  BY <1>2 DEF Good

(* Whoever is chosen from a list that names nobody twice, is a person, and *)
(* is chosen once.                                                         *)
LEMMA AmongType ==
  ASSUME NEW users \in Seq(Person), IsInjective(users), NEW here
  PROVE  Among(users, here) \in Seq(Person) /\ IsInjective(Among(users, here))
<1> DEFINE L == Len(users)
           first == CHOOSE f : Chosen(f, users, here, L)
<1>1. Chosen(first, users, here, L)
  BY ChosenExists
<1>2. Among(users, here) = first[L]
  BY Zenon DEF Among, Chosen
<1> HIDE DEF first
<1> DEFINE Right(n) == /\ first[n] \in Seq(Person) /\ IsInjective(first[n])
                       /\ \A x \in DOMAIN first[n] : \E y \in 1 .. n : first[n][x] = users[y]
           Good == {n \in 0 .. L : Right(n)}
<1>3. ASSUME NEW n \in 0 .. L, 0 .. n - 1 \subseteq Good PROVE n \in Good
  <2>1. CASE n = 0
    <3>1. first[0] = <<>>
      BY <1>1 DEF Chosen
    <3>2. Right(0)
      BY <3>1 DEF IsInjective
    <3> QED
      BY <2>1, <3>2
  <2>2. CASE n # 0
    <3>1. n - 1 \in 0 .. n - 1 /\ n - 1 \in 0 .. L /\ n \in DOMAIN users
      BY <2>2
    <3>2. Right(n - 1)
      BY <1>3, <3>1
    <3>3. CASE users[n] \notin here
      <4>1. first[n] = first[n - 1]
        BY <1>1, <2>2, <3>3 DEF Chosen
      <4>2. 1 .. n - 1 \subseteq 1 .. n
        OBVIOUS
      <4>3. Right(n)
        BY <3>2, <4>1, <4>2
      <4> QED
        BY <4>3
    <3>4. CASE users[n] \in here
      <4> DEFINE old == first[n - 1]
      <4>1. first[n] = Append(old, users[n])
        BY <1>1, <2>2, <3>4 DEF Chosen
      <4>2. old \in Seq(Person) /\ users[n] \in Person
        BY <3>1, <3>2
      <4>3. ASSUME NEW x \in DOMAIN old PROVE old[x] # users[n]
        <5>1. PICK y \in 1 .. n - 1 : old[x] = users[y]
          BY <3>2
        <5>2. y \in DOMAIN users /\ y # n
          OBVIOUS
        <5> QED
          BY <3>1, <5>1, <5>2 DEF IsInjective
      <4> HIDE DEF old
      <4>4. /\ first[n] \in Seq(Person) /\ DOMAIN first[n] = 1 .. Len(old) + 1
            /\ \A x \in 1 .. Len(old) : first[n][x] = old[x]
            /\ first[n][Len(old) + 1] = users[n] /\ DOMAIN old = 1 .. Len(old)
        BY <4>1, <4>2
      <4>5. IsInjective(old) /\ \A x \in DOMAIN old : \E y \in 1 .. n - 1 : old[x] = users[y]
        BY <3>2 DEF old
      <4>6. IsInjective(first[n])
        BY <4>2, <4>3, <4>4, <4>5 DEF IsInjective
      <4>7. ASSUME NEW x \in DOMAIN first[n] PROVE \E y \in 1 .. n : first[n][x] = users[y]
        <5>1. CASE x \in DOMAIN old
          BY <4>4, <4>5, <5>1
        <5>2. CASE x = Len(old) + 1
          <6>1. n \in 1 .. n
            BY <2>2
          <6> QED
            BY <4>4, <5>2, <6>1
        <5> QED
          BY <4>2, <4>4, <5>1, <5>2
      <4> QED
        BY <4>4, <4>6, <4>7
    <3> QED
      BY <3>3, <3>4
  <2> QED
    BY <2>1, <2>2
<1>4. L \in Nat
  OBVIOUS
<1> HIDE DEF Good, L
<1>5. \A n \in 0 .. L : 0 .. n - 1 \subseteq Good => n \in Good
  BY <1>3
<1>6. 0 .. L \subseteq Good
  BY <1>4, <1>5, Upwards, Zenon
<1>7. Right(L)
  BY <1>4, <1>6 DEF Good
<1> QED
  BY <1>2, <1>7

LEMMA CandidatesType ==
  ASSUME NEW rule \in Rule, NEW here
  PROVE  Candidates(rule, here) \in Seq(Person) /\ IsInjective(Candidates(rule, here))
<1>1. rule.users \in Seq(Person) /\ IsInjective(rule.users)
  BY DEF Rule
<1>2. <<>> \in Seq(Person) /\ IsInjective(<<>>)
  BY DEF IsInjective
<1>3. Among(rule.users, here) \in Seq(Person) /\ IsInjective(Among(rule.users, here))
  BY <1>1, AmongType
<1> QED
  BY <1>1, <1>2, <1>3, Zenon DEF Candidates

(***************************************************************************)
(* The walk.                                                               *)
(***************************************************************************)
Published == form \in Drafts /\ ValidateDefinition(form)

LEMMA FormType ==
  ASSUME Published
  PROVE  /\ form \in Seq(FormNode) /\ Len(form) \in Nat
         /\ DOMAIN form = 1 .. Len(form) /\ 1 \in DOMAIN form
         /\ \A k \in DOMAIN form :
              form[k] \in FormNode /\ Edges(form[k]) \subseteq k + 1 .. Len(form)
<1>1. form \in Seq(FormNode) /\ form # <<>>
  BY ReviewAssumption DEF Published
<1>2. \A k \in DOMAIN form : Edges(form[k]) \subseteq k + 1 .. Len(form)
  BY DEF Published, ValidateDefinition, WellFormed
<1>3. Len(form) \in Nat /\ DOMAIN form = 1 .. Len(form) /\ Len(form) # 0
  BY <1>1
<1> QED
  BY <1>1, <1>2, <1>3

LEMMA NodeType ==
  ASSUME Published, NEW k \in DOMAIN form
  PROVE  LET n == form[k]
         IN /\ n.type \in {"start", "review", "cc", "handler", "condition", "end"}
            /\ n.next \in Nat /\ n.otherwise \in Nat /\ n.assignee \in Rule
            /\ n.transfer \in Rule /\ n.countersign \in Rule /\ n.escalate \in Rule
            /\ n.mode \in {"single", "all", "any", "sequential"} /\ n.allReject \in BOOLEAN
            /\ n.type # "end" => n.next \in Edges(n)
            /\ n.type = "condition" => n.otherwise \in Edges(n)
            /\ n.allReject => n.mode = "any"
<1>1. form[k] \in FormNode
  BY FormType
<1>2. form[k].allReject => form[k].mode = "any"
  BY DEF Published, ValidateDefinition, WellFormed
<1> QED
  BY <1>1, <1>2 DEF FormNode, Edges

(* A step of the walk looks only at the nodes its edges lead to.           *)
LEMMA WalkIsLocal ==
  ASSUME Published, NEW k \in DOMAIN form, NEW f, NEW g, NEW i, NEW here,
         \A e \in Edges(form[k]) : f[e] = g[e]
  PROVE  WalkFrom(f, k, i, here) = WalkFrom(g, k, i, here)
<1> DEFINE n == form[k]
<1>1. /\ n.type # "end" => f[n.next] = g[n.next]
      /\ n.type = "condition" => f[n.otherwise] = g[n.otherwise]
  BY NodeType
<1>2. n.type = "condition" =>
        f[IF i.value = n.equals THEN n.next ELSE n.otherwise]
          = g[IF i.value = n.equals THEN n.next ELSE n.otherwise]
  BY <1>1
<1> QED
  BY <1>1, <1>2 DEF WalkFrom

IsWalk(go, k, i, here) == go = [x \in k .. Len(form) |-> WalkFrom(go, x, i, here)]

(* So it is defined on the last nodes, one after the other, and on all.    *)
LEMMA WalkExists ==
  ASSUME Published, NEW i, NEW here
  PROVE  \E go : IsWalk(go, 1, i, here)
<1> DEFINE L == Len(form)
           Good == {k \in 1 .. L + 1 : \E go : IsWalk(go, k, i, here)}
<1>1. L \in Nat /\ DOMAIN form = 1 .. L
  BY FormType
<1>2. L + 1 \in Good
  <2> DEFINE go == [x \in L + 1 .. L |-> 0]
  <2>1. \A x \in L + 1 .. L : FALSE
    BY <1>1
  <2>2. IsWalk(go, L + 1, i, here)
    BY <2>1 DEF IsWalk
  <2>3. L + 1 \in 1 .. L + 1
    BY <1>1
  <2> QED
    BY <2>2, <2>3
<1>3. ASSUME NEW k \in 1 .. L, k + 1 \in Good PROVE k \in Good
  <2>1. PICK old : IsWalk(old, k + 1, i, here)
    BY <1>3
  <2> DEFINE go == [x \in k .. L |-> IF x = k THEN WalkFrom(old, k, i, here) ELSE old[x]]
  <2>2. \A x \in k + 1 .. L : x \in k .. L /\ x # k /\ go[x] = old[x]
    BY <1>1
  <2>3. go[k] = WalkFrom(old, k, i, here)
    BY <1>1
  <2>4. go = [x \in k .. L |-> go[x]]
    OBVIOUS
  <2> HIDE DEF go
  <2>5. ASSUME NEW x \in k .. L PROVE go[x] = WalkFrom(go, x, i, here)
    <3>1. x \in DOMAIN form
      BY <1>1
    <3>2. Edges(form[x]) \subseteq k + 1 .. L
      BY <1>1, <3>1, FormType
    <3>3. \A e \in Edges(form[x]) : old[e] = go[e]
      BY <2>2, <3>2
    <3>4. WalkFrom(old, x, i, here) = WalkFrom(go, x, i, here)
      BY <3>1, <3>3, WalkIsLocal
    <3>5. CASE x = k
      BY <2>3, <3>4, <3>5
    <3>6. CASE x # k
      <4>1. x \in k + 1 .. L
        BY <1>1, <3>6
      <4>2. old[x] = WalkFrom(old, x, i, here)
        BY <2>1, <4>1 DEF IsWalk
      <4> QED
        BY <2>2, <3>4, <4>1, <4>2
    <3> QED
      BY <3>5, <3>6
  <2>6. IsWalk(go, k, i, here)
    BY <2>4, <2>5 DEF IsWalk
  <2>7. k \in 1 .. L + 1
    BY <1>1
  <2> QED
    BY <2>6, <2>7
<1> HIDE DEF Good, L
<1>4. ASSUME NEW k \in 1 .. L, k + 1 .. L \subseteq Good PROVE k \in Good
  <2>1. k + 1 \in Good
    <3>1. CASE k = L
      BY <1>2, <3>1
    <3>2. CASE k # L
      BY <1>1, <1>4, <3>2
    <3> QED
      BY <3>1, <3>2
  <2> QED
    BY <1>3, <2>1
<1>5. \A k \in 1 .. L : k + 1 .. L \subseteq Good => k \in Good
  BY <1>4
<1>6. 1 .. L \subseteq Good
  BY <1>1, <1>5, Downwards, Zenon
<1>7. 1 \in Good
  BY <1>1, <1>6, FormType
<1> QED
  BY <1>7 DEF Good

LEMMA WalkUnfolds ==
  ASSUME Published, NEW i, NEW here, NEW k \in DOMAIN form
  PROVE  Walk(i, here)[k] = WalkFrom(Walk(i, here), k, i, here)
<1>1. DOMAIN form = 1 .. Len(form)
  BY FormType
<1> DEFINE go == CHOOSE f : IsWalk(f, 1, i, here)
<1>2. Walk(i, here) = go
  BY <1>1, Zenon DEF Walk, IsWalk
<1>3. IsWalk(go, 1, i, here)
  BY WalkExists
<1> HIDE DEF go
<1>4. go[k] = WalkFrom(go, k, i, here)
  BY <1>1, <1>3 DEF IsWalk
<1> QED
  BY <1>2, <1>4, Zenon

(* A task, whatever number it has; what the walk hands out is numbered     *)
(* later.                                                                  *)
Slot == [id : Nat, round : Nat, node : Nat, user : Person, status : TaskStatus,
         source : {"default", "transfer", "countersign", "timeout"}, due : Nat]
Landing == [node : Nat, status : {"approved", "blocked", "reviewing"}, tasks : Seq(Slot)]

Asked == {"pending", "waiting"}

(* At the node where the review stops somebody is asked, one after the     *)
(* other where the node is sequential.                                     *)
AskedInTurn(tasks, k) ==
  /\ form[k].type \in {"review", "handler"}
  /\ \E p \in DOMAIN tasks : tasks[p].node = k /\ tasks[p].status = "pending"
  /\ \A p \in DOMAIN tasks : tasks[p].node = k =>
       tasks[p].status \in Asked /\ (tasks[p].status = "waiting" => form[k].mode = "sequential")
  /\ form[k].mode = "sequential" =>
       \A p, q \in {x \in DOMAIN tasks : tasks[x].node = k /\ tasks[x].status = "pending"} : p = q

(* Where the walk from node k stops: not before k, with tasks of nodes on  *)
(* the way, open only where it stops.                                      *)
OnTheWay(at, t, k, i) ==
  /\ t.round = i.round /\ t.node \in k .. at.node
  /\ at.status = "blocked" => t.node < at.node
  /\ form[t.node].type = "review" => t.user # Requester
  /\ t.due \in {0, 1}
  /\ \/ t.status = "completed"
     \/ t.status \in Asked /\ at.status = "reviewing" /\ t.node = at.node

Lands(at, k, i) ==
  /\ at \in Landing /\ at.node \in k .. Len(form)
  /\ \A p \in DOMAIN at.tasks : OnTheWay(at, at.tasks[p], k, i)
  /\ \A p, q \in DOMAIN at.tasks : p # q =>
       <<at.tasks[p].node, at.tasks[p].user>> # <<at.tasks[q].node, at.tasks[q].user>>
  /\ at.status = "reviewing" => AskedInTurn(at.tasks, at.node)

LEMMA AssignedType ==
  ASSUME Published, NEW k \in DOMAIN form, NEW i, i.round \in Nat,
         NEW users \in Seq(Person)
  PROVE  LET new == Assigned(i, k, users)
         IN /\ new \in Seq(Slot) /\ DOMAIN new = 1 .. Len(users) /\ Len(new) = Len(users)
            /\ \A p \in DOMAIN new :
                 /\ new[p].round = i.round /\ new[p].node = k /\ new[p].user = users[p]
                 /\ new[p].due \in {0, 1}
                 /\ new[p].status = IF form[k].type = "cc" THEN "completed"
                                    ELSE IF form[k].mode = "sequential" /\ p > 1
                                         THEN "waiting" ELSE "pending"
<1> DEFINE new == Assigned(i, k, users)
<1>1. k \in Nat /\ DOMAIN users = 1 .. Len(users) /\ Len(users) \in Nat
  BY FormType
<1>2. DOMAIN new = 1 .. Len(users)
  BY <1>1 DEF Assigned
<1>3. ASSUME NEW p \in 1 .. Len(users)
      PROVE  /\ new[p] \in Slot
             /\ new[p].round = i.round /\ new[p].node = k /\ new[p].user = users[p]
             /\ new[p].due \in {0, 1}
             /\ new[p].status = IF form[k].type = "cc" THEN "completed"
                                ELSE IF form[k].mode = "sequential" /\ p > 1
                                     THEN "waiting" ELSE "pending"
  <2>1. users[p] \in Person
    BY <1>1
  <2> QED
    BY <1>1, <2>1 DEF Assigned, Slot, TaskStatus
<1>4. new \in Seq(Slot) /\ Len(new) = Len(users)
  <2>1. new = [p \in 1 .. Len(users) |-> new[p]]
    BY <1>1 DEF Assigned
  <2> HIDE DEF new
  <2> QED
    BY <1>1, <1>3, <2>1
<1> QED
  BY <1>2, <1>3, <1>4

(* A landing seen from an earlier node.                                    *)
LEMMA LandsFromBefore ==
  ASSUME Published, NEW k \in DOMAIN form, NEW e \in k + 1 .. Len(form), NEW i, NEW at,
         Lands(at, e, i)
  PROVE  Lands(at, k, i)
<1>1. k \in 1 .. Len(form) /\ Len(form) \in Nat
  BY FormType
<1>2. \A n \in Int : n >= e => n >= k
  BY <1>1
<1>3. at \in Landing /\ at.node \in k .. Len(form)
  BY <1>1, <1>2 DEF Lands
<1>4. ASSUME NEW p \in DOMAIN at.tasks PROVE OnTheWay(at, at.tasks[p], k, i)
  <2>1. OnTheWay(at, at.tasks[p], e, i)
    BY DEF Lands
  <2>2. at.tasks[p].node \in k .. at.node
    BY <1>1, <2>1 DEF OnTheWay
  <2> QED
    BY <2>1, <2>2 DEF OnTheWay
<1> QED
  BY <1>3, <1>4 DEF Lands

(* An empty landing where the review ends or is blocked.                   *)
LEMMA LandsHere ==
  ASSUME Published, NEW k \in DOMAIN form, NEW i, NEW status \in {"approved", "blocked"}
  PROVE  Lands(Stop(k, status, <<>>), k, i)
<1>1. k \in 1 .. Len(form) /\ Len(form) \in Nat
  BY FormType
<1> QED
  BY <1>1 DEF Lands, Stop, Landing

LEMMA LandsAtReview ==
  ASSUME Published, NEW k \in DOMAIN form, NEW i, i.round \in Nat,
         NEW users \in Seq(Person), IsInjective(users), ~Blocked(k, users),
         form[k].type \in {"review", "handler"}
  PROVE  Lands(Stop(k, "reviewing", Assigned(i, k, users)), k, i)
<1> DEFINE new == Assigned(i, k, users)
           at == Stop(k, "reviewing", new)
<1>1. k \in 1 .. Len(form) /\ Len(form) \in Nat
  BY FormType
<1>2. /\ new \in Seq(Slot) /\ DOMAIN new = 1 .. Len(users) /\ Len(new) = Len(users)
      /\ \A p \in DOMAIN new :
           /\ new[p].round = i.round /\ new[p].node = k /\ new[p].user = users[p]
           /\ new[p].due \in {0, 1}
           /\ new[p].status = IF form[k].mode = "sequential" /\ p > 1
                              THEN "waiting" ELSE "pending"
  BY AssignedType
<1>3. /\ 1 \in DOMAIN new
      /\ form[k].type = "review" => \A p \in DOMAIN users : users[p] # Requester
  BY <1>2 DEF Blocked, ToSet
<1>4. \A p, q \in DOMAIN new : p # q => new[p].user # new[q].user
  BY <1>2 DEF IsInjective
<1> HIDE DEF new
<1>5. at \in Landing /\ at.node = k /\ at.status = "reviewing" /\ at.tasks = new
  BY <1>1, <1>2 DEF Stop, Landing
<1> HIDE DEF at
<1>6. \A p \in DOMAIN new : OnTheWay(at, new[p], k, i)
  BY <1>1, <1>2, <1>3, <1>5 DEF OnTheWay, Asked
<1>7. AskedInTurn(new, k)
  <2>1. new[1].node = k /\ new[1].status = "pending"
    BY <1>2, <1>3
  <2>2. \A p \in DOMAIN new :
          new[p].status \in Asked /\ (new[p].status = "waiting" => form[k].mode = "sequential")
    BY <1>2 DEF Asked
  <2>3. form[k].mode = "sequential" => \A p \in DOMAIN new : new[p].status = "pending" => p = 1
    BY <1>2
  <2>4. \E p \in DOMAIN new : new[p].node = k /\ new[p].status = "pending"
    BY <1>3, <2>1
  <2>5. \A p \in DOMAIN new : new[p].node = k =>
          new[p].status \in Asked /\ (new[p].status = "waiting" => form[k].mode = "sequential")
    BY <2>2
  <2>6. form[k].mode = "sequential" =>
          \A p, q \in {x \in DOMAIN new : new[x].node = k /\ new[x].status = "pending"} : p = q
    BY <2>3
  <2> QED
    BY <2>4, <2>5, <2>6, Zenon DEF AskedInTurn
<1>8. Lands(at, k, i)
  BY <1>1, <1>4, <1>5, <1>6, <1>7 DEF Lands
<1> QED
  BY <1>8 DEF at, new

(* The elements of two sequences, one after the other.                     *)
Joined(ab, a, b) ==
  /\ Len(a) \in Nat /\ Len(b) \in Nat /\ Len(ab) = Len(a) + Len(b)
  /\ DOMAIN a = 1 .. Len(a) /\ DOMAIN b = 1 .. Len(b) /\ DOMAIN ab = 1 .. Len(a) + Len(b)
  /\ \A p \in DOMAIN a : p \in DOMAIN ab /\ ab[p] = a[p]
  /\ \A p \in DOMAIN b : Len(a) + p \in DOMAIN ab /\ ab[Len(a) + p] = b[p]
  /\ \A p \in DOMAIN ab : p \notin DOMAIN a => p - Len(a) \in DOMAIN b /\ ab[p] = b[p - Len(a)]

LEMMA Concatenation ==
  ASSUME NEW S, NEW a \in Seq(S), NEW b \in Seq(S)
  PROVE  a \o b \in Seq(S) /\ Joined(a \o b, a, b)
<1>1. /\ Len(a) \in Nat /\ Len(b) \in Nat /\ DOMAIN a = 1 .. Len(a) /\ DOMAIN b = 1 .. Len(b)
      /\ a \o b \in Seq(S) /\ Len(a \o b) = Len(a) + Len(b)
  OBVIOUS
<1>2. DOMAIN (a \o b) = 1 .. Len(a) + Len(b)
  BY <1>1
<1>3. ASSUME NEW p \in DOMAIN a PROVE p \in DOMAIN (a \o b) /\ (a \o b)[p] = a[p]
  BY <1>1, <1>2
<1>4. ASSUME NEW p \in DOMAIN b
      PROVE  Len(a) + p \in DOMAIN (a \o b) /\ (a \o b)[Len(a) + p] = b[p]
  BY <1>1, <1>2
<1>5. ASSUME NEW p \in DOMAIN (a \o b), p \notin DOMAIN a
      PROVE  p - Len(a) \in DOMAIN b /\ (a \o b)[p] = b[p - Len(a)]
  BY <1>1, <1>2, <1>5
<1> QED
  BY <1>1, <1>2, <1>3, <1>4, <1>5 DEF Joined

(* A copy goes to people who get it once, and the walk goes on.            *)
LEMMA LandsAfterCopy ==
  ASSUME Published, NEW k \in DOMAIN form, NEW e \in k + 1 .. Len(form), NEW i, i.round \in Nat,
         NEW users \in Seq(Person), IsInjective(users), form[k].type = "cc",
         NEW at, Lands(at, e, i)
  PROVE  Lands([at EXCEPT !.tasks = Assigned(i, k, users) \o @], k, i)
<1> DEFINE new == Assigned(i, k, users)
           all == new \o at.tasks
           to == [at EXCEPT !.tasks = all]
<1>1. k \in 1 .. Len(form) /\ Len(form) \in Nat /\ e \in 1 .. Len(form) /\ k < e
  BY FormType
<1>2. /\ new \in Seq(Slot) /\ DOMAIN new = 1 .. Len(users) /\ Len(new) = Len(users)
      /\ \A p \in DOMAIN new :
           /\ new[p].round = i.round /\ new[p].node = k /\ new[p].user = users[p]
           /\ new[p].due \in {0, 1} /\ new[p].status = "completed"
  BY AssignedType
<1>3. \A p, q \in DOMAIN new : p # q => new[p].user # new[q].user
  BY <1>2 DEF IsInjective
<1>4. at \in Landing /\ at.node \in e .. Len(form)
  BY DEF Lands
<1> HIDE DEF new
<1>5. at.tasks \in Seq(Slot)
  BY <1>4 DEF Landing
<1>6. all \in Seq(Slot)
  BY <1>2, <1>5
<1> DEFINE M == Len(new)
           Old(p) == p - M
<1>7. /\ M \in Nat /\ DOMAIN new = 1 .. M
      /\ \A p \in DOMAIN all :
           \/ p \in DOMAIN new /\ all[p] = new[p]
           \/ p \notin DOMAIN new /\ Old(p) \in DOMAIN at.tasks /\ all[p] = at.tasks[Old(p)]
      /\ \A p \in DOMAIN at.tasks : M + p \in DOMAIN all /\ all[M + p] = at.tasks[p]
  <2> DEFINE old == at.tasks
  <2>1. new \in Seq(Slot) /\ old \in Seq(Slot)
    BY <1>2, <1>5
  <2> HIDE DEF old
  <2>2. Joined(all, new, old)
    BY <2>1, Concatenation DEF old
  <2> QED
    BY <2>2, Zenon DEF old, Joined
<1> HIDE DEF all
<1>8. /\ to \in Landing /\ to.node = at.node /\ to.status = at.status /\ to.tasks = all
      /\ all \in Seq(Slot)
  <2>1. at = [node |-> at.node, status |-> at.status, tasks |-> at.tasks]
    BY <1>4 DEF Landing
  <2>2. to = [node |-> at.node, status |-> at.status, tasks |-> all]
    BY <2>1
  <2> QED
    BY <1>4, <1>6, <2>2 DEF Landing
<1>9. \A p \in DOMAIN at.tasks :
        OnTheWay(at, at.tasks[p], e, i) /\ at.tasks[p].node \in e .. at.node
  BY DEF Lands, OnTheWay
<1> HIDE DEF to
<1>10. ASSUME NEW p \in DOMAIN all PROVE OnTheWay(to, all[p], k, i)
  <2>1. CASE p \in DOMAIN new
    BY <1>1, <1>2, <1>4, <1>8, <1>7, <2>1 DEF OnTheWay
  <2>2. CASE p \notin DOMAIN new
    <3>1. OnTheWay(at, all[p], e, i)
      BY <1>7, <1>9, <2>2
    <3>2. all[p].node \in k .. at.node
      BY <1>1, <3>1, <1>4 DEF OnTheWay
    <3> QED
      BY <1>8, <3>1, <3>2 DEF OnTheWay
  <2> QED
    BY <2>1, <2>2
<1>11. ASSUME NEW p \in DOMAIN all, NEW q \in DOMAIN all, p # q
      PROVE  <<all[p].node, all[p].user>> # <<all[q].node, all[q].user>>
  <2>1. CASE p \in DOMAIN new /\ q \in DOMAIN new
    BY <1>3, <1>7, <1>11, <2>1
  <2>2. CASE p \in DOMAIN new /\ q \notin DOMAIN new
    BY <1>1, <1>2, <1>7, <1>9, <2>2
  <2>3. CASE p \notin DOMAIN new /\ q \in DOMAIN new
    BY <1>1, <1>2, <1>7, <1>9, <2>3
  <2>4. CASE p \notin DOMAIN new /\ q \notin DOMAIN new
    <3>1. /\ Old(p) \in DOMAIN at.tasks /\ Old(q) \in DOMAIN at.tasks
          /\ all[p] = at.tasks[Old(p)] /\ all[q] = at.tasks[Old(q)]
      BY <1>7, <2>4
    <3>2. p \in Int /\ q \in Int /\ Old(p) # Old(q)
      BY <1>8, <1>7, <1>11
    <3> HIDE DEF Old
    <3> QED
      BY <3>1, <3>2 DEF Lands
  <2> QED
    BY <2>1, <2>2, <2>3, <2>4
<1>12. ASSUME at.status = "reviewing" PROVE AskedInTurn(all, at.node)
  <2>1. AskedInTurn(at.tasks, at.node)
    BY <1>12 DEF Lands
  <2>2. PICK p \in DOMAIN at.tasks : at.tasks[p].node = at.node /\ at.tasks[p].status = "pending"
    BY <2>1 DEF AskedInTurn
  <2>3. M + p \in DOMAIN all /\ all[M + p] = at.tasks[p]
    BY <1>7
  <2>4. \A q \in DOMAIN new : all[q].node # at.node \/ all[q] # new[q]
    BY <1>1, <1>2, <1>4
  <2>5. ASSUME NEW q \in DOMAIN all, all[q].node = at.node
        PROVE  Old(q) \in DOMAIN at.tasks /\ all[q] = at.tasks[Old(q)]
    BY <1>7, <2>4, <2>5
  <2>6. \A q \in DOMAIN all : q \in Int /\ M \in Int
    BY <1>8, <1>7
  <2>7. ASSUME NEW q \in DOMAIN all, NEW r \in DOMAIN all, Old(q) = Old(r) PROVE q = r
    BY <2>6, <2>7
  <2> HIDE DEF Old, M
  <2>8. \E q \in DOMAIN all : all[q].node = at.node /\ all[q].status = "pending"
    BY <2>2, <2>3
  <2>9. \A q \in DOMAIN all : all[q].node = at.node =>
          /\ all[q].status \in Asked
          /\ all[q].status = "waiting" => form[at.node].mode = "sequential"
    BY <2>1, <2>5 DEF AskedInTurn
  <2>10. ASSUME form[at.node].mode = "sequential",
                NEW q \in {x \in DOMAIN all : all[x].node = at.node /\ all[x].status = "pending"},
                NEW r \in {x \in DOMAIN all : all[x].node = at.node /\ all[x].status = "pending"}
         PROVE  q = r
    <3>1. Old(q) = Old(r)
      BY <2>1, <2>5, <2>10 DEF AskedInTurn
    <3> QED
      BY <2>7, <3>1
  <2> QED
    BY <2>1, <2>8, <2>9, <2>10, Zenon DEF AskedInTurn
<1>13. Lands(to, k, i)
  <2>1. to.node \in k .. Len(form)
    BY <1>1, <1>4, <1>8
  <2> QED
    BY <1>8, <1>10, <1>11, <1>12, <2>1 DEF Lands
<1> QED
  BY <1>13 DEF to, all, new

(* So every step of the walk lands, whoever is present.                    *)
LEMMA WalkStepLands ==
  ASSUME Published, NEW k \in DOMAIN form, NEW i, i.round \in Nat, NEW here, NEW go,
         \A e \in Edges(form[k]) : Lands(go[e], e, i)
  PROVE  Lands(WalkFrom(go, k, i, here), k, i)
<1> DEFINE n == form[k]
           users == Candidates(n.assignee, here)
           at == WalkFrom(go, k, i, here)
<1>1. users \in Seq(Person) /\ IsInjective(users)
  BY NodeType, CandidatesType
<1>2. \A e \in Edges(n) : e \in k + 1 .. Len(form)
  BY FormType
<1>3. n.type # "end" => n.next \in k + 1 .. Len(form) /\ Lands(go[n.next], n.next, i)
  BY <1>2, NodeType
<1>4. n.type = "condition" =>
        n.otherwise \in k + 1 .. Len(form) /\ Lands(go[n.otherwise], n.otherwise, i)
  BY <1>2, NodeType
<1>5. n.type # "end" => Lands(go[n.next], k, i)
  BY <1>3, LandsFromBefore
<1>6. n.type = "condition" => Lands(go[n.otherwise], k, i)
  BY <1>4, LandsFromBefore
<1> HIDE DEF users
<1>7. CASE n.type = "end"
  <2>1. at = Stop(k, "approved", <<>>)
    BY <1>7 DEF WalkFrom
  <2> QED
    BY <2>1, LandsHere
<1>8. CASE n.type \in {"review", "cc", "handler"} /\ Blocked(k, users)
  <2>1. at = Stop(k, "blocked", <<>>)
    BY <1>8 DEF WalkFrom, users
  <2> QED
    BY <2>1, LandsHere
<1>9. CASE n.type \in {"review", "handler"} /\ ~Blocked(k, users)
  <2>1. at = Stop(k, "reviewing", Assigned(i, k, users))
    BY <1>9 DEF WalkFrom, users
  <2> QED
    BY <1>1, <1>9, <2>1, LandsAtReview
<1>10. CASE n.type = "cc" /\ ~Blocked(k, users)
  <2>1. at = [go[n.next] EXCEPT !.tasks = Assigned(i, k, users) \o @]
    BY <1>10 DEF WalkFrom, users
  <2> QED
    <3>1. Lands([go[n.next] EXCEPT !.tasks = Assigned(i, k, users) \o @], k, i)
      BY <1>1, <1>3, <1>10, LandsAfterCopy
    <3> QED
      BY <2>1, <3>1, Zenon
<1>11. CASE n.type = "condition"
  <2>1. at \in {Stop(k, "blocked", <<>>), go[n.next], go[n.otherwise]}
    BY <1>11 DEF WalkFrom
  <2> QED
    BY <1>5, <1>6, <1>11, <2>1, LandsHere
<1>12. CASE n.type = "start"
  <2>1. at = go[n.next]
    BY <1>12 DEF WalkFrom
  <2> QED
    BY <1>5, <1>12, <2>1
<1> QED
  BY <1>7, <1>8, <1>9, <1>10, <1>11, <1>12, NodeType

LEMMA WalkLands ==
  ASSUME Published, NEW i, i.round \in Nat, NEW here, NEW k \in DOMAIN form
  PROVE  Lands(Walk(i, here)[k], k, i)
<1> DEFINE L == Len(form)
           go == Walk(i, here)
           Good == {x \in 1 .. L : Lands(go[x], x, i)}
<1>1. L \in Nat /\ DOMAIN form = 1 .. L
  BY FormType
<1>2. ASSUME NEW x \in 1 .. L, x + 1 .. L \subseteq Good PROVE x \in Good
  <2>1. \A e \in Edges(form[x]) : Lands(go[e], e, i)
    BY <1>1, <1>2, FormType
  <2>2. Lands(WalkFrom(go, x, i, here), x, i)
    BY <1>1, <2>1, WalkStepLands
  <2>3. go[x] = WalkFrom(go, x, i, here)
    BY <1>1, WalkUnfolds
  <2> QED
    BY <2>2, <2>3
<1> HIDE DEF Good, L
<1>3. \A x \in 1 .. L : x + 1 .. L \subseteq Good => x \in Good
  BY <1>2
<1>4. 1 .. L \subseteq Good
  BY <1>1, <1>3, Downwards, Zenon
<1> QED
  BY <1>1, <1>4 DEF Good

(***************************************************************************)
(* What an instance always is, before and after every operation.           *)
(***************************************************************************)
Wide == [status : Open \cup {"approved", "rejected", "withdrawn"},
         node : Nat, round : Nat, version : Nat, value : Value, tasks : Seq(Slot)]

Same(t, x) == t.round = x.round /\ t.node = x.node /\ t.user = x.user

(* A task of instance i is numbered, of a node already reached, and does   *)
(* not let the requester judge.                                            *)
Sound(i, t) ==
  /\ t.id \in 1 .. Len(i.tasks) /\ t.due \in 0 .. Len(i.tasks)
  /\ t.node \in DOMAIN form /\ t.round <= i.round
  /\ t.round = i.round => t.node <= i.node
  /\ form[t.node].type = "review" => t.user # Requester

Base(i) ==
  /\ i \in Wide /\ i.node \in DOMAIN form
  /\ \A p, q \in DOMAIN i.tasks : i.tasks[p].id = i.tasks[q].id => p = q
  /\ \A t \in ToSet(i.tasks) : Sound(i, t)
  /\ \A t, x \in ToSet(i.tasks) : Same(t, x) => t = x

(* A blocked instance has no task yet at the node it is blocked at.        *)
Ahead(i) ==
  i.status = "blocked" => \A t \in ToSet(i.tasks) : ~Here(i, t)

OpenOK(i) ==
  \A t \in ToSet(i.tasks) :
    /\ t.status \in Asked => i.status = "reviewing" /\ Here(i, t)
    /\ t.status = "suspended" => i.status = "awaiting_amendment" /\ Here(i, t)

(* What the tasks of the current node can say.                             *)
Said(i) == IF Node(i).type = "review" THEN {"approved", "rejected"} ELSE {"completed"}
Heard(i) == Asked \cup Said(i) \cup {"transferred", "superseded", "cancelled"}

Turn(i) ==
  i.status = "reviewing" =>
    /\ Node(i).type \in {"review", "handler"}
    /\ \E t \in Current(i) : t.status = "pending"
    /\ \A t \in Current(i) :
         t.status \in Heard(i) /\ (t.status = "waiting" => Node(i).mode = "sequential")
    /\ Node(i).mode = "sequential" =>
         \A t, x \in {y \in Current(i) : y.status = "pending"} : t = x

InstanceOK(i) == Base(i) /\ Ahead(i) /\ OpenOK(i) /\ Turn(i)

LEMMA WideParts ==
  ASSUME NEW i \in Wide
  PROVE  /\ i = [status |-> i.status, node |-> i.node, round |-> i.round,
                 version |-> i.version, value |-> i.value, tasks |-> i.tasks]
         /\ i.node \in Nat /\ i.round \in Nat /\ i.version \in Nat /\ i.value \in Value
         /\ i.tasks \in Seq(Slot) /\ Len(i.tasks) \in Nat /\ DOMAIN i.tasks = 1 .. Len(i.tasks)
         /\ \A p \in DOMAIN i.tasks : i.tasks[p] \in Slot
         /\ \A t \in ToSet(i.tasks) : t \in Slot
<1>1. i.tasks \in Seq(Slot)
  BY DEF Wide
<1>2. \A p \in DOMAIN i.tasks : i.tasks[p] \in Slot
  BY <1>1
<1>3. \A t \in ToSet(i.tasks) : t \in Slot
  BY <1>2 DEF ToSet
<1>4. Len(i.tasks) \in Nat /\ DOMAIN i.tasks = 1 .. Len(i.tasks)
  BY <1>1
<1> QED
  BY <1>1, <1>2, <1>3, <1>4 DEF Wide

(* What else changes does not matter to the tasks.                         *)
LEMMA BaseKept ==
  ASSUME NEW i, Base(i), NEW j \in Wide,
         j.tasks = i.tasks, j.node = i.node, j.round \in {i.round, i.round + 1}
  PROVE  Base(j)
<1>1. i \in Wide /\ i.round \in Nat /\ j.round \in Nat /\ \A t \in ToSet(i.tasks) : t \in Slot
  BY WideParts DEF Base
<1>2. ASSUME NEW t \in ToSet(i.tasks) PROVE Sound(j, t)
  <2>1. Sound(i, t) /\ t.round \in Nat
    BY <1>1 DEF Base, Slot
  <2> QED
    BY <1>1, <2>1 DEF Sound
<1> QED
  BY <1>2 DEF Base

Stamp(t, S, status) == IF t \in S THEN [t EXCEPT !.status = status] ELSE t
Stamped(i, S, status) ==
  [i EXCEPT !.tasks = [p \in DOMAIN i.tasks |-> Stamp(i.tasks[p], S, status)]]

LEMMA StampType ==
  ASSUME NEW t \in Slot, NEW S, NEW status \in TaskStatus
  PROVE  LET x == Stamp(t, S, status)
         IN /\ x \in Slot /\ x.id = t.id /\ x.round = t.round /\ x.node = t.node
            /\ x.user = t.user /\ x.due = t.due
            /\ x.status = IF t \in S THEN status ELSE t.status
BY DEF Stamp, Slot

(* Stamping some tasks with a status changes nothing but their status.     *)
OnlyStamped(j, i, S, status) ==
  /\ j \in Wide /\ j.status = i.status /\ j.node = i.node /\ j.round = i.round
  /\ j.version = i.version /\ j.value = i.value
  /\ Len(j.tasks) = Len(i.tasks) /\ DOMAIN j.tasks = DOMAIN i.tasks
  /\ \A p \in DOMAIN i.tasks : j.tasks[p] = Stamp(i.tasks[p], S, status)
  /\ \A t \in ToSet(i.tasks) : Stamp(t, S, status) \in ToSet(j.tasks)
  /\ \A t \in ToSet(j.tasks) : \E x \in ToSet(i.tasks) : t = Stamp(x, S, status)

LEMMA StampedType ==
  ASSUME NEW i \in Wide, NEW S, NEW status \in TaskStatus
  PROVE  OnlyStamped(Stamped(i, S, status), i, S, status)
<1> DEFINE new == [p \in DOMAIN i.tasks |-> Stamp(i.tasks[p], S, status)]
           j == [i EXCEPT !.tasks = new]
<1>1. \A p \in DOMAIN i.tasks : i.tasks[p] \in Slot /\ Stamp(i.tasks[p], S, status) \in Slot
  BY WideParts, StampType
<1>2. Len(i.tasks) \in Nat /\ DOMAIN i.tasks = 1 .. Len(i.tasks)
  BY WideParts
<1>3. /\ new \in Seq(Slot) /\ Len(new) = Len(i.tasks) /\ DOMAIN new = DOMAIN i.tasks
      /\ \A p \in DOMAIN i.tasks : new[p] = Stamp(i.tasks[p], S, status)
  BY <1>1, <1>2
<1>4. /\ \A t \in ToSet(i.tasks) : Stamp(t, S, status) \in ToSet(new)
      /\ \A t \in ToSet(new) : \E x \in ToSet(i.tasks) : t = Stamp(x, S, status)
  BY <1>3 DEF ToSet
<1> HIDE DEF new
<1>5. /\ j \in Wide /\ j.status = i.status /\ j.node = i.node /\ j.round = i.round
      /\ j.version = i.version /\ j.value = i.value /\ j.tasks = new
  BY <1>3, WideParts DEF Wide
<1>6. Stamped(i, S, status) = j
  BY DEF Stamped, new
<1>7. OnlyStamped(j, i, S, status)
  BY <1>3, <1>4, <1>5 DEF OnlyStamped
<1> QED
  BY <1>6, <1>7

LEMMA StampedBase ==
  ASSUME NEW i, Base(i), NEW S, NEW status \in TaskStatus
  PROVE  Base(Stamped(i, S, status))
<1> DEFINE j == Stamped(i, S, status)
<1>0. i \in Wide
  BY DEF Base
<1>1. \A t \in ToSet(i.tasks) : t \in Slot
  BY <1>0, WideParts
<1>2. /\ j \in Wide /\ j.status = i.status /\ j.node = i.node /\ j.round = i.round
      /\ Len(j.tasks) = Len(i.tasks) /\ DOMAIN j.tasks = DOMAIN i.tasks
      /\ \A p \in DOMAIN i.tasks : j.tasks[p] = Stamp(i.tasks[p], S, status)
      /\ \A t \in ToSet(j.tasks) : \E x \in ToSet(i.tasks) : t = Stamp(x, S, status)
  <2>1. OnlyStamped(j, i, S, status)
    BY <1>0, StampedType
  <2> HIDE DEF j
  <2> QED
    BY <2>1 DEF OnlyStamped
<1> HIDE DEF j
<1>3. ASSUME NEW t \in ToSet(j.tasks)
      PROVE  \E x \in ToSet(i.tasks) :
               t = Stamp(x, S, status) /\ t.id = x.id /\ t.due = x.due /\ Same(t, x)
  <2>1. PICK x \in ToSet(i.tasks) : t = Stamp(x, S, status)
    BY <1>2
  <2> QED
    BY <1>1, <2>1, StampType DEF Same
<1>4. ASSUME NEW t \in ToSet(j.tasks) PROVE Sound(j, t)
  <2>1. PICK x \in ToSet(i.tasks) : t.id = x.id /\ t.due = x.due /\ Same(t, x)
    BY <1>3
  <2>2. Sound(i, x)
    BY DEF Base
  <2> QED
    BY <1>2, <2>1, <2>2 DEF Sound, Same
<1>5. ASSUME NEW t \in ToSet(j.tasks), NEW y \in ToSet(j.tasks), Same(t, y) PROVE t = y
  <2>1. PICK x \in ToSet(i.tasks) : t = Stamp(x, S, status) /\ Same(t, x)
    BY <1>3
  <2>2. PICK z \in ToSet(i.tasks) : y = Stamp(z, S, status) /\ Same(y, z)
    BY <1>3
  <2>3. Same(x, z)
    BY <1>5, <2>1, <2>2 DEF Same
  <2>4. x = z
    BY <2>3 DEF Base
  <2> QED
    BY <2>1, <2>2, <2>4
<1>6. \A p \in DOMAIN i.tasks : i.tasks[p] \in Slot
  BY <1>0, WideParts
<1>7. \A p, q \in DOMAIN j.tasks : j.tasks[p].id = j.tasks[q].id => p = q
  <2>1. \A p \in DOMAIN i.tasks : j.tasks[p].id = i.tasks[p].id
    BY <1>2, <1>6, StampType
  <2> QED
    BY <1>2, <2>1 DEF Base
<1>8. Base(j)
  BY <1>2, <1>4, <1>5, <1>7 DEF Base
<1> QED
  BY <1>8 DEF j

(* What a task the walk hands out is once it has a number.                 *)
IsNumbered(new, i, tasks) ==
  /\ new \in Seq(Slot) /\ Len(new) = Len(tasks) /\ DOMAIN new = DOMAIN tasks
  /\ \A p \in DOMAIN tasks :
       /\ new[p] \in Slot /\ Same(new[p], tasks[p]) /\ new[p].status = tasks[p].status
       /\ new[p].id = Len(i.tasks) + p /\ new[p].due \in {0, new[p].id}

LEMMA NumberedType ==
  ASSUME NEW i \in Wide, NEW tasks \in Seq(Slot)
  PROVE  IsNumbered(Numbered(i, tasks), i, tasks)
<1> DEFINE new == Numbered(i, tasks)
           N == Len(i.tasks)
<1>1. N \in Nat
  BY WideParts
<1>2. Len(tasks) \in Nat /\ DOMAIN tasks = 1 .. Len(tasks)
  OBVIOUS
<1>3. \A p \in DOMAIN tasks :
        new[p] = [tasks[p] EXCEPT !.id = N + p, !.due = IF @ = 0 THEN 0 ELSE N + p]
  BY DEF Numbered
<1>4. new = [p \in DOMAIN tasks |-> new[p]] /\ DOMAIN new = DOMAIN tasks
  BY DEF Numbered
<1> HIDE DEF new, N
<1>5. ASSUME NEW p \in DOMAIN tasks
      PROVE  /\ new[p] \in Slot /\ Same(new[p], tasks[p]) /\ new[p].status = tasks[p].status
             /\ new[p].id = N + p /\ new[p].due \in {0, new[p].id}
  <2>1. tasks[p] \in Slot /\ N + p \in Nat
    BY <1>1, <1>2
  <2> DEFINE t == tasks[p]
             due == IF t.due = 0 THEN 0 ELSE N + p
  <2>2. new[p] = [t EXCEPT !.id = N + p, !.due = due]
    BY <1>3
  <2>3. due \in Nat /\ due \in {0, N + p}
    BY <2>1
  <2> HIDE DEF t, due
  <2>4. t \in Slot
    BY <2>1 DEF t
  <2>5. /\ new[p] \in Slot /\ Same(new[p], t) /\ new[p].status = t.status
        /\ new[p].id = N + p /\ new[p].due = due
    BY <2>1, <2>2, <2>3, <2>4 DEF Slot, Same
  <2> QED
    BY <2>3, <2>5 DEF t
<1>6. new \in Seq(Slot) /\ Len(new) = Len(tasks)
  BY <1>2, <1>4, <1>5
<1>7. IsNumbered(new, i, tasks)
  BY <1>4, <1>5, <1>6 DEF IsNumbered, N
<1> QED
  BY <1>7 DEF new

(* From an instance with nothing open, and nothing yet at the nodes ahead, *)
(* the walk makes an instance in order.                                    *)
LEMMA AdvanceOK ==
  ASSUME Published, NEW i, Base(i), NEW here, NEW from \in DOMAIN form,
         \A t \in ToSet(i.tasks) : /\ t.status \notin Asked \cup {"suspended"}
                                   /\ t.round = i.round => t.node < from
  PROVE  InstanceOK(AdvanceReview(i, from, here))
<1> DEFINE at == Walk(i, here)[from]
           new == Numbered(i, at.tasks)
           old == i.tasks
           all == old \o new
           j == [i EXCEPT !.node = at.node, !.status = at.status, !.tasks = all]
           M == Len(old)
<1>1. i \in Wide /\ from \in Nat
  BY FormType DEF Base
<1>2. /\ old \in Seq(Slot) /\ i.round \in Nat /\ M \in Nat /\ DOMAIN old = 1 .. M
      /\ \A p \in DOMAIN old : old[p] \in Slot
      /\ \A t \in ToSet(old) : t \in Slot
  BY <1>1, WideParts
<1>3. Lands(at, from, i)
  BY <1>2, WalkLands
<1>4. j = AdvanceReview(i, from, here)
  BY DEF AdvanceReview
<1> HIDE DEF at
<1>5. at \in Landing /\ at.node \in from .. Len(form) /\ at.node \in DOMAIN form
      /\ at.tasks \in Seq(Slot) /\ at.node \in Nat
  BY <1>1, <1>3, FormType DEF Lands, Landing
<1>6. /\ new \in Seq(Slot) /\ Len(new) = Len(at.tasks) /\ DOMAIN new = DOMAIN at.tasks
      /\ \A p \in DOMAIN at.tasks :
           /\ new[p] \in Slot /\ Same(new[p], at.tasks[p]) /\ new[p].status = at.tasks[p].status
           /\ new[p].id = M + p /\ new[p].due \in {0, new[p].id}
  <2>1. IsNumbered(new, i, at.tasks)
    BY <1>1, <1>5, NumberedType
  <2> HIDE DEF new
  <2> QED
    BY <2>1 DEF IsNumbered
<1>7. \A p \in DOMAIN at.tasks : OnTheWay(at, at.tasks[p], from, i)
  BY <1>3 DEF Lands
<1> HIDE DEF new, old
<1>8. /\ all \in Seq(Slot) /\ Len(all) = M + Len(new)
      /\ DOMAIN new = 1 .. Len(new) /\ DOMAIN all = 1 .. M + Len(new) /\ Len(new) \in Nat
      /\ \A p \in DOMAIN old : p \in DOMAIN all /\ all[p] = old[p]
      /\ \A p \in DOMAIN new : M + p \in DOMAIN all /\ all[M + p] = new[p]
      /\ \A p \in DOMAIN all : p \notin DOMAIN old => p - M \in DOMAIN new /\ all[p] = new[p - M]
  <2>1. all \in Seq(Slot) /\ Joined(all, old, new)
    BY <1>2, <1>6, Concatenation
  <2> HIDE DEF all
  <2> QED
    BY <2>1 DEF Joined
<1> HIDE DEF all
<1>9. /\ j \in Wide /\ j.node = at.node /\ j.status = at.status /\ j.tasks = all
      /\ j.round = i.round
  BY <1>1, <1>5, <1>8, WideParts DEF Wide, Landing, Open
<1> HIDE DEF j
<1>10. ASSUME NEW t \in ToSet(all)
       PROVE  t \in ToSet(old) \/ \E p \in DOMAIN new : t = new[p]
  BY <1>8 DEF ToSet
<1>11. \A p \in DOMAIN new : new[p] \in ToSet(all)
  BY <1>8 DEF ToSet
<1>12. ASSUME NEW t \in ToSet(old)
       PROVE  /\ t \in Slot /\ Sound(i, t) /\ t.status \notin Asked \cup {"suspended"}
              /\ t.round = i.round => t.node < from
  BY <1>2 DEF Base, old
<1>13. ASSUME NEW p \in DOMAIN new
       PROVE  /\ new[p] \in Slot /\ new[p].round = i.round /\ new[p].node \in from .. at.node
              /\ new[p].id \in M + 1 .. M + Len(new) /\ new[p].due \in {0, new[p].id}
              /\ at.status = "blocked" => new[p].node < at.node
              /\ form[new[p].node].type = "review" => new[p].user # Requester
              /\ \/ new[p].status = "completed"
                 \/ new[p].status \in Asked /\ at.status = "reviewing" /\ new[p].node = at.node
  <2>1. Same(new[p], at.tasks[p]) /\ new[p].status = at.tasks[p].status
    BY <1>6
  <2>2. new[p].id \in M + 1 .. M + Len(new)
    BY <1>2, <1>6, <1>8
  <2>3. OnTheWay(at, at.tasks[p], from, i)
    BY <1>6, <1>7
  <2> QED
    BY <1>6, <2>1, <2>2, <2>3 DEF OnTheWay, Same
<1>14. \A t \in ToSet(all) : Sound(j, t)
  <2>0. M + Len(new) \in Nat /\ M <= M + Len(new)
    BY <1>2, <1>8
  <2>1. ASSUME NEW t \in ToSet(old) PROVE Sound(j, t)
    <3>1. /\ t.id \in 1 .. M /\ t.due \in 0 .. M /\ t.node \in DOMAIN form /\ t.round <= i.round
          /\ form[t.node].type = "review" => t.user # Requester
      BY <1>12 DEF Sound, old
    <3>2. t.id \in 1 .. M + Len(new) /\ t.due \in 0 .. M + Len(new)
      BY <1>2, <2>0, <3>1
    <3>3. t.round = i.round => t.node <= at.node
      BY <1>1, <1>5, <1>12 DEF Slot
    <3> QED
      BY <1>8, <1>9, <3>1, <3>2, <3>3 DEF Sound
  <2>2. ASSUME NEW p \in DOMAIN new PROVE Sound(j, new[p])
    <3>1. new[p].node \in DOMAIN form /\ new[p].node <= at.node
      BY <1>1, <1>5, <1>13, FormType
    <3>2. new[p].id \in 1 .. M + Len(new) /\ new[p].due \in 0 .. M + Len(new)
      BY <1>2, <1>13, <2>0
    <3>3. new[p].round <= i.round
      BY <1>2, <1>13
    <3> QED
      BY <1>8, <1>9, <1>13, <3>1, <3>2, <3>3 DEF Sound
  <2> QED
    BY <1>10, <2>1, <2>2
<1>15. \A p, q \in DOMAIN all : all[p].id = all[q].id => p = q
  <2>1. \A p \in DOMAIN old : all[p].id = old[p].id /\ old[p].id \in 1 .. M
    BY <1>8, <1>12 DEF ToSet, Sound, old
  <2>2. \A p \in DOMAIN all : p \notin DOMAIN old => all[p].id = p /\ p > M
    BY <1>2, <1>6, <1>8
  <2>3. \A p, q \in DOMAIN old : old[p].id = old[q].id => p = q
    BY DEF Base, old
  <2> QED
    BY <1>2, <2>1, <2>2, <2>3
<1>16. \A p, q \in DOMAIN new : Same(new[p], new[q]) => p = q
  <2>1. ASSUME NEW p \in DOMAIN new, NEW q \in DOMAIN new, Same(new[p], new[q]) PROVE p = q
    <3>1. at.tasks[p].node = at.tasks[q].node /\ at.tasks[p].user = at.tasks[q].user
      BY <1>6, <2>1 DEF Same
    <3> QED
      BY <1>3, <1>6, <3>1 DEF Lands
  <2> QED
    BY <2>1
<1>17. \A t, x \in ToSet(all) : Same(t, x) => t = x
  <2>1. \A t, x \in ToSet(old) : Same(t, x) => t = x
    BY DEF Base, old
  <2>2. ASSUME NEW t \in ToSet(old), NEW p \in DOMAIN new PROVE ~Same(t, new[p]) /\ ~Same(new[p], t)
    <3>1. t.node \in Nat
      BY <1>12 DEF Slot
    <3> QED
      BY <1>1, <1>12, <1>13, <3>1 DEF Same
  <2>3. \A p, q \in DOMAIN new : Same(new[p], new[q]) => new[p] = new[q]
    BY <1>16
  <2> QED
    BY <1>10, <2>1, <2>2, <2>3
<1>18. Base(j)
  BY <1>5, <1>9, <1>14, <1>15, <1>17 DEF Base
<1>19. Ahead(j)
  <2>1. ASSUME at.status = "blocked", NEW t \in ToSet(all) PROVE ~Here(j, t)
    <3>1. t.round = i.round => t.node < at.node /\ t.node \in Nat
      BY <1>1, <1>5, <1>10, <1>12, <1>13, <2>1 DEF Slot
    <3> QED
      BY <1>5, <1>9, <3>1 DEF Here
  <2> QED
    BY <1>9, <2>1 DEF Ahead
<1>20. OpenOK(j)
  <2>1. ASSUME NEW t \in ToSet(all)
        PROVE  /\ t.status # "suspended"
               /\ t.status \in Asked => at.status = "reviewing" /\ Here(j, t)
    BY <1>9, <1>10, <1>12, <1>13 DEF Here, Asked
  <2> QED
    BY <1>9, <2>1 DEF OpenOK
<1>21. ASSUME at.status = "reviewing", NEW t \in ToSet(all), Here(j, t)
       PROVE  \E p \in DOMAIN new : t = new[p] /\ at.tasks[p].node = at.node
  <2>1. t \notin ToSet(old)
    <3>1. ASSUME t \in ToSet(old) PROVE t.node < from /\ t.node \in Nat
      BY <1>9, <1>12, <1>21, <3>1 DEF Here, Slot
    <3> QED
      BY <1>1, <1>5, <1>9, <1>21, <3>1 DEF Here
  <2>2. PICK p \in DOMAIN new : t = new[p]
    BY <1>10, <2>1
  <2>3. at.tasks[p].node = at.node
    BY <1>6, <1>9, <1>21, <2>2 DEF Here, Same
  <2> QED
    BY <2>2, <2>3
<1>22. Turn(j)
  <2> SUFFICES ASSUME at.status = "reviewing" PROVE Turn(j)
    BY <1>9 DEF Turn
  <2>1. AskedInTurn(at.tasks, at.node)
    BY <1>3 DEF Lands
  <2>2. Node(j) = form[at.node]
    BY <1>9 DEF Node
  <2>3. \E t \in Current(j) : t.status = "pending"
    <3>1. PICK p \in DOMAIN at.tasks : at.tasks[p].node = at.node /\ at.tasks[p].status = "pending"
      BY <2>1 DEF AskedInTurn
    <3>2. new[p] \in ToSet(all) /\ Here(j, new[p]) /\ new[p].status = "pending"
      BY <1>6, <1>9, <1>11, <1>13, <3>1 DEF Here, Same
    <3> QED
      BY <1>9, <3>2 DEF Current
  <2>4. ASSUME NEW t \in Current(j)
        PROVE  t.status \in Asked /\ (t.status = "waiting" => form[at.node].mode = "sequential")
    <3>1. t \in ToSet(all) /\ Here(j, t)
      BY <1>9 DEF Current
    <3>2. PICK p \in DOMAIN new : t = new[p] /\ at.tasks[p].node = at.node
      BY <1>21, <3>1
    <3> QED
      BY <1>6, <2>1, <3>2 DEF AskedInTurn
  <2>5. ASSUME form[at.node].mode = "sequential",
               NEW t \in {y \in Current(j) : y.status = "pending"},
               NEW x \in {y \in Current(j) : y.status = "pending"}
        PROVE  t = x
    <3>1. t \in ToSet(all) /\ Here(j, t) /\ x \in ToSet(all) /\ Here(j, x)
      BY <1>9 DEF Current
    <3>2. PICK p \in DOMAIN new : t = new[p] /\ at.tasks[p].node = at.node
      BY <1>21, <3>1
    <3>3. PICK q \in DOMAIN new : x = new[q] /\ at.tasks[q].node = at.node
      BY <1>21, <3>1
    <3>4. at.tasks[p].status = "pending" /\ at.tasks[q].status = "pending"
      BY <1>6, <3>2, <3>3
    <3>5. p = q
      BY <1>6, <2>1, <2>5, <3>2, <3>3, <3>4 DEF AskedInTurn
    <3> QED
      BY <3>2, <3>3, <3>5
  <2>6. form[at.node].type \in {"review", "handler"}
    BY <2>1 DEF AskedInTurn
  <2> QED
    BY <2>2, <2>3, <2>4, <2>5, <2>6 DEF Turn, Heard
<1>23. InstanceOK(j)
  BY <1>18, <1>19, <1>20, <1>22 DEF InstanceOK
<1> QED
  BY <1>4, <1>23, Zenon

(***************************************************************************)
(* The operations.                                                         *)
(***************************************************************************)
LEMMA MarkStamps ==
  ASSUME NEW i, NEW t, NEW status
  PROVE  Mark(i, t, status) = Stamped(i, {t}, status)
BY DEF Mark, SetTasks, Stamped, Stamp

Remaining(i) == {x \in ToSet(i.tasks) : Here(i, x) /\ x.status \in {"pending", "waiting"}}

LEMMA RestStamps ==
  ASSUME NEW i
  PROVE  CancelRest(i) = Stamped(i, Remaining(i), "cancelled")
<1>1. \A p \in DOMAIN i.tasks :
        i.tasks[p] \in Remaining(i) <=>
          Here(i, i.tasks[p]) /\ i.tasks[p].status \in {"pending", "waiting"}
  BY DEF Remaining, ToSet
<1> QED
  BY <1>1 DEF CancelRest, SetTasks, Stamped, Stamp

LEMMA AmendmentStamps ==
  ASSUME NEW i \in Wide
  PROVE  LET j == [i EXCEPT !.status = "awaiting_amendment"]
         IN RequestAmendment(i) = Stamped(j, Remaining(j), "suspended")
<1> DEFINE j == [i EXCEPT !.status = "awaiting_amendment"]
<1>1. j.node = i.node /\ j.round = i.round
  BY DEF Wide
<1>2. RequestAmendment(i) =
        SetTasks(j, LAMBDA x : Here(i, x) /\ x.status \in {"pending", "waiting"}, "suspended")
  BY Zenon DEF RequestAmendment
<1> HIDE DEF j
<1>3. \A p \in DOMAIN j.tasks :
        j.tasks[p] \in Remaining(j) <=>
          Here(i, j.tasks[p]) /\ j.tasks[p].status \in {"pending", "waiting"}
  BY <1>1 DEF Remaining, ToSet, Here
<1>4. RequestAmendment(i) = Stamped(j, Remaining(j), "suspended")
  BY <1>2, <1>3 DEF SetTasks, Stamped, Stamp
<1> QED
  BY <1>4 DEF j

Unsettled(i) == {x \in ToSet(i.tasks) : x.status \in {"waiting", "pending", "suspended"}}

LEMMA WithdrawStamps ==
  ASSUME NEW i
  PROVE  LET j == [i EXCEPT !.status = "withdrawn"]
         IN Withdraw(i) = Stamped(j, Unsettled(j), "cancelled")
<1> DEFINE j == [i EXCEPT !.status = "withdrawn"]
<1>1. \A p \in DOMAIN j.tasks :
        j.tasks[p] \in Unsettled(j) <=>
          j.tasks[p].status \in {"waiting", "pending", "suspended"}
  BY DEF Unsettled, ToSet
<1> QED
  BY <1>1 DEF Withdraw, SetTasks, Stamped, Stamp

LEMMA ResubmitStamps ==
  ASSUME NEW i, NEW value, NEW here
  PROVE  Resubmit(i, value, here) =
           AdvanceReview([Stamped(i, Unsettled(i), "superseded")
                            EXCEPT !.round = @ + 1, !.value = value], 1, here)
<1>1. \A p \in DOMAIN i.tasks :
        i.tasks[p] \in Unsettled(i) <=>
          i.tasks[p].status \in {"pending", "waiting", "suspended"}
  BY DEF Unsettled, ToSet
<1>2. SetTasks(i, LAMBDA x : x.status \in {"pending", "waiting", "suspended"}, "superseded")
        = Stamped(i, Unsettled(i), "superseded")
  BY <1>1 DEF SetTasks, Stamped, Stamp
<1> QED
  BY <1>2, Zenon DEF Resubmit

(* The status of the instance is not part of what Base says.               *)
LEMMA StatusSet ==
  ASSUME NEW i, Base(i), NEW status \in Open \cup {"approved", "rejected", "withdrawn"}
  PROVE  LET j == [i EXCEPT !.status = status]
         IN /\ Base(j) /\ j.status = status /\ j.node = i.node /\ j.round = i.round
            /\ j.tasks = i.tasks
<1> DEFINE j == [i EXCEPT !.status = status]
<1>1. i \in Wide
  BY DEF Base
<1>2. j \in Wide /\ j.status = status /\ j.node = i.node /\ j.round = i.round /\ j.tasks = i.tasks
  BY <1>1, WideParts DEF Wide
<1>3. Base(j)
  BY <1>2, BaseKept
<1> QED
  BY <1>2, <1>3

(* Cancelling the rest closes everything, if nothing else is open.         *)
LEMMA CancelRestOK ==
  ASSUME NEW i, Base(i),
         \A t \in ToSet(i.tasks) : (t.status \in Asked => Here(i, t)) /\ t.status # "suspended"
  PROVE  LET j == CancelRest(i)
         IN /\ Base(j) /\ j.status = i.status /\ j.node = i.node
            /\ \A t \in ToSet(j.tasks) : t.status \notin Asked \cup {"suspended"}
<1> DEFINE S == Remaining(i)
           j == Stamped(i, S, "cancelled")
<1>1. i \in Wide /\ "cancelled" \in TaskStatus
  BY DEF Base, TaskStatus
<1>2. OnlyStamped(j, i, S, "cancelled") /\ Base(j)
  BY <1>1, StampedType, StampedBase
<1>3. \A x \in ToSet(i.tasks) : x \in Slot
  BY <1>1, WideParts
<1> HIDE DEF j
<1>4. ASSUME NEW t \in ToSet(j.tasks) PROVE t.status \notin Asked \cup {"suspended"}
  <2>1. PICK x \in ToSet(i.tasks) : t = Stamp(x, S, "cancelled")
    BY <1>2 DEF OnlyStamped
  <2>2. t.status = IF x \in S THEN "cancelled" ELSE x.status
    BY <1>1, <1>3, <2>1, StampType
  <2>3. x.status \in Asked => x \in S
    BY DEF Remaining, Asked
  <2> HIDE DEF S
  <2> QED
    BY <2>2, <2>3 DEF Asked
<1>5. j = CancelRest(i)
  BY RestStamps DEF j
<1> QED
  BY <1>2, <1>4, <1>5 DEF OnlyStamped

(* One task replaced by another of the same number, person and node.       *)
LEMMA ReplacedBase ==
  ASSUME NEW i, Base(i), NEW p \in DOMAIN i.tasks, NEW w \in Slot,
         Same(w, i.tasks[p]), w.id = i.tasks[p].id, w.due \in 0 .. Len(i.tasks)
  PROVE  LET j == [i EXCEPT !.tasks[p] = w]
         IN /\ Base(j) /\ j.status = i.status /\ j.node = i.node /\ j.round = i.round
            /\ w \in ToSet(j.tasks)
            /\ \A t \in ToSet(j.tasks) : t = w \/ t \in ToSet(i.tasks) \ {i.tasks[p]}
<1> DEFINE old == i.tasks
           new == [old EXCEPT ![p] = w]
           j == [i EXCEPT !.tasks[p] = w]
<1>1. i \in Wide
  BY DEF Base
<1>2. /\ old \in Seq(Slot) /\ Len(old) \in Nat /\ DOMAIN old = 1 .. Len(old)
      /\ \A q \in DOMAIN old : old[q] \in Slot
  BY <1>1, WideParts
<1> HIDE DEF old
<1>3. /\ new \in Seq(Slot) /\ Len(new) = Len(old) /\ DOMAIN new = DOMAIN old /\ new[p] = w
      /\ \A q \in DOMAIN old : q # p => new[q] = old[q]
  BY <1>2 DEF old
<1>4. j = [i EXCEPT !.tasks = new]
  BY <1>1 DEF old, Wide
<1> HIDE DEF new, j
<1>5. /\ j \in Wide /\ j.status = i.status /\ j.node = i.node /\ j.round = i.round
      /\ j.tasks = new
  BY <1>1, <1>3, <1>4, WideParts DEF Wide
<1>6. \A q, r \in DOMAIN old : old[q].id = old[r].id => q = r
  BY DEF Base, old
<1>7. \A q \in DOMAIN new : new[q].id = old[q].id /\ Same(new[q], old[q])
  BY <1>3 DEF old, Same
<1>8. \A q, r \in DOMAIN new : new[q].id = new[r].id => q = r
  BY <1>3, <1>6, <1>7
<1>9. ASSUME NEW t \in ToSet(new), t # w PROVE t \in ToSet(old) \ {old[p]}
  <2>1. PICK q \in DOMAIN new : t = new[q]
    BY DEF ToSet
  <2>2. q # p /\ t = old[q] /\ q \in DOMAIN old /\ p \in DOMAIN old
    BY <1>3, <1>9, <2>1 DEF old
  <2>3. old[q] # old[p]
    BY <1>6, <2>2
  <2> QED
    BY <2>2, <2>3 DEF ToSet
<1>10. \A t \in ToSet(old) : Sound(i, t)
  BY DEF Base, old
<1>11. ASSUME NEW t \in ToSet(new) PROVE Sound(j, t)
  <2>1. CASE t = w
    <3>1. Sound(i, old[p])
      BY <1>10 DEF ToSet, old
    <3> QED
      BY <1>3, <1>5, <2>1, <3>1 DEF Sound, Same, old
  <2>2. CASE t # w
    BY <1>3, <1>5, <1>9, <1>10, <2>2 DEF Sound, old
  <2> QED
    BY <2>1, <2>2
<1>12. ASSUME NEW t \in ToSet(new), NEW x \in ToSet(new), Same(t, x) PROVE t = x
  <2>1. PICK q \in DOMAIN new : t = new[q]
    BY DEF ToSet
  <2>2. PICK r \in DOMAIN new : x = new[r]
    BY DEF ToSet
  <2>3. Same(old[q], old[r])
    BY <1>7, <1>12, <2>1, <2>2 DEF Same
  <2>4. old[q] \in ToSet(i.tasks) /\ old[r] \in ToSet(i.tasks)
    BY <1>3 DEF ToSet, old
  <2>5. old[q] = old[r]
    BY <2>3, <2>4 DEF Base
  <2>6. q = r
    BY <1>3, <1>6, <2>5
  <2> QED
    BY <2>1, <2>2, <2>6
<1>13. Base(j)
  BY <1>5, <1>8, <1>11, <1>12 DEF Base
<1>14. w \in ToSet(new)
  BY <1>3 DEF ToSet, old
<1> QED
  BY <1>5, <1>9, <1>13, <1>14 DEF j, old

(* A sequence with one more element.                                       *)
WithInserted(r, s, p, e) ==
  /\ Len(r) = Len(s) + 1
  /\ \A x \in 1 .. Len(s) + 1 :
       r[x] = IF x <= p THEN s[x] ELSE IF x = p + 1 THEN e ELSE s[x - 1]

LEMMA InsertedType ==
  ASSUME NEW S, NEW s \in Seq(S), NEW p \in DOMAIN s, NEW e \in S
  PROVE  InsertAt(s, p + 1, e) \in Seq(S) /\ WithInserted(InsertAt(s, p + 1, e), s, p, e)
<1> DEFINE L == Len(s)
           a == SubSeq(s, 1, p)
           m == a \o <<e>>
           b == SubSeq(s, p + 1, L)
           r == m \o b
<1>1. L \in Nat /\ p \in 1 .. L
  OBVIOUS
<1>2. a \in Seq(S) /\ Len(a) = p /\ \A x \in 1 .. p : a[x] = s[x]
  BY <1>1
<1>3. b \in Seq(S) /\ Len(b) = L - p /\ \A x \in 1 .. L - p : b[x] = s[p + x]
  BY <1>1
<1>4. InsertAt(s, p + 1, e) = r
  <2>1. (p + 1) - 1 = p
    BY <1>1
  <2> QED
    BY <2>1 DEF InsertAt
<1> HIDE DEF a, b
<1>5. m \in Seq(S) /\ Joined(m, a, <<e>>)
  <2>1. <<e>> \in Seq(S)
    OBVIOUS
  <2> QED
    BY <1>2, <2>1, Concatenation
<1> HIDE DEF m
<1>6. /\ Len(m) = p + 1 /\ DOMAIN m = 1 .. p + 1
      /\ \A x \in 1 .. p : m[x] = s[x]
      /\ m[p + 1] = e
  <2>1. Len(<<e>>) = 1 /\ <<e>>[1] = e /\ 1 \in DOMAIN <<e>>
    OBVIOUS
  <2> DEFINE one == <<e>>
  <2> HIDE DEF one
  <2>2. Joined(m, a, one) /\ Len(one) = 1 /\ one[1] = e /\ 1 \in DOMAIN one
    BY <1>5, <2>1 DEF one
  <2> QED
    BY <1>2, <2>2 DEF Joined
<1>7. r \in Seq(S) /\ Joined(r, m, b)
  BY <1>3, <1>5, Concatenation
<1> HIDE DEF r, L
<1>8. Len(r) = L + 1 /\ DOMAIN r = 1 .. L + 1
  BY <1>1, <1>3, <1>6, <1>7 DEF Joined
<1>9. ASSUME NEW x \in 1 .. L + 1
      PROVE  r[x] = IF x <= p THEN s[x] ELSE IF x = p + 1 THEN e ELSE s[x - 1]
  <2>1. CASE x \in 1 .. p + 1
    <3>1. r[x] = m[x]
      BY <1>6, <1>7, <2>1 DEF Joined
    <3> QED
      BY <1>1, <1>6, <2>1, <3>1
  <2>2. CASE x > p + 1
    <3>1. x \notin DOMAIN m /\ x \in DOMAIN r
      BY <1>1, <1>6, <1>8, <2>2
    <3>2. r[x] = b[x - (p + 1)]
      BY <1>6, <1>7, <3>1 DEF Joined
    <3>3. x - (p + 1) \in 1 .. L - p /\ p + (x - (p + 1)) = x - 1
      BY <1>1, <2>2
    <3>4. b[x - (p + 1)] = s[x - 1]
      BY <1>3, <3>3
    <3> QED
      BY <1>1, <2>2, <3>2, <3>4
  <2> QED
    BY <1>1, <2>1, <2>2
<1>10. WithInserted(r, s, p, e)
  BY <1>8, <1>9 DEF WithInserted, L
<1> QED
  BY <1>4, <1>7, <1>10

(* A task added behind another one, for somebody without one at the node.  *)
LEMMA InsertedBase ==
  ASSUME NEW i, Base(i), NEW t, \E q \in DOMAIN i.tasks : i.tasks[q].id = t.id,
         NEW new \in Slot, new.id = Len(i.tasks) + 1, new.due \in 0 .. Len(i.tasks) + 1,
         new.node = i.node, new.round = i.round, new.user # Requester,
         \A x \in Current(i) : x.user # new.user
  PROVE  LET j == InsertAfter(i, t, new)
         IN /\ Base(j) /\ j.status = i.status /\ j.node = i.node /\ j.round = i.round
            /\ new \in ToSet(j.tasks)
            /\ \A x \in ToSet(i.tasks) : x \in ToSet(j.tasks)
            /\ \A x \in ToSet(j.tasks) : x = new \/ x \in ToSet(i.tasks)
<1> DEFINE p == CHOOSE q \in DOMAIN i.tasks : i.tasks[q].id = t.id
           old == i.tasks
           all == InsertAt(old, p + 1, new)
           L == Len(old)
           j == [i EXCEPT !.tasks = all]
<1>1. p \in DOMAIN i.tasks
  OBVIOUS
<1>2. InsertAfter(i, t, new) = j
  BY Zenon DEF InsertAfter
<1> HIDE DEF p
<1>3. i \in Wide
  BY DEF Base
<1>4. /\ old \in Seq(Slot) /\ L \in Nat /\ DOMAIN old = 1 .. L
      /\ \A q \in DOMAIN old : old[q] \in Slot
  BY <1>3, WideParts
<1>5. all \in Seq(Slot) /\ WithInserted(all, old, p, new)
  BY <1>1, <1>4, InsertedType
<1> HIDE DEF all
<1>6. /\ Len(all) = L + 1 /\ DOMAIN all = 1 .. L + 1 /\ p \in 1 .. L
      /\ \A x \in 1 .. L + 1 :
           all[x] = IF x <= p THEN old[x] ELSE IF x = p + 1 THEN new ELSE old[x - 1]
  BY <1>1, <1>4, <1>5 DEF WithInserted
<1> DEFINE From(x) == IF x <= p THEN x ELSE x - 1
<1>7. /\ all[p + 1] = new /\ p + 1 \in DOMAIN all
      /\ \A x \in DOMAIN all : x # p + 1 => From(x) \in 1 .. L /\ all[x] = old[From(x)]
      /\ \A x, y \in DOMAIN all : x # p + 1 /\ y # p + 1 /\ From(x) = From(y) => x = y
      /\ \A x \in 1 .. L : \E y \in DOMAIN all : all[y] = old[x]
  <2>1. all[p + 1] = new /\ p + 1 \in DOMAIN all
    BY <1>4, <1>6
  <2>2. ASSUME NEW x \in DOMAIN all, x # p + 1 PROVE From(x) \in 1 .. L /\ all[x] = old[From(x)]
    <3>1. CASE x <= p
      BY <1>4, <1>6, <3>1
    <3>2. CASE x > p
      BY <1>4, <1>6, <2>2, <3>2
    <3> QED
      BY <1>4, <1>6, <3>1, <3>2
  <2>3. \A x, y \in DOMAIN all : x # p + 1 /\ y # p + 1 /\ From(x) = From(y) => x = y
    BY <1>4, <1>6
  <2>4. ASSUME NEW x \in 1 .. L PROVE \E y \in DOMAIN all : all[y] = old[x]
    <3>1. CASE x <= p
      <4>1. x \in DOMAIN all /\ all[x] = old[x]
        BY <1>4, <1>6, <3>1
      <4> QED
        BY <4>1
    <3>2. CASE x > p
      <4>1. x + 1 \in DOMAIN all /\ ~ (x + 1 <= p) /\ x + 1 # p + 1 /\ (x + 1) - 1 = x
        BY <1>4, <1>6, <3>2
      <4>2. all[x + 1] = old[x]
        BY <1>6, <4>1
      <4> QED
        BY <4>1, <4>2
    <3> QED
      BY <1>6, <3>1, <3>2
  <2> QED
    BY <2>1, <2>2, <2>3, <2>4
<1> HIDE DEF From, old
<1>8. /\ j \in Wide /\ j.status = i.status /\ j.node = i.node /\ j.round = i.round
      /\ j.tasks = all
  BY <1>3, <1>5, WideParts DEF Wide
<1> HIDE DEF j
<1>9. \A x \in ToSet(all) : x = new \/ x \in ToSet(old)
  <2>1. ASSUME NEW x \in ToSet(all), x # new PROVE x \in ToSet(old)
    <3>1. PICK y \in DOMAIN all : x = all[y]
      BY DEF ToSet
    <3>2. y # p + 1
      BY <1>7, <2>1, <3>1
    <3> QED
      BY <1>4, <1>7, <3>1, <3>2 DEF ToSet
  <2> QED
    BY <2>1
<1>10. new \in ToSet(all) /\ \A x \in ToSet(old) : x \in ToSet(all)
  BY <1>4, <1>7 DEF ToSet
<1>11. \A x \in ToSet(old) : Sound(i, x) /\ x.id \in 1 .. L /\ x.due \in 0 .. L
  BY DEF Base, Sound, old
<1>12. \A q, r \in DOMAIN old : old[q].id = old[r].id => q = r
  BY DEF Base, old
<1>13. ASSUME NEW x \in ToSet(all) PROVE Sound(j, x)
  <2>1. CASE x = new
    <3>1. i.node \in DOMAIN form /\ i.node \in Nat /\ i.round \in Nat
      BY <1>3, WideParts DEF Base
    <3>2. L + 1 \in 1 .. L + 1
      BY <1>4
    <3> QED
      BY <1>4, <1>6, <1>8, <2>1, <3>1, <3>2 DEF Sound, old
  <2>2. CASE x \in ToSet(old)
    <3>1. Sound(i, x) /\ x.id \in 1 .. L + 1 /\ x.due \in 0 .. L + 1
      BY <1>4, <1>11, <2>2
    <3> QED
      BY <1>6, <1>8, <3>1 DEF Sound
  <2> QED
    BY <1>9, <2>1, <2>2
<1>14. \A x, y \in DOMAIN all : all[x].id = all[y].id => x = y
  <2>1. \A x \in DOMAIN all : x # p + 1 => all[x].id \in 1 .. L
    BY <1>4, <1>7, <1>11 DEF ToSet
  <2>2. new.id = L + 1 /\ L + 1 \notin 1 .. L
    BY <1>4 DEF old
  <2>3. ASSUME NEW x \in DOMAIN all, NEW y \in DOMAIN all, x # p + 1, y # p + 1,
               all[x].id = all[y].id
        PROVE  x = y
    <3>1. From(x) = From(y)
      BY <1>4, <1>7, <1>12, <2>3
    <3> QED
      BY <1>7, <2>3, <3>1
  <2> QED
    BY <1>7, <2>1, <2>2, <2>3
<1>15. \A x, y \in ToSet(all) : Same(x, y) => x = y
  <2>1. \A x, y \in ToSet(old) : Same(x, y) => x = y
    BY DEF Base, old
  <2>2. ASSUME NEW x \in ToSet(old) PROVE ~Same(x, new) /\ ~Same(new, x)
    BY DEF Same, Current, Here, old
  <2> QED
    BY <1>9, <2>1, <2>2
<1>16. Base(j)
  <2>1. i.node \in DOMAIN form
    BY DEF Base
  <2> QED
    BY <1>8, <1>13, <1>14, <1>15, <2>1 DEF Base
<1> QED
  BY <1>2, <1>8, <1>9, <1>10, <1>16 DEF old

(* After an answer that neither ends the review nor passes the node, the   *)
(* next in turn is asked.                                                  *)
LEMMA PromoteOK ==
  ASSUME NEW i, Base(i), OpenOK(i), i.status = "reviewing",
         Node(i).type \in {"review", "handler"},
         \A t \in Current(i) :
           t.status \in Heard(i) /\ (t.status = "waiting" => Node(i).mode = "sequential"),
         \E t \in Current(i) : t.status \in Asked,
         Node(i).mode = "sequential" => \A t \in Current(i) : t.status # "pending"
  PROVE  InstanceOK(Promote(i))
<1>1. Ahead(i)
  BY DEF Ahead
<1>2. CASE Node(i).mode # "sequential"
  <2>1. Promote(i) = i
    BY <1>2 DEF Promote
  <2>2. \E t \in Current(i) : t.status = "pending"
    BY <1>2 DEF Asked
  <2>3. Turn(i)
    BY <1>2, <2>2 DEF Turn
  <2> QED
    BY <1>1, <2>1, <2>3 DEF InstanceOK
<1>3. CASE Node(i).mode = "sequential"
  <2> DEFINE waiting == {p \in DOMAIN i.tasks : /\ Here(i, i.tasks[p])
                                                /\ i.tasks[p].status = "waiting"}
             first == CHOOSE p \in waiting : \A q \in waiting : p <= q
             old == i.tasks[first]
             due == IF Node(i).timeout # "none" THEN old.id ELSE 0
             w == [old EXCEPT !.status = "pending", !.due = due]
             j == [i EXCEPT !.tasks[first] = w]
  <2>1. i \in Wide
    BY DEF Base
  <2>2. /\ DOMAIN i.tasks = 1 .. Len(i.tasks) /\ Len(i.tasks) \in Nat
        /\ \A p \in DOMAIN i.tasks : i.tasks[p] \in Slot
    BY <2>1, WideParts
  <2>3. waiting # {}
    <3>1. PICK t \in Current(i) : t.status \in Asked
      OBVIOUS
    <3>2. t.status = "waiting" /\ t \in ToSet(i.tasks) /\ Here(i, t)
      BY <1>3, <3>1 DEF Asked, Current
    <3>3. PICK p \in DOMAIN i.tasks : t = i.tasks[p]
      BY <3>2 DEF ToSet
    <3> QED
      BY <3>2, <3>3
  <2>4. Promote(i) = j
    <3>1. Promote(i) = [i EXCEPT !.tasks[first] =
             [@ EXCEPT !.status = "pending",
                       !.due = IF Node(i).timeout # "none" THEN i.tasks[first].id ELSE 0]]
      BY <1>3, <2>3, Zenon DEF Promote
    <3> QED
      BY <3>1
  <2>5. first \in waiting
    <3>1. waiting \in SUBSET Nat
      BY <2>2
    <3>2. \E p \in waiting : \A q \in waiting : p <= q
      BY <2>3, <3>1, Least, Zenon
    <3> QED
      BY <3>2, Zenon
  <2> HIDE DEF first
  <2>6. first \in DOMAIN i.tasks /\ Here(i, old) /\ old.status = "waiting"
    BY <2>5
  <2>7. old \in Slot /\ old \in ToSet(i.tasks)
    BY <2>2, <2>6 DEF ToSet
  <2>8. Sound(i, old)
    BY <2>7 DEF Base
  <2>9. due \in 0 .. Len(i.tasks) /\ due \in Nat
    BY <2>2, <2>8 DEF Sound
  <2> HIDE DEF due, old
  <2>10. w \in Slot /\ Same(w, old) /\ w.id = old.id /\ w.due = due /\ w.status = "pending"
    BY <2>7, <2>9 DEF Slot, Same, TaskStatus
  <2> HIDE DEF w
  <2>11. /\ Base(j) /\ j.status = i.status /\ j.node = i.node /\ j.round = i.round
         /\ w \in ToSet(j.tasks)
         /\ \A t \in ToSet(j.tasks) : t = w \/ t \in ToSet(i.tasks) \ {old}
    BY <2>6, <2>9, <2>10, ReplacedBase DEF old
  <2> HIDE DEF j
  <2>12. Here(j, w) /\ \A t : Here(j, t) <=> Here(i, t)
    BY <2>6, <2>10, <2>11 DEF Here, Same
  <2>13. Ahead(j)
    BY <2>11 DEF Ahead
  <2>14. OpenOK(j)
    <3>1. ASSUME NEW t \in ToSet(j.tasks)
          PROVE  /\ t.status \in Asked => Here(j, t)
                 /\ t.status # "suspended"
      BY <2>10, <2>11, <2>12 DEF OpenOK
    <3> QED
      BY <2>11, <3>1 DEF OpenOK
  <2>15. Node(j) = Node(i) /\ Heard(j) = Heard(i)
    BY <2>11 DEF Node, Heard, Said
  <2>16. \A t \in Current(j) : t = w \/ t \in Current(i)
    BY <2>11, <2>12 DEF Current
  <2>17. w \in Current(j)
    BY <2>11, <2>12 DEF Current
  <2>18. \A t \in Current(j) :
           t.status \in Heard(j) /\ (t.status = "waiting" => Node(j).mode = "sequential")
    BY <1>3, <2>10, <2>15, <2>16 DEF Heard, Asked
  <2>19. \A t \in Current(j) : t.status = "pending" => t = w
    BY <1>3, <2>16
  <2>20. Turn(j)
    BY <2>10, <2>15, <2>17, <2>18, <2>19 DEF Turn
  <2> QED
    BY <2>4, <2>11, <2>13, <2>14, <2>20 DEF InstanceOK
<1> QED
  BY <1>2, <1>3

(* Marking one open task of the current node.                              *)
LEMMA MarkOK ==
  ASSUME NEW i, InstanceOK(i), i.status = "reviewing", NEW t \in Current(i), t.status = "pending",
         NEW status \in TaskStatus \ {"pending", "waiting", "suspended"}
  PROVE  LET j == Mark(i, t, status)
         IN /\ Base(j) /\ OpenOK(j) /\ j.status = "reviewing" /\ j.node = i.node
            /\ j.round = i.round /\ Len(j.tasks) = Len(i.tasks) /\ DOMAIN j.tasks = DOMAIN i.tasks
            /\ \A p \in DOMAIN i.tasks : j.tasks[p].id = i.tasks[p].id
            /\ \A x \in Current(j) :
                 \/ x.status = status
                 \/ x \in Current(i) \ {t}
            /\ \A x \in Current(j) : \E y \in Current(i) : x.user = y.user
            /\ \A x \in Current(i) \ {t} : x \in Current(j)
            /\ \E x \in Current(j) : x.status = status
<1> DEFINE j == Mark(i, t, status)
<1>1. i \in Wide /\ Base(i)
  BY DEF InstanceOK, Base
<1>2. /\ \A x \in ToSet(i.tasks) : x \in Slot
      /\ \A p \in DOMAIN i.tasks : i.tasks[p] \in Slot
  BY <1>1, WideParts
<1>3. OnlyStamped(j, i, {t}, status) /\ Base(j)
  BY <1>1, MarkStamps, StampedType, StampedBase
<1> HIDE DEF j
<1>4. \A x \in ToSet(i.tasks) : x # t => x \in ToSet(j.tasks)
  BY <1>3 DEF OnlyStamped, Stamp
<1>5. ASSUME NEW x \in ToSet(j.tasks)
      PROVE  \E y \in ToSet(i.tasks) :
               /\ Same(x, y) /\ (Here(j, x) <=> Here(i, y))
               /\ IF y = t THEN x.status = status ELSE x = y
  <2>1. PICK y \in ToSet(i.tasks) : x = Stamp(y, {t}, status)
    BY <1>3 DEF OnlyStamped
  <2>2. Same(x, y) /\ (y = t => x.status = status)
    BY <1>2, <2>1, StampType DEF Same
  <2>3. y # t => x = y
    BY <2>1 DEF Stamp
  <2>4. Here(j, x) <=> Here(i, y)
    BY <1>3, <2>2 DEF OnlyStamped, Here, Same
  <2> QED
    BY <2>2, <2>3, <2>4
<1>6. \A x : Here(j, x) <=> Here(i, x)
  BY <1>3 DEF OnlyStamped, Here
<1>7. t \in ToSet(i.tasks) /\ Here(i, t)
  BY DEF Current
<1>8. \E x \in Current(j) : x.status = status
  <2> DEFINE x == Stamp(t, {t}, status)
  <2>1. x \in ToSet(j.tasks)
    BY <1>3, <1>7 DEF OnlyStamped
  <2>2. x.status = status /\ x.round = t.round /\ x.node = t.node
    BY <1>2, <1>7, StampType
  <2>3. Here(j, x)
    BY <1>6, <1>7, <2>2 DEF Here
  <2> HIDE DEF x
  <2> QED
    BY <2>1, <2>2, <2>3 DEF Current
<1>9. \A x \in Current(j) : x.status = status \/ x \in Current(i) \ {t}
  <2>1. ASSUME NEW x \in Current(j), x.status # status PROVE x \in Current(i) \ {t}
    <3>1. x \in ToSet(j.tasks) /\ Here(j, x)
      BY DEF Current
    <3> QED
      BY <1>5, <2>1, <3>1 DEF Current
  <2> QED
    BY <2>1
<1>10. \A x \in Current(j) : \E y \in Current(i) : x.user = y.user
  BY <1>5 DEF Current, Same
<1>11. \A x \in Current(i) \ {t} : x \in Current(j)
  BY <1>4, <1>6 DEF Current
<1>12. OpenOK(j)
  <2>1. \A x \in ToSet(i.tasks) :
          /\ x.status \in Asked => Here(i, x)
          /\ x.status # "suspended"
    BY DEF InstanceOK, OpenOK
  <2>2. ASSUME NEW x \in ToSet(j.tasks)
        PROVE  /\ x.status \in Asked => Here(j, x)
               /\ x.status # "suspended"
    <3>1. PICK y \in ToSet(i.tasks) : IF y = t THEN x.status = status ELSE x = y
      BY <1>5
    <3> QED
      BY <1>6, <2>1, <3>1 DEF Asked
  <2>3. j.status = "reviewing"
    BY <1>3 DEF OnlyStamped
  <2> QED
    BY <2>2, <2>3 DEF OpenOK
<1>13. \A p \in DOMAIN i.tasks : j.tasks[p].id = i.tasks[p].id
  BY <1>2, <1>3, StampType DEF OnlyStamped
<1> QED
  BY <1>3, <1>8, <1>9, <1>10, <1>11, <1>12, <1>13 DEF OnlyStamped, j

(* The node is passed: the rest is cancelled and the walk goes on behind.  *)
LEMMA PassOn ==
  ASSUME Published, NEW i, Base(i), OpenOK(i), i.status = "reviewing",
         Node(i).type \in {"review", "handler"}, NEW here
  PROVE  InstanceOK(AdvanceReview(CancelRest(i), Node(i).next, here))
<1> DEFINE j == CancelRest(i)
           next == Node(i).next
<1>1. \A t \in ToSet(i.tasks) : (t.status \in Asked => Here(i, t)) /\ t.status # "suspended"
  BY DEF OpenOK
<1>2. /\ Base(j) /\ j.node = i.node
      /\ \A t \in ToSet(j.tasks) : t.status \notin Asked \cup {"suspended"}
  BY <1>1, CancelRestOK
<1>3. i.node \in DOMAIN form
  BY DEF Base
<1>4. next \in DOMAIN form /\ i.node < next /\ i.node \in Nat /\ next \in Nat
  <2>1. next \in Edges(form[i.node])
    BY <1>3, NodeType DEF Node
  <2>2. next \in i.node + 1 .. Len(form) /\ i.node \in 1 .. Len(form) /\ Len(form) \in Nat
    BY <1>3, <2>1, FormType
  <2> QED
    BY <2>2, FormType
<1> HIDE DEF j, next
<1>5. ASSUME NEW t \in ToSet(j.tasks), t.round = j.round PROVE t.node < next
  <2>1. j \in Wide
    BY <1>2 DEF Base
  <2>2. t.node \in Nat /\ Sound(j, t)
    BY <1>2, <2>1, WideParts DEF Base, Slot
  <2> QED
    BY <1>2, <1>4, <1>5, <2>2 DEF Sound
<1>6. InstanceOK(AdvanceReview(j, next, here))
  BY <1>2, <1>4, <1>5, AdvanceOK
<1> QED
  BY <1>6 DEF j, next

(* Nothing is open in an instance that has ended.                          *)
LEMMA EndedOK ==
  ASSUME NEW i, Base(i), i.status \in {"approved", "rejected", "withdrawn"},
         \A t \in ToSet(i.tasks) : t.status \notin Asked \cup {"suspended"}
  PROVE  InstanceOK(i)
BY DEF InstanceOK, Ahead, OpenOK, Turn

LEMMA DecideOK ==
  ASSUME Published, NEW i, InstanceOK(i), i.status = "reviewing",
         NEW t \in Current(i), t.status = "pending", Node(i).type = "review",
         NEW vote \in {"approved", "rejected"}, NEW here
  PROVE  InstanceOK(Decide(i, t, vote, here))
<1> DEFINE j == Mark(i, t, vote)
<1>1. vote \in TaskStatus \ {"pending", "waiting", "suspended"}
  BY DEF TaskStatus
<1>2. /\ Base(j) /\ OpenOK(j) /\ j.status = "reviewing" /\ j.node = i.node
      /\ \A x \in Current(j) : x.status = vote \/ x \in Current(i) \ {t}
  BY <1>1, MarkOK
<1>3. Node(j) = Node(i) /\ Heard(j) = Heard(i)
  BY <1>2 DEF Node, Heard, Said
<1>4. /\ \A x \in Current(i) :
           x.status \in Heard(i) /\ (x.status = "waiting" => Node(i).mode = "sequential")
      /\ Node(i).mode = "sequential" =>
           \A x, y \in {z \in Current(i) : z.status = "pending"} : x = y
  BY DEF InstanceOK, Turn
<1>5. Decide(i, t, vote, here) =
        IF Refused(j) THEN CancelRest([j EXCEPT !.status = "rejected"])
        ELSE IF Passed(j) THEN AdvanceReview(CancelRest(j), Node(j).next, here)
        ELSE Promote(j)
  BY DEF Decide
<1> HIDE DEF j
<1>6. CASE Refused(j)
  <2> DEFINE k == [j EXCEPT !.status = "rejected"]
  <2>1. /\ Base(k) /\ k.status = "rejected" /\ k.node = j.node /\ k.round = j.round
        /\ k.tasks = j.tasks
    BY <1>2, StatusSet
  <2> HIDE DEF k
  <2>2. \A x \in ToSet(k.tasks) : (x.status \in Asked => Here(k, x)) /\ x.status # "suspended"
    BY <1>2, <2>1 DEF OpenOK, Here
  <2>3. /\ Base(CancelRest(k)) /\ CancelRest(k).status = "rejected"
        /\ \A x \in ToSet(CancelRest(k).tasks) : x.status \notin Asked \cup {"suspended"}
    BY <2>1, <2>2, CancelRestOK
  <2>4. InstanceOK(CancelRest(k))
    BY <2>3, EndedOK
  <2> QED
    BY <1>5, <1>6, <2>4 DEF k
<1>7. CASE ~Refused(j) /\ Passed(j)
  BY <1>2, <1>3, <1>5, <1>7, PassOn
<1>8. CASE ~Refused(j) /\ ~Passed(j)
  <2>1. \A x \in Current(j) :
          x.status \in Heard(j) /\ (x.status = "waiting" => Node(j).mode = "sequential")
    <3>1. vote \in Heard(j) /\ vote # "waiting"
      BY <1>3 DEF Heard, Said
    <3> QED
      BY <1>2, <1>3, <1>4, <3>1
  <2>2. Node(j).mode = "sequential" => \A x \in Current(j) : x.status # "pending"
    BY <1>2, <1>3, <1>4
  <2>3. ASSUME NEW x \in Live(j)
        PROVE  x \in Current(j) /\ x.status \in Asked \cup {"approved", "rejected"}
    BY <1>3, <2>1 DEF Live, Heard, Said
  <2>4. \E x \in Current(j) : x.status \in Asked
    <3>1. Node(j).allReject => Node(j).mode = "any"
      BY <1>2, NodeType DEF Base, Node
    <3>2. PICK x \in Live(j) : x.status # "approved"
      BY <1>8 DEF Passed
    <3>3. CASE Node(j).allReject
      <4>1. PICK y \in Live(j) : y.status # "rejected"
        BY <1>8, <3>3 DEF Refused
      <4>2. y.status # "approved"
        BY <1>8, <3>1, <3>3 DEF Passed
      <4> QED
        BY <2>3, <4>1, <4>2
    <3>4. CASE ~Node(j).allReject
      BY <1>8, <2>3, <3>2, <3>4 DEF Refused
    <3> QED
      BY <3>3, <3>4
  <2>5. InstanceOK(Promote(j))
    BY <1>2, <1>3, <2>1, <2>2, <2>4, PromoteOK
  <2> QED
    BY <1>5, <1>8, <2>5
<1> QED
  BY <1>6, <1>7, <1>8

LEMMA CompleteOK ==
  ASSUME Published, NEW i, InstanceOK(i), i.status = "reviewing",
         NEW t \in Current(i), t.status = "pending", Node(i).type = "handler", NEW here
  PROVE  InstanceOK(Complete(i, t, here))
<1> DEFINE j == Mark(i, t, "completed")
<1>1. "completed" \in TaskStatus \ {"pending", "waiting", "suspended"}
  BY DEF TaskStatus
<1>2. /\ Base(j) /\ OpenOK(j) /\ j.status = "reviewing" /\ j.node = i.node
      /\ \A x \in Current(j) : x.status = "completed" \/ x \in Current(i) \ {t}
  BY <1>1, MarkOK
<1>3. Node(j) = Node(i) /\ Heard(j) = Heard(i)
  BY <1>2 DEF Node, Heard, Said
<1>4. /\ \A x \in Current(i) :
           x.status \in Heard(i) /\ (x.status = "waiting" => Node(i).mode = "sequential")
      /\ Node(i).mode = "sequential" =>
           \A x, y \in {z \in Current(i) : z.status = "pending"} : x = y
  BY DEF InstanceOK, Turn
<1>5. Complete(i, t, here) =
        IF Node(j).mode = "any" \/ \A x \in Live(j) : x.status = "completed"
        THEN AdvanceReview(CancelRest(j), Node(j).next, here)
        ELSE Promote(j)
  BY DEF Complete
<1> HIDE DEF j
<1>6. CASE Node(j).mode = "any" \/ \A x \in Live(j) : x.status = "completed"
  BY <1>2, <1>3, <1>5, <1>6, PassOn
<1>7. CASE ~ (Node(j).mode = "any" \/ \A x \in Live(j) : x.status = "completed")
  <2>1. \A x \in Current(j) :
          x.status \in Heard(j) /\ (x.status = "waiting" => Node(j).mode = "sequential")
    <3>1. "completed" \in Heard(j)
      BY <1>3 DEF Heard, Said
    <3> QED
      BY <1>2, <1>3, <1>4, <3>1
  <2>2. Node(j).mode = "sequential" => \A x \in Current(j) : x.status # "pending"
    BY <1>2, <1>3, <1>4
  <2>3. \E x \in Current(j) : x.status \in Asked
    <3>1. PICK x \in Live(j) : x.status # "completed"
      BY <1>7
    <3>2. x \in Current(j) /\ x.status \in Asked
      BY <1>3, <2>1, <3>1 DEF Live, Heard, Said
    <3> QED
      BY <3>2
  <2>4. InstanceOK(Promote(j))
    BY <1>2, <1>3, <2>1, <2>2, <2>3, PromoteOK
  <2> QED
    BY <1>5, <1>7, <2>4
<1> QED
  BY <1>6, <1>7

(* A task added to an instance under review, pending only if nobody else   *)
(* has to act first.                                                       *)
LEMMA AddedOK ==
  ASSUME NEW i, Base(i), OpenOK(i), i.status = "reviewing",
         Node(i).type \in {"review", "handler"},
         \A x \in Current(i) :
           x.status \in Heard(i) /\ (x.status = "waiting" => Node(i).mode = "sequential"),
         NEW t, \E q \in DOMAIN i.tasks : i.tasks[q].id = t.id,
         NEW new \in Slot, new.id = Len(i.tasks) + 1, new.due \in 0 .. Len(i.tasks) + 1,
         new.node = i.node, new.round = i.round, new.user # Requester,
         \A x \in Current(i) : x.user # new.user,
         new.status \in Asked, new.status = "waiting" => Node(i).mode = "sequential",
         new.status = "pending" \/ \E x \in Current(i) : x.status = "pending",
         Node(i).mode = "sequential" =>
           \A x, y \in {z \in Current(i) \cup {new} : z.status = "pending"} : x = y
  PROVE  InstanceOK(InsertAfter(i, t, new))
<1> DEFINE j == InsertAfter(i, t, new)
<1>1. /\ Base(j) /\ j.status = i.status /\ j.node = i.node /\ j.round = i.round
      /\ new \in ToSet(j.tasks)
      /\ \A x \in ToSet(i.tasks) : x \in ToSet(j.tasks)
      /\ \A x \in ToSet(j.tasks) : x = new \/ x \in ToSet(i.tasks)
  BY InsertedBase
<1> HIDE DEF j
<1>2. Here(j, new) /\ \A x : Here(j, x) <=> Here(i, x)
  BY <1>1 DEF Here
<1>3. /\ new \in Current(j) /\ \A x \in Current(i) : x \in Current(j)
      /\ \A x \in Current(j) : x = new \/ x \in Current(i)
  BY <1>1, <1>2 DEF Current
<1>4. Node(j) = Node(i) /\ Heard(j) = Heard(i)
  BY <1>1 DEF Node, Heard, Said
<1>5. Ahead(j)
  BY <1>1 DEF Ahead
<1>6. OpenOK(j)
  <2>1. ASSUME NEW x \in ToSet(j.tasks)
        PROVE  (x.status \in Asked => Here(j, x)) /\ x.status # "suspended"
    <3>1. CASE x = new
      BY <1>2, <3>1 DEF Asked
    <3>2. CASE x \in ToSet(i.tasks)
      BY <1>2, <3>2 DEF OpenOK
    <3> QED
      BY <1>1, <3>1, <3>2
  <2> QED
    BY <1>1, <2>1 DEF OpenOK
<1>7. Turn(j)
  <2>1. \E x \in Current(j) : x.status = "pending"
    BY <1>3
  <2>2. \A x \in Current(j) :
          x.status \in Heard(j) /\ (x.status = "waiting" => Node(j).mode = "sequential")
    BY <1>3, <1>4 DEF Heard
  <2>3. ASSUME Node(j).mode = "sequential",
               NEW x \in {z \in Current(j) : z.status = "pending"},
               NEW y \in {z \in Current(j) : z.status = "pending"}
        PROVE  x = y
    BY <1>3, <1>4, <2>3
  <2> QED
    BY <1>4, <2>1, <2>2, <2>3 DEF Turn
<1>8. InstanceOK(j)
  BY <1>1, <1>5, <1>6, <1>7 DEF InstanceOK
<1> QED
  BY <1>8 DEF j

LEMMA ReassignOK ==
  ASSUME NEW i, InstanceOK(i), i.status = "reviewing", NEW t \in Current(i), t.status = "pending",
         NEW target \in Person, target # Requester, \A x \in Current(i) : x.user # target,
         NEW source \in {"transfer", "timeout"}
  PROVE  InstanceOK(Reassign(i, t, target, source))
<1> DEFINE j == Mark(i, t, "transferred")
           num == Len(i.tasks) + 1
           reset == source = "timeout" \/ Node(i).deadline = "reset"
           due == IF t.due = 0 THEN 0 ELSE IF reset THEN num ELSE t.due
           new == [t EXCEPT !.id = num, !.user = target, !.source = source, !.due = due]
<1>1. "transferred" \in TaskStatus \ {"pending", "waiting", "suspended"}
  BY DEF TaskStatus
<1>2. /\ Base(j) /\ OpenOK(j) /\ j.status = "reviewing" /\ j.node = i.node
      /\ j.round = i.round /\ Len(j.tasks) = Len(i.tasks) /\ DOMAIN j.tasks = DOMAIN i.tasks
      /\ \A p \in DOMAIN i.tasks : j.tasks[p].id = i.tasks[p].id
      /\ \A x \in Current(j) : x.status = "transferred" \/ x \in Current(i) \ {t}
      /\ \A x \in Current(j) : \E y \in Current(i) : x.user = y.user
  BY <1>1, MarkOK
<1>3. Reassign(i, t, target, source) = InsertAfter(j, t, new)
  BY DEF Reassign
<1> HIDE DEF j
<1>4. i \in Wide /\ Base(i)
  BY DEF InstanceOK, Base
<1>5. t \in ToSet(i.tasks) /\ Here(i, t)
  BY DEF Current
<1>6. Len(i.tasks) \in Nat /\ t \in Slot /\ Sound(i, t)
  BY <1>4, <1>5, WideParts DEF Base
<1>7. num \in Nat /\ due \in 0 .. Len(i.tasks) + 1 /\ due \in Nat
  BY <1>6 DEF Sound
<1> HIDE DEF due, num
<1>8. /\ new \in Slot /\ new.id = num /\ new.due = due /\ new.user = target
      /\ new.node = t.node /\ new.round = t.round /\ new.status = t.status
  BY <1>6, <1>7 DEF Slot
<1> HIDE DEF new
<1>9. \E q \in DOMAIN j.tasks : j.tasks[q].id = t.id
  BY <1>2, <1>5 DEF ToSet
<1>10. Node(j) = Node(i) /\ Heard(j) = Heard(i)
  BY <1>2 DEF Node, Heard, Said
<1>11. /\ Node(i).type \in {"review", "handler"}
       /\ \A x \in Current(i) :
           x.status \in Heard(i) /\ (x.status = "waiting" => Node(i).mode = "sequential")
       /\ Node(i).mode = "sequential" =>
           \A x, y \in {z \in Current(i) : z.status = "pending"} : x = y
  BY DEF InstanceOK, Turn
<1>12. \A x \in Current(j) :
         x.status \in Heard(j) /\ (x.status = "waiting" => Node(j).mode = "sequential")
  <2>1. "transferred" \in Heard(j)
    BY DEF Heard
  <2> QED
    BY <1>2, <1>10, <1>11, <2>1
<1>13. Node(j).mode = "sequential" =>
         \A x, y \in {z \in Current(j) \cup {new} : z.status = "pending"} : x = y
  <2>1. Node(j).mode = "sequential" => \A x \in Current(j) : x.status # "pending"
    BY <1>2, <1>10, <1>11
  <2> QED
    BY <2>1
<1>14. new.status = "pending" /\ new.status \in Asked
  BY <1>8 DEF Asked
<1>15. \A x \in Current(j) : x.user # new.user
  BY <1>2, <1>8
<1>16. new.node = j.node /\ new.round = j.round /\ new.user # Requester
  BY <1>2, <1>5, <1>8 DEF Here
<1>17. new.id = Len(j.tasks) + 1 /\ new.due \in 0 .. Len(j.tasks) + 1
  BY <1>2, <1>7, <1>8 DEF num
<1>18. InstanceOK(InsertAfter(j, t, new))
  BY <1>2, <1>8, <1>9, <1>10, <1>11, <1>12, <1>13, <1>14, <1>15, <1>16, <1>17, AddedOK
<1> QED
  BY <1>3, <1>18

LEMMA CountersignOK ==
  ASSUME NEW i, InstanceOK(i), i.status = "reviewing", NEW t \in Current(i), t.status = "pending",
         NEW target \in Person, target # Requester, \A x \in Current(i) : x.user # target
  PROVE  InstanceOK(Countersign(i, t, target))
<1> DEFINE later == Node(i).mode = "sequential"
           num == Len(i.tasks) + 1
           status == IF later THEN "waiting" ELSE "pending"
           due == IF later THEN 0 ELSE t.due
           new == [t EXCEPT !.id = num, !.user = target, !.source = "countersign",
                            !.status = status, !.due = due]
<1>1. Countersign(i, t, target) = InsertAfter(i, t, new)
  BY DEF Countersign
<1>2. i \in Wide /\ Base(i) /\ OpenOK(i)
  BY DEF InstanceOK, Base
<1>3. t \in ToSet(i.tasks) /\ Here(i, t)
  BY DEF Current
<1>4. Len(i.tasks) \in Nat /\ t \in Slot /\ Sound(i, t)
  BY <1>2, <1>3, WideParts DEF Base
<1>5. num \in Nat /\ due \in 0 .. Len(i.tasks) + 1 /\ due \in Nat
  BY <1>4 DEF Sound
<1>6. status \in TaskStatus /\ status \in Asked /\ (status = "waiting" <=> later)
  BY DEF TaskStatus, Asked
<1> HIDE DEF due, num, status
<1>7. /\ new \in Slot /\ new.id = num /\ new.due = due /\ new.user = target
      /\ new.node = t.node /\ new.round = t.round /\ new.status = status
  BY <1>4, <1>5, <1>6 DEF Slot
<1> HIDE DEF new
<1>8. \E q \in DOMAIN i.tasks : i.tasks[q].id = t.id
  BY <1>3 DEF ToSet
<1>9. /\ Node(i).type \in {"review", "handler"}
      /\ \A x \in Current(i) :
           x.status \in Heard(i) /\ (x.status = "waiting" => Node(i).mode = "sequential")
      /\ Node(i).mode = "sequential" =>
           \A x, y \in {z \in Current(i) : z.status = "pending"} : x = y
  BY DEF InstanceOK, Turn
<1>10. later => \A x, y \in {z \in Current(i) \cup {new} : z.status = "pending"} : x = y
  BY <1>6, <1>7, <1>9
<1>11. new.node = i.node /\ new.round = i.round
  BY <1>3, <1>7 DEF Here
<1>12. new.id = Len(i.tasks) + 1 /\ new.due \in 0 .. Len(i.tasks) + 1
  BY <1>5, <1>7 DEF num
<1>13. InstanceOK(InsertAfter(i, t, new))
  BY <1>2, <1>6, <1>7, <1>8, <1>9, <1>10, <1>11, <1>12, AddedOK
<1> QED
  BY <1>1, <1>13

LEMMA AmendmentOK ==
  ASSUME NEW i, InstanceOK(i), i.status = "reviewing"
  PROVE  InstanceOK(RequestAmendment(i))
<1> DEFINE j == [i EXCEPT !.status = "awaiting_amendment"]
           S == Remaining(j)
           k == Stamped(j, S, "suspended")
<1>1. i \in Wide /\ Base(i) /\ "suspended" \in TaskStatus
  BY DEF InstanceOK, Base, TaskStatus
<1>2. RequestAmendment(i) = k
  BY <1>1, AmendmentStamps
<1>3. /\ Base(j) /\ j.status = "awaiting_amendment" /\ j.node = i.node /\ j.round = i.round
      /\ j.tasks = i.tasks
  BY <1>1, StatusSet DEF Open
<1> HIDE DEF j
<1>4. j \in Wide /\ \A x \in ToSet(j.tasks) : x \in Slot
  <2>1. j \in Wide
    BY <1>3 DEF Base
  <2> QED
    BY <2>1, WideParts
<1>5. OnlyStamped(k, j, S, "suspended") /\ Base(k)
  BY <1>1, <1>3, <1>4, StampedType, StampedBase
<1> HIDE DEF k
<1>6. k.status = "awaiting_amendment" /\ \A x : Here(k, x) <=> Here(j, x)
  BY <1>3, <1>5 DEF OnlyStamped, Here
<1>7. ASSUME NEW t \in ToSet(k.tasks)
      PROVE  t.status \notin Asked /\ (t.status = "suspended" => Here(k, t))
  <2>1. PICK x \in ToSet(j.tasks) : t = Stamp(x, S, "suspended")
    BY <1>5 DEF OnlyStamped
  <2>2. /\ t.status = IF x \in S THEN "suspended" ELSE x.status
        /\ t.round = x.round /\ t.node = x.node
    BY <1>1, <1>4, <2>1, StampType
  <2>3. (x.status \in Asked => Here(j, x)) /\ x.status # "suspended"
    BY <1>3 DEF InstanceOK, OpenOK, Here
  <2>4. x \in S <=> Here(j, x) /\ x.status \in Asked
    BY DEF Remaining, Asked
  <2>5. Here(j, x) <=> Here(k, t)
    BY <1>6, <2>2 DEF Here
  <2> HIDE DEF S
  <2> QED
    BY <2>2, <2>3, <2>4, <2>5 DEF Asked
<1>8. InstanceOK(k)
  BY <1>5, <1>6, <1>7 DEF InstanceOK, Ahead, OpenOK, Turn
<1> QED
  BY <1>2, <1>8

(* Nothing is left open once the unsettled tasks are closed.               *)
LEMMA SettleOK ==
  ASSUME NEW i, Base(i), NEW status \in {"cancelled", "superseded"}
  PROVE  LET j == Stamped(i, Unsettled(i), status)
         IN /\ Base(j) /\ j.status = i.status /\ j.round = i.round /\ j.node = i.node
            /\ \A t \in ToSet(j.tasks) : t.status \notin Asked \cup {"suspended"}
<1> DEFINE S == Unsettled(i)
           j == Stamped(i, S, status)
<1>1. i \in Wide /\ status \in TaskStatus
  BY DEF Base, TaskStatus
<1>2. OnlyStamped(j, i, S, status) /\ Base(j)
  BY <1>1, StampedType, StampedBase
<1>3. \A x \in ToSet(i.tasks) : x \in Slot
  BY <1>1, WideParts
<1> HIDE DEF j
<1>4. ASSUME NEW t \in ToSet(j.tasks) PROVE t.status \notin Asked \cup {"suspended"}
  <2>1. PICK x \in ToSet(i.tasks) : t = Stamp(x, S, status)
    BY <1>2 DEF OnlyStamped
  <2>2. t.status = IF x \in S THEN status ELSE x.status
    BY <1>1, <1>3, <2>1, StampType
  <2>3. x.status \in Asked \cup {"suspended"} => x \in S
    BY DEF Unsettled, Asked
  <2> HIDE DEF S
  <2> QED
    BY <2>2, <2>3 DEF Asked
<1> QED
  BY <1>2, <1>4 DEF OnlyStamped, j

LEMMA WithdrawOK ==
  ASSUME NEW i, InstanceOK(i)
  PROVE  InstanceOK(Withdraw(i))
<1> DEFINE j == [i EXCEPT !.status = "withdrawn"]
           k == Stamped(j, Unsettled(j), "cancelled")
<1>1. Withdraw(i) = k
  BY WithdrawStamps
<1>2. Base(j) /\ j.status = "withdrawn"
  BY StatusSet DEF InstanceOK
<1> HIDE DEF j
<1>3. /\ Base(k) /\ k.status = "withdrawn"
      /\ \A t \in ToSet(k.tasks) : t.status \notin Asked \cup {"suspended"}
  BY <1>2, SettleOK
<1> HIDE DEF k
<1>4. InstanceOK(k)
  BY <1>3, EndedOK
<1> QED
  BY <1>1, <1>4

LEMMA ResubmitOK ==
  ASSUME Published, NEW i, InstanceOK(i), NEW value \in Value, NEW here
  PROVE  InstanceOK(Resubmit(i, value, here))
<1> DEFINE old == Stamped(i, Unsettled(i), "superseded")
           j == [old EXCEPT !.round = @ + 1, !.value = value]
<1>1. Resubmit(i, value, here) = AdvanceReview(j, 1, here)
  BY ResubmitStamps
<1>2. /\ Base(old)
      /\ \A t \in ToSet(old.tasks) : t.status \notin Asked \cup {"suspended"}
  BY SettleOK DEF InstanceOK
<1> HIDE DEF old
<1>3. old \in Wide /\ old.round \in Nat /\ \A t \in ToSet(old.tasks) : t \in Slot
  <2>1. old \in Wide
    BY <1>2 DEF Base
  <2> QED
    BY <2>1, WideParts
<1>4. j \in Wide /\ j.tasks = old.tasks /\ j.node = old.node /\ j.round = old.round + 1
  <2> DEFINE next == old.round + 1
  <2>1. j = [old EXCEPT !.round = next, !.value = value]
    OBVIOUS
  <2>2. next \in Nat
    BY <1>3
  <2> HIDE DEF next, j
  <2>3. j \in Wide /\ j.tasks = old.tasks /\ j.node = old.node /\ j.round = next
    BY <1>3, <2>1, <2>2 DEF Wide
  <2> QED
    BY <2>3 DEF next
<1> HIDE DEF j
<1>5. Base(j)
  BY <1>2, <1>4, BaseKept
<1>6. ASSUME NEW t \in ToSet(j.tasks) PROVE t.round # j.round
  <2>1. Sound(old, t) /\ t.round \in Nat
    BY <1>2, <1>3, <1>4 DEF Base, Slot
  <2> QED
    BY <1>3, <1>4, <2>1 DEF Sound
<1>7. 1 \in DOMAIN form
  BY FormType
<1>8. InstanceOK(AdvanceReview(j, 1, here))
  BY <1>2, <1>4, <1>5, <1>6, <1>7, AdvanceOK
<1> QED
  BY <1>1, <1>8

LEMMA RetryOK ==
  ASSUME Published, NEW i, InstanceOK(i), i.status = "blocked", NEW here
  PROVE  InstanceOK(AdvanceReview(i, i.node, here))
<1>1. i \in Wide /\ Base(i) /\ i.node \in DOMAIN form
  BY DEF InstanceOK, Base
<1>2. i.node \in Nat /\ \A t \in ToSet(i.tasks) : t \in Slot
  BY <1>1, WideParts
<1>3. ASSUME NEW t \in ToSet(i.tasks)
      PROVE  /\ t.status \notin Asked \cup {"suspended"}
             /\ t.round = i.round => t.node < i.node
  <2>1. t.node \in Nat /\ Sound(i, t)
    BY <1>1, <1>2 DEF Base, Slot
  <2>2. ~Here(i, t)
    BY DEF InstanceOK, Ahead
  <2>3. t.status \notin Asked \cup {"suspended"}
    BY DEF InstanceOK, OpenOK
  <2> QED
    BY <1>2, <2>1, <2>2, <2>3 DEF Sound, Here
<1> QED
  BY <1>1, <1>3, AdvanceOK

(* The number of a version is no part of what an instance must be.         *)
LEMMA VersionOK ==
  ASSUME NEW i, InstanceOK(i)
  PROVE  InstanceOK([i EXCEPT !.version = @ + 1])
<1> DEFINE j == [i EXCEPT !.version = @ + 1]
<1>1. i \in Wide /\ Base(i)
  BY DEF InstanceOK, Base
<1>2. /\ j \in Wide /\ j.status = i.status /\ j.node = i.node /\ j.round = i.round
      /\ j.tasks = i.tasks
  BY <1>1, WideParts DEF Wide
<1> HIDE DEF j
<1>3. Base(j)
  BY <1>1, <1>2, BaseKept
<1>4. (\A t : Here(j, t) <=> Here(i, t)) /\ Current(j) = Current(i)
  <2>1. \A t : Here(j, t) <=> Here(i, t)
    BY <1>2 DEF Here
  <2> QED
    BY <1>2, <2>1 DEF Current
<1>5. Node(j) = Node(i) /\ Heard(j) = Heard(i)
  BY <1>2 DEF Node, Heard, Said
<1>6. Ahead(j) /\ OpenOK(j)
  BY <1>2, <1>4 DEF InstanceOK, Ahead, OpenOK
<1>7. Turn(j)
  BY <1>2, <1>4, <1>5 DEF InstanceOK, Turn
<1>8. InstanceOK(j)
  BY <1>3, <1>6, <1>7 DEF InstanceOK
<1> QED
  BY <1>8 DEF j

(***************************************************************************)
(* The invariant: the row, and whatever a request is about to write, is an *)
(* instance in order.                                                      *)
(***************************************************************************)
Held(i) == InstanceOK(i) /\ Fits(i)

ReviewOK ==
  /\ TypeOK /\ Published
  /\ Held(row)
  /\ \A s \in Session : sessions[s] = Idle \/ Held(sessions[s])

LEMMA HeldType ==
  ASSUME NEW i, Held(i)
  PROVE  /\ i \in Instance /\ Timers(i) \subseteq TaskId
         /\ \A t \in ToSet(i.tasks) : t.id \in TaskId /\ t.due \in 0 .. MaxTask
<1>1. i \in Wide /\ Base(i)
  BY DEF Held, InstanceOK, Base
<1>2. /\ i.tasks \in Seq(Slot) /\ Len(i.tasks) \in Nat /\ DOMAIN i.tasks = 1 .. Len(i.tasks)
      /\ \A p \in DOMAIN i.tasks : i.tasks[p] \in Slot
  BY <1>1, WideParts
<1>3. MaxTask \in Nat /\ Len(i.tasks) <= MaxTask
  BY ReviewAssumption DEF Held, Fits
<1>4. ASSUME NEW t \in ToSet(i.tasks) PROVE t.id \in TaskId /\ t.due \in 0 .. MaxTask
  BY <1>1, <1>2, <1>3 DEF Base, Sound, TaskId
<1>5. ASSUME NEW p \in DOMAIN i.tasks PROVE i.tasks[p] \in Task
  <2>1. i.tasks[p] \in Slot /\ i.tasks[p].id \in TaskId
    BY <1>2, <1>4 DEF ToSet
  <2> QED
    BY <2>1 DEF Slot, Task
<1>6. i.tasks \in Seq(Task)
  BY <1>2, <1>5
<1>7. i \in Instance
  BY <1>1, <1>6 DEF Wide, Instance
<1>8. Timers(i) \subseteq TaskId
  BY <1>4 DEF Timers, Current
<1> QED
  BY <1>4, <1>7, <1>8

LEMMA InitOK == Init => ReviewOK
<1> SUFFICES ASSUME Init PROVE ReviewOK
  OBVIOUS
<1>1. Published
  BY DEF Init, Published
<1>2. PICK value \in Answers :
        row = AdvanceReview([status |-> "reviewing", node |-> 1, round |-> 1, version |-> 1,
                             value |-> value, tasks |-> <<>>], 1, present)
  BY DEF Init
<1> DEFINE i == [status |-> "reviewing", node |-> 1, round |-> 1, version |-> 1,
                 value |-> value, tasks |-> <<>>]
<1>3. value \in Value
  BY ReviewAssumption DEF Answers
<1>4. /\ i \in Wide /\ i.node = 1 /\ ToSet(i.tasks) = {} /\ DOMAIN i.tasks = {}
  BY <1>3 DEF Wide, Open, ToSet
<1>5. row = AdvanceReview(i, 1, present)
  BY <1>2
<1> HIDE DEF i
<1>6. 1 \in DOMAIN form
  BY <1>1, FormType
<1>7. Base(i)
  BY <1>4, <1>6 DEF Base
<1>8. InstanceOK(row)
  BY <1>1, <1>4, <1>5, <1>6, <1>7, AdvanceOK
<1>9. Held(row)
  BY <1>8 DEF Held, Init
<1>10. row \in Instance /\ Timers(row) \subseteq TaskId
  BY <1>9, HeldType
<1>11. TypeOK
  BY <1>10 DEF Init, TypeOK
<1> QED
  BY <1>1, <1>9, <1>11 DEF Init, ReviewOK

(* An instance is in order or not whatever else changes, while the form    *)
(* stays.                                                                  *)
LEMMA FormKept ==
  ASSUME form' = form, NEW i
  PROVE  Held(i)' <=> Held(i)
<1>1. Base(i)' <=> Base(i)
  BY DEF Base, Sound
<1>2. Turn(i)' <=> Turn(i)
  BY DEF Turn, Node, Heard, Said
<1>3. InstanceOK(i)' <=> InstanceOK(i)
  BY <1>1, <1>2 DEF InstanceOK, Ahead, OpenOK
<1> QED
  BY <1>3 DEF Held

(* A request that has computed an instance in order.                       *)
LEMMA HoldOK ==
  ASSUME ReviewOK, NEW s \in Session, NEW i, InstanceOK(i), Hold(s, i)
  PROVE  ReviewOK'
<1> DEFINE j == [i EXCEPT !.version = @ + 1]
<1>1. i \in Wide
  BY DEF InstanceOK, Base
<1>2. InstanceOK(j) /\ j.tasks = i.tasks
  BY <1>1, VersionOK, WideParts DEF Wide
<1>3. sessions' = [sessions EXCEPT ![s] = j]
  BY DEF Hold
<1> HIDE DEF j
<1>4. Held(j)
  BY <1>2 DEF Held, Hold, Fits
<1>5. j \in Instance
  BY <1>4, HeldType
<1>6. TypeOK'
  BY <1>3, <1>5 DEF Hold, ReviewOK, TypeOK
<1>7. ASSUME NEW r \in Session PROVE sessions'[r] = Idle \/ Held(sessions'[r])
  BY <1>3, <1>4 DEF ReviewOK, TypeOK
<1>8. Published'
  BY DEF Hold, ReviewOK, Published
<1>9. form' = form /\ row' = row
  BY DEF Hold
<1>10. Held(row)'
  BY <1>9, FormKept DEF ReviewOK
<1>11. \A r \in Session : (sessions[r] = Idle \/ Held(sessions[r]))'
  BY <1>7, <1>9, FormKept
<1> QED
  BY <1>6, <1>8, <1>10, <1>11 DEF ReviewOK

(* What a participant may act on is an open task of the current node.      *)
LEMMA ActsOnOpen ==
  ASSUME NEW t, MayAct(row, t, present)
  PROVE  row.status = "reviewing" /\ t \in Current(row) /\ t.status = "pending"
BY DEF MayAct

LEMMA TargetsType ==
  ASSUME NEW i, NEW rule \in Rule, NEW here, NEW target \in Targets(i, rule, here)
  PROVE  /\ target \in Person /\ target # Requester
         /\ \A x \in Current(i) : x.user # target
<1>1. Candidates(rule, here) \in Seq(Person)
  BY CandidatesType
<1> DEFINE users == Candidates(rule, here)
<1> HIDE DEF users
<1>2. \A u \in ToSet(users) : u \in Person
  BY <1>1 DEF ToSet, users
<1> QED
  BY <1>2 DEF Targets, users

(* Every request computes an instance in order from the row.               *)
LEMMA RequestOK ==
  ASSUME ReviewOK, NEW s \in Session, NEW t \in Current(row),
         \/ \E vote \in {"approved", "rejected"} : Judge(s, t, vote)
         \/ CompleteTask(s, t) \/ AskAmendment(s, t)
         \/ \E target \in Person : Transfer(s, t, target) \/ AddSigner(s, t, target)
  PROVE  ReviewOK'
<1>1. Published /\ InstanceOK(row)
  BY DEF ReviewOK, Held
<1>2. Node(row).transfer \in Rule /\ Node(row).countersign \in Rule
  BY <1>1, NodeType DEF InstanceOK, Base, Node
<1>3. ASSUME NEW vote \in {"approved", "rejected"}, Judge(s, t, vote) PROVE ReviewOK'
  <2>1. InstanceOK(Decide(row, t, vote, present))
    BY <1>1, <1>3, ActsOnOpen, DecideOK DEF Judge
  <2> QED
    BY <1>3, <2>1, HoldOK DEF Judge
<1>4. ASSUME CompleteTask(s, t) PROVE ReviewOK'
  <2>1. InstanceOK(Complete(row, t, present))
    BY <1>1, <1>4, ActsOnOpen, CompleteOK DEF CompleteTask
  <2> QED
    BY <1>4, <2>1, HoldOK DEF CompleteTask
<1>5. ASSUME AskAmendment(s, t) PROVE ReviewOK'
  <2>1. InstanceOK(RequestAmendment(row))
    BY <1>1, <1>5, ActsOnOpen, AmendmentOK DEF AskAmendment
  <2> QED
    BY <1>5, <2>1, HoldOK DEF AskAmendment
<1>6. ASSUME NEW target \in Person, Transfer(s, t, target) PROVE ReviewOK'
  <2>1. target # Requester /\ \A x \in Current(row) : x.user # target
    BY <1>2, <1>6, TargetsType DEF Transfer
  <2>2. InstanceOK(Reassign(row, t, target, "transfer"))
    BY <1>1, <1>6, <2>1, ActsOnOpen, ReassignOK DEF Transfer
  <2> QED
    BY <1>6, <2>2, HoldOK DEF Transfer
<1>7. ASSUME NEW target \in Person, AddSigner(s, t, target) PROVE ReviewOK'
  <2>1. target # Requester /\ \A x \in Current(row) : x.user # target
    BY <1>2, <1>7, TargetsType DEF AddSigner
  <2>2. InstanceOK(Countersign(row, t, target))
    BY <1>1, <1>7, <2>1, ActsOnOpen, CountersignOK DEF AddSigner
  <2> QED
    BY <1>7, <2>2, HoldOK DEF AddSigner
<1> QED
  BY <1>3, <1>4, <1>5, <1>6, <1>7

LEMMA RequesterOK ==
  ASSUME ReviewOK, NEW s \in Session,
         (\E value \in Answers : SubmitAgain(s, value)) \/ WithdrawIt(s) \/ Retry(s)
  PROVE  ReviewOK'
<1>1. Published /\ InstanceOK(row)
  BY DEF ReviewOK, Held
<1>2. ASSUME NEW value \in Answers, SubmitAgain(s, value) PROVE ReviewOK'
  <2>1. value \in Value
    BY ReviewAssumption DEF Answers
  <2>2. InstanceOK(Resubmit(row, value, present))
    BY <1>1, <2>1, ResubmitOK
  <2> QED
    BY <1>2, <2>2, HoldOK DEF SubmitAgain
<1>3. ASSUME WithdrawIt(s) PROVE ReviewOK'
  <2>1. InstanceOK(Withdraw(row))
    BY <1>1, WithdrawOK
  <2> QED
    BY <1>3, <2>1, HoldOK DEF WithdrawIt
<1>4. ASSUME Retry(s) PROVE ReviewOK'
  <2>1. InstanceOK(AdvanceReview(row, row.node, present))
    BY <1>1, <1>4, RetryOK DEF Retry
  <2> QED
    BY <1>4, <2>1, HoldOK DEF Retry
<1> QED
  BY <1>2, <1>3, <1>4

(* The row becomes an instance in order.                                   *)
LEMMA WriteOK ==
  ASSUME ReviewOK, form' = form, Held(row'), TypeOK',
         \A s \in Session : sessions'[s] \in {Idle, sessions[s]}
  PROVE  ReviewOK'
<1>1. Held(row)'
  BY FormKept
<1>2. Published'
  BY DEF ReviewOK, Published, ValidateDefinition, WellFormed, Bypass
<1>3. \A s \in Session : sessions'[s] = Idle \/ Held(sessions'[s])
  BY DEF ReviewOK
<1>4. \A s \in Session : (sessions[s] = Idle \/ Held(sessions[s]))'
  BY <1>3, FormKept
<1> QED
  BY <1>1, <1>2, <1>4 DEF ReviewOK

LEMMA CommitOK ==
  ASSUME ReviewOK, NEW s \in Session, Commit(s)
  PROVE  ReviewOK'
<1>1. Held(row')
  BY DEF ReviewOK, Commit
<1>2. row' \in Instance /\ Timers(row') \subseteq TaskId
  BY <1>1, HeldType
<1>3. TypeOK'
  BY <1>2 DEF Commit, ReviewOK, TypeOK
<1>4. \A r \in Session : sessions'[r] \in {Idle, sessions[r]}
  BY DEF Commit, ReviewOK, TypeOK
<1> QED
  BY <1>1, <1>3, <1>4, WriteOK DEF Commit

LEMMA GiveUpOK ==
  ASSUME ReviewOK, NEW s \in Session, GiveUp(s)
  PROVE  ReviewOK'
<1>1. Held(row')
  BY DEF ReviewOK, GiveUp
<1>2. TypeOK'
  BY DEF GiveUp, ReviewOK, TypeOK
<1>3. \A r \in Session : sessions'[r] \in {Idle, sessions[r]}
  BY DEF GiveUp, ReviewOK, TypeOK
<1> QED
  BY <1>1, <1>2, <1>3, WriteOK DEF GiveUp

(* The tasks a timer runs for, and the deadlines, are numbered tasks.      *)
LEMMA TimerOK ==
  ASSUME ReviewOK, NEW t \in AllTasks, RunTimer(t)
  PROVE  ReviewOK'
<1>1. t.id \in TaskId
  BY HeldType DEF ReviewOK, AllTasks
<1>2. CASE SkipTimeout(t) \/ FailTimeout(t)
  <2>1. Held(row') /\ form' = form /\ sessions' = sessions
    BY <1>2 DEF ReviewOK, SkipTimeout, FailTimeout
  <2>2. TypeOK'
    BY <1>1, <1>2 DEF SkipTimeout, FailTimeout, ReviewOK, TypeOK
  <2> QED
    BY <2>1, <2>2, WriteOK
<1>3. CASE HandleTimeout(t)
  <2> DEFINE i == Escalation(t)
  <2>1. Published /\ InstanceOK(row)
    BY DEF ReviewOK, Held
  <2>2. row.status = "reviewing" /\ t \in Current(row) /\ t.status = "pending"
    <3>1. row.status = "reviewing" /\ t.status = "pending" /\ t \in ToSet(row.tasks)
      BY <1>3 DEF HandleTimeout, Outdated, AllTasks
    <3>2. Here(row, t)
      BY <2>1, <3>1 DEF InstanceOK, OpenOK, Asked
    <3> QED
      BY <3>1, <3>2 DEF Current
  <2>3. InstanceOK(i)
    <3> DEFINE targets == Targets(row, Node(row).escalate, present)
    <3>1. CASE i = row
      BY <2>1, <3>1
    <3>2. CASE i # row
      <4> DEFINE u == CHOOSE x \in targets : TRUE
      <4>1. i = Reassign(row, t, u, "timeout") /\ Cardinality(targets) = 1
        BY <3>2 DEF Escalation
      <4>2. u \in targets
        <5>1. targets # {}
          BY <4>1, FS_EmptySet
        <5> QED
          BY <5>1, Zenon
      <4>3. Node(row).escalate \in Rule
        BY <2>1, NodeType DEF InstanceOK, Base, Node
      <4> HIDE DEF u
      <4>4. u \in Person /\ u # Requester /\ \A x \in Current(row) : x.user # u
        BY <4>2, <4>3, TargetsType
      <4>5. InstanceOK(Reassign(row, t, u, "timeout"))
        BY <2>1, <2>2, <4>4, ReassignOK
      <4> QED
        BY <4>1, <4>5
    <3> QED
      BY <3>1, <3>2
  <2> HIDE DEF i
  <2>4. row' = [i EXCEPT !.version = @ + 1]
    BY <1>3 DEF HandleTimeout, i
  <2>5. InstanceOK(row')
    BY <2>3, <2>4, VersionOK
  <2>6. Held(row')
    BY <1>3, <2>5 DEF Held, HandleTimeout, Fits
  <2>7. row' \in Instance /\ Timers(row') \subseteq TaskId
    BY <2>6, HeldType
  <2>8. TypeOK'
    BY <1>1, <1>3, <2>7 DEF HandleTimeout, ReviewOK, TypeOK
  <2> QED
    BY <1>3, <2>6, <2>8, WriteOK DEF HandleTimeout
<1> QED
  BY <1>2, <1>3 DEF RunTimer

LEMMA OutsideOK ==
  ASSUME ReviewOK,
         \/ \E t \in AllTasks : PassDeadline(t)
         \/ \E u \in Mobile : Move(u)
         \/ UNCHANGED vars
  PROVE  ReviewOK'
<1>1. ASSUME NEW t \in AllTasks, PassDeadline(t) PROVE ReviewOK'
  <2>1. t.due \in TaskId
    <3>1. t.due \in 0 .. MaxTask /\ MaxTask \in Nat
      BY HeldType, ReviewAssumption DEF ReviewOK, AllTasks
    <3> QED
      BY <1>1, <3>1 DEF PassDeadline, TaskId
  <2>2. Held(row') /\ form' = form /\ sessions' = sessions
    BY <1>1 DEF ReviewOK, PassDeadline
  <2>3. TypeOK'
    BY <1>1, <2>1 DEF PassDeadline, ReviewOK, TypeOK
  <2> QED
    BY <2>2, <2>3, WriteOK
<1>2. ASSUME NEW u \in Mobile, Move(u) PROVE ReviewOK'
  <2>1. Held(row') /\ form' = form /\ sessions' = sessions
    BY <1>2 DEF ReviewOK, Move
  <2>2. present' \subseteq Person
    BY <1>2, ReviewAssumption DEF Move, ReviewOK, TypeOK
  <2>3. TypeOK'
    BY <1>2, <2>2 DEF Move, ReviewOK, TypeOK
  <2> QED
    BY <2>1, <2>3, WriteOK
<1>3. ASSUME UNCHANGED vars PROVE ReviewOK'
  <2>1. Held(row') /\ form' = form /\ sessions' = sessions
    BY <1>3 DEF ReviewOK, vars
  <2>2. TypeOK'
    BY <1>3 DEF vars, ReviewOK, TypeOK
  <2> QED
    BY <2>1, <2>2, WriteOK
<1> QED
  BY <1>1, <1>2, <1>3

LEMMA ReviewInvariant == Spec => []ReviewOK
<1>1. ReviewOK /\ [Next]_vars => ReviewOK'
  <2> SUFFICES ASSUME ReviewOK, [Next]_vars PROVE ReviewOK'
    OBVIOUS
  <2>1. ASSUME NEW s \in Session, NEW t \in Current(row),
               \/ \E vote \in {"approved", "rejected"} : Judge(s, t, vote)
               \/ CompleteTask(s, t) \/ AskAmendment(s, t)
               \/ \E target \in Person : Transfer(s, t, target) \/ AddSigner(s, t, target)
        PROVE  ReviewOK'
    BY <2>1, RequestOK
  <2>2. ASSUME NEW s \in Session,
               (\E value \in Answers : SubmitAgain(s, value)) \/ WithdrawIt(s) \/ Retry(s)
        PROVE  ReviewOK'
    BY <2>2, RequesterOK
  <2>3. ASSUME NEW s \in Session, Commit(s) \/ GiveUp(s) PROVE ReviewOK'
    BY <2>3, CommitOK, GiveUpOK
  <2>4. ASSUME NEW t \in AllTasks, RunTimer(t) PROVE ReviewOK'
    BY <2>4, TimerOK
  <2>5. CASE \/ \E t \in AllTasks : PassDeadline(t)
             \/ \E u \in Mobile : Move(u)
             \/ UNCHANGED vars
    BY <2>5, OutsideOK
  <2> QED
    BY <2>1, <2>2, <2>3, <2>4, <2>5 DEF Next
<1> QED
  BY <1>1, InitOK, PTL DEF Spec

(* The types of the state: whatever the form, a request or a timeout       *)
(* writes an instance whose tasks are numbered from one.                   *)
THEOREM TypeCorrect == Spec => []TypeOK
<1>1. ReviewOK => TypeOK
  BY DEF ReviewOK
<1> QED
  BY <1>1, ReviewInvariant, PTL

(* A task is open only at the node and in the round the instance is at,    *)
(* and suspended only while an amendment is awaited (review-engine.ts and  *)
(* review-operations.ts cancel, suspend or supersede the others).          *)
THEOREM OpenTasksAreCurrentAlways == Spec => []OpenTasksAreCurrent
<1>1. ReviewOK => OpenTasksAreCurrent
  BY DEF ReviewOK, Held, InstanceOK, OpenOK, Asked, OpenTasksAreCurrent, AllTasks
<1> QED
  BY <1>1, ReviewInvariant, PTL

(* Nobody gets two tasks at one node of one round, and the requester none  *)
(* that judges, by any way a task can come about.                          *)
THEOREM NoDoubleTaskAlways == Spec => []NoDoubleTask
<1>1. ReviewOK => NoDoubleTask
  <2> SUFFICES ASSUME ReviewOK, NEW p \in DOMAIN row.tasks, NEW q \in DOMAIN row.tasks
               PROVE  LET t == row.tasks[p]
                          x == row.tasks[q]
                      IN /\ p # q => /\ t.id # x.id
                                     /\ <<t.round, t.node, t.user>> # <<x.round, x.node, x.user>>
                         /\ form[t.node].type = "review" => t.user # Requester
    BY DEF NoDoubleTask
  <2>1. Base(row)
    BY DEF ReviewOK, Held, InstanceOK
  <2>2. row.tasks[p] \in ToSet(row.tasks) /\ row.tasks[q] \in ToSet(row.tasks)
    BY DEF ToSet
  <2>3. row.tasks[p].id = row.tasks[q].id => p = q
    BY <2>1 DEF Base
  <2>4. Same(row.tasks[p], row.tasks[q]) => row.tasks[p] = row.tasks[q]
    BY <2>1, <2>2 DEF Base
  <2>5. Sound(row, row.tasks[p])
    BY <2>1, <2>2 DEF Base
  <2> QED
    BY <2>3, <2>4, <2>5 DEF Same, Sound
<1> QED
  BY <1>1, ReviewInvariant, PTL

(* Under review somebody can act, and at a sequential node only one:       *)
(* neither a transfer, a countersignature, an escalation, an amendment     *)
(* nor a retry loses the turn or hands it out twice.                       *)
THEOREM SomebodyMustActAlways == Spec => []SomebodyMustAct
<1>1. ReviewOK => SomebodyMustAct
  <2> SUFFICES ASSUME ReviewOK, row.status = "reviewing"
               PROVE  LET pending == {t \in Current(row) : t.status = "pending"}
                      IN pending # {} /\ (Node(row).mode = "sequential" => Cardinality(pending) = 1)
    BY DEF SomebodyMustAct
  <2> DEFINE pending == {t \in Current(row) : t.status = "pending"}
  <2>1. Turn(row)
    BY DEF ReviewOK, Held, InstanceOK
  <2>2. PICK t \in Current(row) : t.status = "pending"
    BY <2>1 DEF Turn
  <2>3. ASSUME Node(row).mode = "sequential" PROVE Cardinality(pending) = 1
    <3>1. pending = {t}
      BY <2>1, <2>2, <2>3 DEF Turn
    <3> QED
      BY <3>1, FS_Singleton
  <2> QED
    BY <2>2, <2>3
<1> QED
  BY <1>1, ReviewInvariant, PTL

(***************************************************************************)
(* How a review came to where it is.  A trail is a way through the form    *)
(* that the values lead along, from the start to node n, and every node    *)
(* before n that judges has agreed.                                        *)
(***************************************************************************)
Trail(i, n, way) ==
  /\ way \subseteq DOMAIN form /\ 1 \in way /\ n \in way
  /\ \A k \in way \ {n} :
       /\ k < n /\ form[k].type # "end" /\ Branch(k, i.value) \in way
       /\ Judged(k) => Agreed(i, k)

(* Nothing was cancelled at a node that is still asked, and what would     *)
(* settle it has not been said: an approval where one is enough, a refusal *)
(* where one is.                                                           *)
Undecided(i) ==
  i.status = "reviewing" =>
    \A t \in Current(i) : /\ t.status \notin {"cancelled", "superseded"}
                          /\ Node(i).mode = "any" => t.status # "approved"
                          /\ t.status = "rejected" => Node(i).allReject

Earned(i) ==
  /\ Undecided(i)
  /\ i.status \notin {"rejected", "withdrawn"} => \E way : Trail(i, i.node, way)
  /\ i.status = "approved" => Node(i).type = "end"

LEMMA BranchType ==
  ASSUME Published, NEW k \in DOMAIN form, form[k].type # "end", NEW value
  PROVE  /\ Branch(k, value) \in Edges(form[k])
         /\ Branch(k, value) \in DOMAIN form /\ k < Branch(k, value)
<1>1. Branch(k, value) \in Edges(form[k])
  BY NodeType DEF Branch
<1>2. Branch(k, value) \in k + 1 .. Len(form) /\ k \in 1 .. Len(form) /\ Len(form) \in Nat
  BY <1>1, FormType
<1>3. Branch(k, value) \in 1 .. Len(form) /\ k < Branch(k, value)
  BY <1>2
<1> QED
  BY <1>1, <1>3, FormType

(* The nodes the walk passes on its way from k to where it stops.          *)
Passes(at, k, i, way) ==
  /\ way \subseteq k .. at.node /\ k \in way /\ at.node \in way
  /\ \A x \in way \ {at.node} :
       ~Judged(x) /\ form[x].type # "end" /\ Branch(x, i.value) \in way
  /\ at.status = "approved" => form[at.node].type = "end"

LEMMA PassesHere ==
  ASSUME Published, NEW k \in DOMAIN form, NEW i, NEW status, NEW tasks,
         status = "approved" => form[k].type = "end"
  PROVE  Passes(Stop(k, status, tasks), k, i, {k})
<1>1. k \in Nat
  BY FormType
<1>2. Stop(k, status, tasks).node = k /\ Stop(k, status, tasks).status = status
  BY DEF Stop
<1> QED
  BY <1>1, <1>2 DEF Passes

(* One node more, in front.                                                *)
LEMMA PassesFromBefore ==
  ASSUME Published, NEW i, NEW k \in DOMAIN form, ~Judged(k), form[k].type # "end",
         NEW at, NEW go, go.node = at.node, go.status = at.status,
         at.node \in Branch(k, i.value) .. Len(form),
         NEW way, Passes(at, Branch(k, i.value), i, way)
  PROVE  Passes(go, k, i, {k} \cup way)
<1> DEFINE next == Branch(k, i.value)
<1>1. next \in DOMAIN form /\ k < next
  BY BranchType
<1>2. k \in Nat /\ next \in Nat /\ Len(form) \in Nat
  BY <1>1, FormType
<1> HIDE DEF next
<1>3. at.node \in Nat /\ next <= at.node
  BY <1>2 DEF next
<1>4. /\ way \subseteq next .. at.node /\ next \in way /\ at.node \in way
      /\ \A x \in way \ {at.node} :
           ~Judged(x) /\ form[x].type # "end" /\ Branch(x, i.value) \in way
      /\ at.status = "approved" => form[at.node].type = "end"
  BY DEF Passes, next
<1>5. {k} \cup way \subseteq k .. go.node
  BY <1>1, <1>2, <1>3, <1>4
<1>6. ASSUME NEW x \in ({k} \cup way) \ {go.node}
      PROVE  ~Judged(x) /\ form[x].type # "end" /\ Branch(x, i.value) \in {k} \cup way
  <2>1. CASE x = k
    BY <1>4, <2>1 DEF next
  <2>2. CASE x # k
    BY <1>4, <2>2
  <2> QED
    BY <2>1, <2>2
<1> QED
  BY <1>4, <1>5, <1>6 DEF Passes

LEMMA WalkPasses ==
  ASSUME Published, NEW i, i.round \in Nat, NEW here, NEW k \in DOMAIN form
  PROVE  \E way : Passes(Walk(i, here)[k], k, i, way)
<1> DEFINE L == Len(form)
           go == Walk(i, here)
           Good == {x \in 1 .. L : \E way : Passes(go[x], x, i, way)}
<1>1. L \in Nat /\ DOMAIN form = 1 .. L
  BY FormType
<1>2. ASSUME NEW x \in 1 .. L, x + 1 .. L \subseteq Good PROVE x \in Good
  <2> DEFINE n == form[x]
             users == Candidates(n.assignee, here)
             next == Branch(x, i.value)
             tasks == Assigned(i, x, users)
  <2>1. x \in DOMAIN form /\ go[x] = WalkFrom(go, x, i, here)
    BY <1>1, WalkUnfolds
  <2>2. n.type \in {"start", "review", "cc", "handler", "condition", "end"}
    BY <2>1, NodeType
  <2>3. \/ /\ n.type = "end" /\ go[x] = Stop(x, "approved", <<>>)
        \/ \E status \in {"blocked", "reviewing"} : \E new : go[x] = Stop(x, status, new)
        \/ /\ n.type = "cc"
           /\ go[x] = [go[n.next] EXCEPT !.tasks = tasks \o @]
        \/ n.type \in {"condition", "start"} /\ go[x] = go[next]
    <3>1. CASE n.type = "end"
      BY <2>1, <3>1 DEF WalkFrom
    <3>2. CASE n.type \in {"review", "cc", "handler"}
      BY <2>1, <3>2 DEF WalkFrom
    <3>3. CASE n.type = "condition"
      BY <2>1, <3>3 DEF WalkFrom, Branch
    <3>4. CASE n.type = "start"
      BY <2>1, <3>4 DEF WalkFrom, Branch
    <3> QED
      BY <2>2, <3>1, <3>2, <3>3, <3>4
  <2>4. CASE n.type = "end" /\ go[x] = Stop(x, "approved", <<>>)
    <3>1. Passes(go[x], x, i, {x})
      BY <2>1, <2>4, PassesHere
    <3> QED
      BY <3>1
  <2>5. ASSUME NEW status \in {"blocked", "reviewing"}, NEW new, go[x] = Stop(x, status, new)
        PROVE  x \in Good
    <3>1. Passes(go[x], x, i, {x})
      BY <2>1, <2>5, PassesHere
    <3> QED
      BY <3>1
  <2>6. ASSUME n.type \in {"cc", "condition", "start"},
               go[x].node = go[next].node, go[x].status = go[next].status
        PROVE  x \in Good
    <3>1. ~Judged(x) /\ n.type # "end"
      BY <2>6 DEF Judged
    <3>2. next \in DOMAIN form /\ x < next
      BY <2>1, <3>1, BranchType
    <3>3. next \in x + 1 .. L
      BY <1>1, <3>2
    <3>4. PICK way : Passes(go[next], next, i, way)
      BY <1>2, <3>3
    <3>5. go[next].node \in next .. Len(form)
      BY <3>2, WalkLands DEF Lands
    <3>6. Passes(go[x], x, i, {x} \cup way)
      BY <2>1, <2>6, <3>1, <3>4, <3>5, PassesFromBefore
    <3> QED
      BY <3>6
  <2>7. CASE n.type = "cc" /\ go[x] = [go[n.next] EXCEPT !.tasks = tasks \o @]
    <3>1. next = n.next /\ next \in DOMAIN form
      BY <2>1, <2>7, BranchType DEF Branch
    <3>2. go[next] \in Landing
      BY <3>1, WalkLands DEF Lands
    <3>3. go[x].node = go[next].node /\ go[x].status = go[next].status
      BY <2>7, <3>1, <3>2 DEF Landing
    <3> QED
      BY <2>6, <2>7, <3>3
  <2>8. CASE n.type \in {"condition", "start"} /\ go[x] = go[next]
    BY <2>6, <2>8
  <2> QED
    BY <2>3, <2>4, <2>5, <2>7, <2>8
<1> HIDE DEF Good, L
<1>3. \A x \in 1 .. L : x + 1 .. L \subseteq Good => x \in Good
  BY <1>2
<1>4. 1 .. L \subseteq Good
  BY <1>1, <1>3, Downwards, Zenon
<1> QED
  BY <1>1, <1>4 DEF Good

(* The walk leaves the tasks there are, and adds tasks of this round and   *)
(* of nodes ahead that nobody has answered.                                *)
Advanced(j, i, from, at) ==
  /\ j.node = at.node /\ j.status = at.status /\ j.round = i.round /\ j.value = i.value
  /\ \A t \in ToSet(i.tasks) : t \in ToSet(j.tasks)
  /\ \A t \in ToSet(j.tasks) \ ToSet(i.tasks) :
       /\ t.round = i.round /\ t.node \in from .. at.node
       /\ t.status \in Asked \cup {"completed"}

LEMMA AdvanceAdds ==
  ASSUME Published, NEW i, Base(i), NEW here, NEW from \in DOMAIN form
  PROVE  Advanced(AdvanceReview(i, from, here), i, from, Walk(i, here)[from])
<1> DEFINE at == Walk(i, here)[from]
           new == Numbered(i, at.tasks)
           old == i.tasks
           all == old \o new
           j == [i EXCEPT !.node = at.node, !.status = at.status, !.tasks = all]
<1>1. i \in Wide /\ i.round \in Nat /\ old \in Seq(Slot)
  <2>1. i \in Wide
    BY DEF Base
  <2> QED
    BY <2>1, WideParts
<1>2. Lands(at, from, i)
  BY <1>1, WalkLands
<1>3. j = AdvanceReview(i, from, here)
  BY DEF AdvanceReview
<1> HIDE DEF at
<1>4. at \in Landing /\ at.tasks \in Seq(Slot)
  BY <1>2 DEF Lands, Landing
<1>5. new \in Seq(Slot) /\ DOMAIN new = DOMAIN at.tasks
      /\ \A p \in DOMAIN new : Same(new[p], at.tasks[p]) /\ new[p].status = at.tasks[p].status
  <2>1. IsNumbered(new, i, at.tasks)
    BY <1>1, <1>4, NumberedType
  <2> HIDE DEF new
  <2> QED
    BY <2>1 DEF IsNumbered
<1> HIDE DEF new, old
<1>6. all \in Seq(Slot) /\ Joined(all, old, new)
  BY <1>1, <1>5, Concatenation
<1> HIDE DEF all
<1>7. /\ j.node = at.node /\ j.status = at.status /\ j.round = i.round
      /\ j.value = i.value /\ j.tasks = all
  BY <1>1, WideParts DEF Wide
<1> HIDE DEF j
<1>8. \A t \in ToSet(old) : t \in ToSet(all)
  BY <1>6 DEF Joined, ToSet
<1>9. ASSUME NEW t \in ToSet(all), t \notin ToSet(old)
      PROVE  /\ t.round = i.round /\ t.node \in from .. at.node
             /\ t.status \in Asked \cup {"completed"}
  <2>1. PICK p \in DOMAIN new : t = new[p]
    BY <1>6, <1>9 DEF Joined, ToSet
  <2>2. OnTheWay(at, at.tasks[p], from, i)
    BY <1>2, <1>5 DEF Lands
  <2> QED
    BY <1>5, <2>1, <2>2 DEF OnTheWay, Same
<1>10. Advanced(j, i, from, at)
  BY <1>7, <1>8, <1>9 DEF Advanced, old
<1> QED
  BY <1>3, <1>10 DEF at

(* From a trail to the node where the walk begins, to a trail to the node  *)
(* where it stops; no vote is cast on the way.                             *)
LEMMA AdvanceEarned ==
  ASSUME Published, NEW i, Base(i), NEW here, NEW from \in DOMAIN form,
         \A t \in ToSet(i.tasks) : t.round = i.round => t.node < from,
         NEW way, Trail(i, from, way)
  PROVE  LET j == AdvanceReview(i, from, here)
         IN /\ Earned(j) /\ j.round = i.round /\ j.status \in {"approved", "blocked", "reviewing"}
            /\ Ballots(j) = Ballots(i)
<1> DEFINE at == Walk(i, here)[from]
           j == AdvanceReview(i, from, here)
<1>1. Advanced(j, i, from, at)
  BY AdvanceAdds
<1>2. i.round \in Nat
  BY WideParts DEF Base
<1>3. at \in Landing /\ at.node \in from .. Len(form)
  BY <1>2, WalkLands DEF Lands
<1>4. PICK more : Passes(at, from, i, more)
  BY <1>2, WalkPasses
<1>5. from \in Nat /\ DOMAIN form = 1 .. Len(form) /\ Len(form) \in Nat
  BY FormType
<1> HIDE DEF at, j
<1>6. /\ j.node = at.node /\ j.status = at.status /\ j.round = i.round /\ j.value = i.value
      /\ \A t \in ToSet(i.tasks) : t \in ToSet(j.tasks)
      /\ \A t \in ToSet(j.tasks) \ ToSet(i.tasks) :
           /\ t.round = i.round /\ t.node \in from .. at.node
           /\ t.status \in Asked \cup {"completed"}
  BY <1>1 DEF Advanced
<1>7. at.node \in Nat /\ from <= at.node
  BY <1>3, <1>5
<1>8. Undecided(j)
  <2> SUFFICES ASSUME NEW t \in Current(j)
               PROVE  t.status \notin {"cancelled", "superseded", "approved", "rejected"}
    BY DEF Undecided
  <2>1. t \in ToSet(j.tasks) /\ t.node = at.node /\ t.round = i.round
    BY <1>6 DEF Current, Here
  <2>2. t \notin ToSet(i.tasks)
    BY <1>5, <1>7, <2>1
  <2> QED
    BY <1>6, <2>1, <2>2 DEF Asked
<1>9. ASSUME NEW k \in way \ {from}, Judged(k) PROVE Agreed(j, k)
  <2> DEFINE Has(x) == {t \in ToSet(x.tasks) : /\ t.round = x.round /\ t.node = k
                                              /\ t.status # "transferred"}
  <2>1. k < from /\ k \in Nat /\ Agreed(i, k)
    BY <1>5, <1>9 DEF Trail
  <2>2. Has(j) = Has(i)
    BY <1>5, <1>6, <2>1
  <2> QED
    BY <2>1, <2>2 DEF Agreed
<1>10. Trail(j, j.node, way \cup more)
  <2>1. /\ way \subseteq DOMAIN form /\ 1 \in way /\ from \in way
        /\ \A k \in way \ {from} :
             k < from /\ form[k].type # "end" /\ Branch(k, i.value) \in way
    BY DEF Trail
  <2>2. /\ more \subseteq from .. at.node /\ from \in more /\ at.node \in more
        /\ \A x \in more \ {at.node} :
             ~Judged(x) /\ form[x].type # "end" /\ Branch(x, i.value) \in more
    BY <1>4 DEF Passes
  <2>3. way \cup more \subseteq DOMAIN form
    BY <1>3, <1>5, <2>1, <2>2
  <2>4. ASSUME NEW k \in (way \cup more) \ {at.node}
        PROVE  /\ k < at.node /\ form[k].type # "end" /\ Branch(k, j.value) \in way \cup more
               /\ Judged(k) => Agreed(j, k)
    <3>1. CASE k \in way \ {from}
      <4>1. k < from /\ k \in Nat
        BY <1>5, <2>1, <3>1
      <4>2. k < at.node
        BY <1>5, <1>7, <4>1
      <4> QED
        BY <1>6, <1>9, <2>1, <3>1, <4>2
    <3>2. CASE k \in more
      <4>1. k \in from .. at.node
        BY <2>2, <3>2
      <4>2. k < at.node
        BY <1>5, <1>7, <2>4, <4>1
      <4> QED
        BY <1>6, <2>2, <2>4, <3>2, <4>2
    <3> QED
      BY <2>2, <3>1, <3>2
  <2> QED
    BY <1>6, <2>1, <2>2, <2>3, <2>4 DEF Trail
<1>11. Ballots(j) = Ballots(i)
  <2> DEFINE Voted(x) == {t \in ToSet(x.tasks) : t.status \in {"approved", "rejected"}}
  <2>1. Voted(j) = Voted(i)
    BY <1>6 DEF Asked
  <2> QED
    BY <2>1 DEF Ballots
<1>12. j.status = "approved" => Node(j).type = "end"
  BY <1>4, <1>6 DEF Passes, Node
<1>13. j.status \in {"approved", "blocked", "reviewing"}
  BY <1>3, <1>6 DEF Landing
<1>14. Earned(j)
  BY <1>8, <1>10, <1>12 DEF Earned
<1> QED
  BY <1>6, <1>11, <1>13, <1>14 DEF j

(***************************************************************************)
(* Operations that leave the other nodes alone.                            *)
(***************************************************************************)
Apart(j, i) ==
  /\ j.node = i.node /\ j.round = i.round /\ j.value = i.value
  /\ \A t : ~Here(i, t) => (t \in ToSet(j.tasks) <=> t \in ToSet(i.tasks))

LEMMA ApartTrail ==
  ASSUME NEW i, i.node \in Nat, NEW j, Apart(j, i), NEW way, Trail(i, i.node, way),
         \A k \in way : k \in Nat
  PROVE  Trail(j, j.node, way)
<1>1. ASSUME NEW k \in way \ {i.node}, Judged(k) PROVE Agreed(j, k)
  <2> DEFINE Has(x) == {t \in ToSet(x.tasks) : /\ t.round = x.round /\ t.node = k
                                              /\ t.status # "transferred"}
  <2>1. Agreed(i, k)
    BY <1>1 DEF Trail
  <2>2. Has(j) = Has(i)
    BY DEF Apart, Here
  <2> QED
    BY <2>1, <2>2 DEF Agreed
<1> QED
  BY <1>1 DEF Trail, Apart

LEMMA ApartTwice ==
  ASSUME NEW i, NEW j, NEW k, Apart(j, i), Apart(k, j)
  PROVE  Apart(k, i)
BY DEF Apart, Here

LEMMA StampedApart ==
  ASSUME NEW i \in Wide, NEW S, NEW status \in TaskStatus,
         \A t \in S \cap ToSet(i.tasks) : Here(i, t)
  PROVE  LET j == Stamped(i, S, status)
         IN /\ Apart(j, i)
            /\ \A t \in ToSet(i.tasks) : t \notin S => t \in ToSet(j.tasks)
            /\ \A t \in ToSet(j.tasks) \ ToSet(i.tasks) : t.status = status
<1> DEFINE j == Stamped(i, S, status)
<1>1. OnlyStamped(j, i, S, status)
  BY StampedType
<1>2. \A t \in ToSet(i.tasks) : t \in Slot
  BY WideParts
<1> HIDE DEF j
<1>3. /\ j.node = i.node /\ j.round = i.round /\ j.value = i.value
      /\ \A t \in ToSet(i.tasks) : Stamp(t, S, status) \in ToSet(j.tasks)
      /\ \A t \in ToSet(j.tasks) : \E x \in ToSet(i.tasks) : t = Stamp(x, S, status)
  BY <1>1 DEF OnlyStamped
<1>4. ASSUME NEW t \in ToSet(i.tasks), t \notin S PROVE t \in ToSet(j.tasks)
  BY <1>3, <1>4 DEF Stamp
<1>5. ASSUME NEW t \in ToSet(j.tasks), t \notin ToSet(i.tasks)
      PROVE  Here(i, t) /\ t.status = status
  <2>1. PICK x \in ToSet(i.tasks) : t = Stamp(x, S, status)
    BY <1>3
  <2>2. x \in S
    BY <1>5, <2>1 DEF Stamp
  <2>3. Here(i, x) /\ t.round = x.round /\ t.node = x.node /\ t.status = status
    BY <1>2, <2>1, <2>2, StampType
  <2> QED
    BY <2>3 DEF Here
<1>6. Apart(j, i)
  BY <1>3, <1>4, <1>5 DEF Apart
<1> QED
  BY <1>4, <1>5, <1>6 DEF j

(* No vote is cast.                                                        *)
Quiet(j, i) == Apart(j, i) /\ Ballots(j) = Ballots(i)

LEMMA StampedQuiet ==
  ASSUME NEW i \in Wide, NEW S, NEW status \in TaskStatus \ {"approved", "rejected"},
         \A t \in S \cap ToSet(i.tasks) : Here(i, t) /\ t.status \notin {"approved", "rejected"}
  PROVE  Quiet(Stamped(i, S, status), i)
<1> DEFINE j == Stamped(i, S, status)
           Voted(x) == {t \in ToSet(x.tasks) : t.status \in {"approved", "rejected"}}
<1>1. /\ Apart(j, i)
      /\ \A t \in ToSet(i.tasks) : t \notin S => t \in ToSet(j.tasks)
      /\ \A t \in ToSet(j.tasks) \ ToSet(i.tasks) : t.status = status
  BY StampedApart
<1> HIDE DEF j
<1>2. Voted(j) = Voted(i)
  BY <1>1
<1>3. Quiet(j, i)
  BY <1>1, <1>2 DEF Quiet, Ballots
<1> QED
  BY <1>3 DEF j

(* A task inserted behind another, which nobody has answered.              *)
LEMMA InsertedQuiet ==
  ASSUME NEW i \in Wide, NEW t, \E q \in DOMAIN i.tasks : i.tasks[q].id = t.id,
         NEW new \in Slot, Here(i, new), new.status \notin {"approved", "rejected"}
  PROVE  LET j == InsertAfter(i, t, new)
         IN /\ Quiet(j, i) /\ j.status = i.status
            /\ \A x \in ToSet(j.tasks) : x = new \/ x \in ToSet(i.tasks)
<1> DEFINE p == CHOOSE q \in DOMAIN i.tasks : i.tasks[q].id = t.id
           old == i.tasks
           all == InsertAt(old, p + 1, new)
           j == [i EXCEPT !.tasks = all]
<1>1. p \in DOMAIN i.tasks
  OBVIOUS
<1>2. InsertAfter(i, t, new) = j
  BY DEF InsertAfter
<1> HIDE DEF p
<1>3. old \in Seq(Slot)
  BY WideParts
<1>4. all \in Seq(Slot) /\ WithInserted(all, old, p, new)
  BY <1>1, <1>3, InsertedType
<1> HIDE DEF all, old
<1>5. /\ j.node = i.node /\ j.round = i.round /\ j.value = i.value /\ j.tasks = all
      /\ j.status = i.status
  BY <1>4, WideParts DEF Wide
<1> HIDE DEF j
<1>6. /\ DOMAIN old = 1 .. Len(old) /\ Len(old) \in Nat /\ DOMAIN all = 1 .. Len(old) + 1
      /\ p \in 1 .. Len(old)
      /\ \A x \in 1 .. Len(old) + 1 :
           all[x] = IF x <= p THEN old[x] ELSE IF x = p + 1 THEN new ELSE old[x - 1]
  BY <1>1, <1>3, <1>4 DEF WithInserted, old
<1>7. ASSUME NEW x \in ToSet(old) PROVE x \in ToSet(all)
  <2>1. PICK q \in 1 .. Len(old) : x = old[q]
    BY <1>6 DEF ToSet
  <2>2. CASE q <= p
    BY <1>6, <2>1, <2>2 DEF ToSet
  <2>3. CASE q > p
    <3>1. q + 1 \in 1 .. Len(old) + 1 /\ ~ (q + 1 <= p) /\ q + 1 # p + 1 /\ q + 1 - 1 = q
      BY <1>6, <2>3
    <3>2. all[q + 1] = x
      BY <1>6, <2>1, <3>1
    <3> QED
      BY <1>6, <3>1, <3>2 DEF ToSet
  <2> QED
    BY <1>6, <2>2, <2>3
<1>8. ASSUME NEW x \in ToSet(all), x # new PROVE x \in ToSet(old)
  <2>1. PICK q \in 1 .. Len(old) + 1 : x = all[q]
    BY <1>6 DEF ToSet
  <2>2. CASE q <= p
    BY <1>6, <2>1, <2>2 DEF ToSet
  <2>3. CASE q > p
    <3>1. q - 1 \in 1 .. Len(old) /\ q # p + 1
      BY <1>6, <1>8, <2>1, <2>3
    <3> QED
      BY <1>6, <2>1, <2>3, <3>1 DEF ToSet
  <2> QED
    BY <1>6, <2>2, <2>3
<1>9. Apart(j, i)
  BY <1>5, <1>7, <1>8 DEF Apart, old
<1>10. Ballots(j) = Ballots(i)
  <2> DEFINE Voted(x) == {y \in ToSet(x.tasks) : y.status \in {"approved", "rejected"}}
  <2>1. Voted(j) = Voted(i)
    BY <1>5, <1>7, <1>8 DEF old
  <2> QED
    BY <2>1 DEF Ballots
<1> QED
  BY <1>2, <1>5, <1>8, <1>9, <1>10 DEF Quiet, old

(* The next in turn is asked.                                              *)
LEMMA PromoteQuiet ==
  ASSUME NEW i, Base(i)
  PROVE  /\ Quiet(Promote(i), i) /\ Promote(i).status = i.status
         /\ \A t \in Current(Promote(i)) : t \in Current(i) \/ t.status = "pending"
<1> DEFINE waiting == {p \in DOMAIN i.tasks : /\ Here(i, i.tasks[p])
                                              /\ i.tasks[p].status = "waiting"}
           first == CHOOSE p \in waiting : \A q \in waiting : p <= q
           old == i.tasks[first]
           due == IF Node(i).timeout # "none" THEN old.id ELSE 0
           w == [old EXCEPT !.status = "pending", !.due = due]
           j == [i EXCEPT !.tasks[first] = w]
<1>1. CASE Node(i).mode # "sequential" \/ waiting = {}
  <2>1. Promote(i) = i
    BY <1>1 DEF Promote
  <2> QED
    BY <2>1 DEF Quiet, Apart
<1>2. CASE ~ (Node(i).mode # "sequential" \/ waiting = {})
  <2>1. Promote(i) = j
    BY <1>2 DEF Promote
  <2>2. i \in Wide
    BY DEF Base
  <2>3. /\ DOMAIN i.tasks = 1 .. Len(i.tasks) /\ Len(i.tasks) \in Nat
        /\ \A p \in DOMAIN i.tasks : i.tasks[p] \in Slot
    BY <2>2, WideParts
  <2>4. first \in waiting
    <3>1. waiting \in SUBSET Nat /\ waiting # {}
      BY <1>2, <2>3
    <3>2. \E p \in waiting : \A q \in waiting : p <= q
      BY <3>1, Least
    <3> HIDE DEF waiting
    <3> QED
      BY <3>2
  <2>5. first \in DOMAIN i.tasks /\ Here(i, old) /\ old.status = "waiting"
    BY <2>4
  <2> HIDE DEF first, waiting
  <2>6. old \in Slot /\ Sound(i, old)
    BY <2>3, <2>5 DEF Base, ToSet
  <2>7. due \in 0 .. Len(i.tasks) /\ due \in Nat
    BY <2>3, <2>6 DEF Sound
  <2> HIDE DEF due, old
  <2>8. /\ w \in Slot /\ w.id = old.id /\ Same(w, old) /\ w.due = due /\ w.status = "pending"
    BY <2>6, <2>7 DEF Slot, Same, TaskStatus
  <2> HIDE DEF w
  <2>9. old = i.tasks[first]
    BY DEF old
  <2>10. /\ Base(j) /\ j.status = i.status /\ j.node = i.node /\ j.round = i.round
         /\ w \in ToSet(j.tasks)
         /\ \A t \in ToSet(j.tasks) : t = w \/ t \in ToSet(i.tasks) \ {old}
    BY <2>5, <2>7, <2>8, ReplacedBase DEF old
  <2>11. j.value = i.value /\ j.tasks = [i.tasks EXCEPT ![first] = w]
    BY <2>2, WideParts
  <2> HIDE DEF j
  <2>12. \A t \in ToSet(i.tasks) : t # old => t \in ToSet(j.tasks)
    BY <2>3, <2>5, <2>9, <2>11 DEF ToSet
  <2>13. Here(i, w)
    BY <2>5, <2>8 DEF Here, Same
  <2>14. Apart(j, i)
    BY <2>5, <2>10, <2>11, <2>12, <2>13 DEF Apart
  <2>15. Ballots(j) = Ballots(i)
    <3> DEFINE Voted(x) == {y \in ToSet(x.tasks) : y.status \in {"approved", "rejected"}}
    <3>1. Voted(j) = Voted(i)
      BY <2>5, <2>8, <2>10, <2>12
    <3> QED
      BY <3>1 DEF Ballots
  <2>16. \A t \in Current(j) : t \in Current(i) \/ t.status = "pending"
    BY <2>8, <2>10 DEF Current, Here
  <2> QED
    BY <2>1, <2>10, <2>14, <2>15, <2>16 DEF Quiet
<1> QED
  BY <1>1, <1>2

(***************************************************************************)
(* What an operation may make of the ballots and the outcome.              *)
(***************************************************************************)
Casts(i, j) ==
  /\ j.round = i.round
  /\ \E step \in Nodes, user \in Person \ {Requester}, vote \in {"approved", "rejected"} :
       /\ ~\E b \in Ballots(i) : b.round = i.round /\ b.step = step /\ b.user = user
       /\ Ballots(j) = Ballots(i) \cup
            {[round |-> i.round, step |-> step, user |-> user, vote |-> vote]}
       /\ Outcome(j) \in {"open", vote}

Backed(i) == \E b \in Ballots(i) : b.round = i.round /\ b.vote = "approved"

Heeds(i, j) ==
  \/ Outcome(j) = Outcome(i) /\ Ballots(j) = Ballots(i) /\ j.round = i.round
  \/ /\ Outcome(i) = "open"
     /\ \/ Casts(i, j)
        \/ /\ Ballots(j) = Ballots(i)
           /\ \/ Outcome(j) = "approved" /\ j.round = i.round /\ Backed(i)
              \/ Outcome(j) = "open" /\ j.round = i.round + 1
              \/ Outcome(j) = "withdrawn" /\ j.round = i.round

(* Nobody gets to the end past every reviewer: an approval has a ballot.   *)
LEMMA ApprovalBacked ==
  ASSUME Published, NEW i, Earned(i), i.status = "approved"
  PROVE  Backed(i)
<1>1. PICK way : Trail(i, i.node, way)
  BY DEF Earned
<1>2. form[i.node].type = "end"
  BY DEF Earned, Node
<1>3. PICK k \in way : form[k].type = "review"
  <2> SUFFICES ASSUME \A k \in way : form[k].type # "review" PROVE FALSE
    OBVIOUS
  <2>1. way \in SUBSET DOMAIN form /\ 1 \in way
    BY <1>1 DEF Trail
  <2>2. ASSUME NEW k \in way
        PROVE  form[k].type = "end" \/ Edges(form[k]) \cap way # {}
    <3>1. CASE k = i.node
      BY <1>2, <3>1
    <3>2. CASE k # i.node
      <4>1. k \in DOMAIN form /\ form[k].type # "end" /\ Branch(k, i.value) \in way
        BY <1>1, <2>1, <3>2 DEF Trail
      <4>2. Branch(k, i.value) \in Edges(form[k])
        BY <4>1, BranchType
      <4> QED
        BY <4>1, <4>2
    <3> QED
      BY <3>1, <3>2
  <2>3. Bypass(form)
    BY <2>1, <2>2 DEF Bypass
  <2> QED
    BY <2>3 DEF Published, ValidateDefinition
<1>4. Agreed(i, k)
  BY <1>1, <1>2, <1>3 DEF Trail, Judged
<1>5. PICK t \in ToSet(i.tasks) : t.round = i.round /\ t.status = "approved"
  BY <1>3, <1>4 DEF Agreed
<1> DEFINE b == [round |-> t.round, step |-> t.node, user |-> t.user, vote |-> t.status]
<1>6. b \in Ballots(i)
  BY <1>5 DEF Ballots
<1> QED
  BY <1>5, <1>6 DEF Backed

(* After a walk without a new vote the review is open, or approved by      *)
(* those there were.                                                       *)
LEMMA WalkHeeds ==
  ASSUME Published, NEW i, i.status \in Open, NEW j, Earned(j), j.round = i.round,
         j.status \in {"approved", "blocked", "reviewing"}, Ballots(j) = Ballots(i)
  PROVE  Heeds(i, j)
<1>1. Outcome(i) = "open" /\ (j.status # "approved" => Outcome(j) = "open")
  BY DEF Outcome, Open
<1>2. CASE j.status = "approved"
  <2>1. Backed(i)
    BY <1>2, ApprovalBacked DEF Backed
  <2>2. Outcome(j) = "approved"
    BY <1>2 DEF Outcome, Open
  <2> QED
    BY <1>1, <2>1, <2>2 DEF Heeds
<1> QED
  BY <1>1, <1>2 DEF Heeds

LEMMA QuietHeeds ==
  ASSUME Published, NEW i, Base(i), Earned(i), i.status \in Open, NEW j, Quiet(j, i),
         j.status \in {"reviewing", "awaiting_amendment"}, Undecided(j)
  PROVE  Earned(j) /\ Heeds(i, j)
<1>1. PICK way : Trail(i, i.node, way)
  BY DEF Earned, Open
<1>2. i.node \in Nat /\ \A k \in way : k \in Nat
  BY <1>1, FormType DEF Base, Trail
<1>3. Trail(j, j.node, way)
  BY <1>1, <1>2, ApartTrail DEF Quiet
<1>4. Outcome(i) = "open" /\ Outcome(j) = "open" /\ j.round = i.round
  BY DEF Outcome, Open, Quiet, Apart
<1> QED
  BY <1>3, <1>4 DEF Earned, Heeds, Quiet

(* The rest of a node is cancelled, and no vote with it.                   *)
LEMMA RestQuiet ==
  ASSUME NEW i \in Wide
  PROVE  Quiet(CancelRest(i), i)
<1> DEFINE S == Remaining(i)
<1>1. "cancelled" \in TaskStatus \ {"approved", "rejected"}
  BY DEF TaskStatus
<1>2. \A t \in S \cap ToSet(i.tasks) : Here(i, t) /\ t.status \notin {"approved", "rejected"}
  BY DEF Remaining
<1>3. CancelRest(i) = Stamped(i, S, "cancelled")
  BY RestStamps
<1> HIDE DEF S
<1> QED
  BY <1>1, <1>2, <1>3, StampedQuiet

(* What those at the node agreed on is still there when the rest is        *)
(* cancelled; where everybody must agree, there is no rest.                *)
Yes(i) == IF Node(i).type = "review" THEN "approved" ELSE "completed"

LEMMA AgreedAfterRest ==
  ASSUME NEW i \in Wide,
         \A t \in Current(i) : t.status \notin {"cancelled", "superseded"},
         \E t \in Current(i) : t.status = Yes(i),
         Node(i).mode # "any" => \A t \in Live(i) : t.status = Yes(i)
  PROVE  Agreed(CancelRest(i), i.node)
<1> DEFINE S == Remaining(i)
           j == CancelRest(i)
           held == {t \in ToSet(j.tasks) : /\ t.round = j.round /\ t.node = i.node
                                           /\ t.status # "transferred"}
<1>1. OnlyStamped(j, i, S, "cancelled")
  <2>1. "cancelled" \in TaskStatus
    BY DEF TaskStatus
  <2> QED
    BY <2>1, RestStamps, StampedType
<1> HIDE DEF j
<1>2. /\ j.round = i.round
      /\ \A t \in ToSet(i.tasks) : Stamp(t, S, "cancelled") \in ToSet(j.tasks)
      /\ \A t \in ToSet(j.tasks) : \E x \in ToSet(i.tasks) : t = Stamp(x, S, "cancelled")
  BY <1>1 DEF OnlyStamped
<1>3. Yes(i) \in {"approved", "completed"}
  BY DEF Yes
<1>4. \E t \in held : t.status = Yes(i)
  <2>1. PICK t \in Current(i) : t.status = Yes(i)
    OBVIOUS
  <2>2. t \in ToSet(i.tasks) /\ t.round = i.round /\ t.node = i.node /\ t \notin S
    BY <1>3, <2>1 DEF Current, Here, Remaining
  <2>3. t \in held
    BY <1>2, <1>3, <2>1, <2>2 DEF Stamp
  <2> QED
    BY <2>1, <2>3
<1>5. ASSUME Node(i).mode # "any", NEW t \in held PROVE t.status = Yes(i)
  <2>1. \A x \in S : x \in Live(i) /\ x.status \in {"pending", "waiting"}
    BY DEF Remaining, Live, Current
  <2>2. S = {}
    BY <1>3, <1>5, <2>1
  <2>3. t \in ToSet(i.tasks)
    BY <1>2, <2>2 DEF Stamp
  <2>4. t \in Current(i)
    BY <1>2, <2>3 DEF Current, Here
  <2>5. t \in Live(i)
    BY <2>4 DEF Live
  <2> QED
    BY <1>5, <2>5
<1>6. Agreed(j, i.node)
  BY <1>4, <1>5 DEF Agreed, Yes, Node
<1> QED
  BY <1>6 DEF j

(* A node that agreed is passed, and the trail goes on behind it.          *)
LEMMA PassEarned ==
  ASSUME Published, NEW i, Base(i), Earned(i), i.status = "reviewing",
         NEW j, Base(j), Apart(j, i), Node(j).type \in {"review", "handler"},
         Agreed(CancelRest(j), j.node), NEW here
  PROVE  LET k == AdvanceReview(CancelRest(j), Node(j).next, here)
         IN /\ Earned(k) /\ k.round = i.round /\ k.status \in {"approved", "blocked", "reviewing"}
            /\ Ballots(k) = Ballots(j)
<1> DEFINE r == CancelRest(j)
           next == Node(j).next
           k == AdvanceReview(r, next, here)
<1>1. PICK way : Trail(i, i.node, way)
  BY DEF Earned
<1>2. i.node \in Nat /\ \A x \in way : x \in Nat
  BY <1>1, FormType DEF Base, Trail
<1>3. j \in Wide /\ j.node \in DOMAIN form
  BY DEF Base
<1>4. Quiet(r, j)
  BY <1>3, RestQuiet
<1>5. Base(r)
  <2>1. "cancelled" \in TaskStatus
    BY DEF TaskStatus
  <2> QED
    BY <2>1, RestStamps, StampedBase
<1>6. Branch(j.node, r.value) = next /\ form[j.node].type # "end"
  BY DEF Branch, Node
<1>7. next \in DOMAIN form /\ j.node < next /\ j.node \in Nat /\ next \in Nat
  <2>1. next \in DOMAIN form /\ j.node < next
    BY <1>3, <1>6, BranchType
  <2> QED
    BY <1>3, <2>1, FormType
<1> HIDE DEF r, next, k
<1>8. Apart(r, i) /\ r.node = j.node /\ r.round = i.round
  BY <1>4, ApartTwice DEF Quiet, Apart
<1>9. Trail(r, r.node, way)
  BY <1>1, <1>2, <1>8, ApartTrail
<1>10. Trail(r, next, way \cup {next})
  <2>1. way \subseteq DOMAIN form /\ 1 \in way /\ r.node \in way
    BY <1>9 DEF Trail
  <2>2. ASSUME NEW x \in way
        PROVE  /\ x < next /\ form[x].type # "end" /\ Branch(x, r.value) \in way \cup {next}
               /\ Judged(x) => Agreed(r, x)
    <3>1. CASE x = r.node
      BY <1>6, <1>7, <1>8, <3>1 DEF r
    <3>2. CASE x # r.node
      <4>1. /\ x < r.node /\ form[x].type # "end" /\ Branch(x, r.value) \in way
            /\ Judged(x) => Agreed(r, x)
        BY <1>9, <3>2 DEF Trail
      <4>2. x < next
        BY <1>2, <1>7, <1>8, <4>1
      <4> QED
        BY <4>1, <4>2
    <3> QED
      BY <3>1, <3>2
  <2> QED
    BY <1>7, <2>1, <2>2 DEF Trail
<1>11. ASSUME NEW t \in ToSet(r.tasks), t.round = r.round PROVE t.node < next
  <2>1. r \in Wide
    BY <1>5 DEF Base
  <2>2. t.node \in Nat /\ Sound(r, t)
    BY <1>5, <2>1, WideParts DEF Base, Slot
  <2> QED
    BY <1>7, <1>8, <1>11, <2>2 DEF Sound
<1>12. LET x == AdvanceReview(r, next, here)
       IN /\ Earned(x) /\ x.round = r.round /\ x.status \in {"approved", "blocked", "reviewing"}
          /\ Ballots(x) = Ballots(r)
  BY <1>5, <1>7, <1>10, <1>11, AdvanceEarned
<1>13. /\ Earned(k) /\ k.round = r.round /\ k.status \in {"approved", "blocked", "reviewing"}
       /\ Ballots(k) = Ballots(r)
  BY <1>12, Zenon DEF k
<1>14. Ballots(r) = Ballots(j)
  BY <1>4 DEF Quiet
<1> QED
  BY <1>8, <1>13, <1>14 DEF k, r, next

(***************************************************************************)
(* Every operation keeps an earned instance earned, and heeds the ballots. *)
(***************************************************************************)
(* What marking a task of the node leaves of the node.                     *)
LEMMA MarkedNode ==
  ASSUME NEW i, InstanceOK(i), i.status = "reviewing", NEW t \in Current(i), t.status = "pending",
         NEW status \in {"approved", "rejected", "completed", "transferred"}
  PROVE  LET j == Mark(i, t, status)
         IN /\ Base(j) /\ j.status = "reviewing" /\ Node(j) = Node(i) /\ Apart(j, i)
            /\ \A x \in Current(j) : x.status = status \/ x \in Current(i) \ {t}
            /\ \E x \in Current(j) : x.status = status
<1> DEFINE j == Mark(i, t, status)
<1>1. status \in TaskStatus \ {"pending", "waiting", "suspended"}
  BY DEF TaskStatus
<1>2. /\ Base(j) /\ j.status = "reviewing" /\ j.node = i.node
      /\ \A x \in Current(j) : x.status = status \/ x \in Current(i) \ {t}
      /\ \E x \in Current(j) : x.status = status
  BY <1>1, MarkOK
<1>3. i \in Wide /\ Here(i, t)
  BY DEF InstanceOK, Base, Current
<1>4. Apart(j, i)
  <2>1. \A x \in {t} \cap ToSet(i.tasks) : Here(i, x)
    BY <1>3
  <2>2. Apart(Stamped(i, {t}, status), i)
    BY <1>1, <1>3, <2>1, StampedApart
  <2> QED
    BY <2>2, MarkStamps
<1> HIDE DEF j
<1>5. Node(j) = Node(i)
  BY <1>2 DEF Node
<1> QED
  BY <1>2, <1>4, <1>5 DEF j

LEMMA MarkedQuiet ==
  ASSUME NEW i, InstanceOK(i), NEW t \in Current(i), t.status = "pending",
         NEW status \in {"completed", "transferred"}
  PROVE  Quiet(Mark(i, t, status), i)
<1>1. status \in TaskStatus \ {"approved", "rejected"}
  BY DEF TaskStatus
<1>2. i \in Wide /\ Here(i, t)
  BY DEF InstanceOK, Base, Current
<1> QED
  BY <1>1, <1>2, MarkStamps, StampedQuiet

(* A vote is one ballot more, of somebody who had not been heard.          *)
LEMMA VoteCasts ==
  ASSUME Published, NEW i, InstanceOK(i), NEW t \in Current(i), t.status = "pending",
         Node(i).type = "review", NEW vote \in {"approved", "rejected"},
         NEW j, Ballots(j) = Ballots(Mark(i, t, vote)), j.round = i.round,
         Outcome(j) \in {"open", vote}
  PROVE  Casts(i, j)
<1> DEFINE k == Mark(i, t, vote)
           b == [round |-> i.round, step |-> i.node, user |-> t.user, vote |-> vote]
           Voted(x) == {y \in ToSet(x.tasks) : y.status \in {"approved", "rejected"}}
<1>1. i \in Wide /\ Base(i) /\ vote \in TaskStatus
  BY DEF InstanceOK, Base, TaskStatus
<1>2. t \in ToSet(i.tasks) /\ t.round = i.round /\ t.node = i.node
  BY DEF Current, Here
<1>3. t \in Slot /\ Sound(i, t)
  BY <1>1, <1>2, WideParts DEF Base
<1>4. OnlyStamped(k, i, {t}, vote)
  BY <1>1, MarkStamps, StampedType
<1> HIDE DEF k
<1> DEFINE w == Stamp(t, {t}, vote)
<1>5. w.round = i.round /\ w.node = i.node /\ w.user = t.user /\ w.status = vote
  BY <1>1, <1>2, <1>3, StampType
<1>6. Voted(k) = Voted(i) \cup {w}
  <2>1. /\ \A x \in ToSet(i.tasks) : Stamp(x, {t}, vote) \in ToSet(k.tasks)
        /\ \A x \in ToSet(k.tasks) : \E y \in ToSet(i.tasks) : x = Stamp(y, {t}, vote)
    BY <1>4 DEF OnlyStamped
  <2>2. \A x : x # t => Stamp(x, {t}, vote) = x
    BY DEF Stamp
  <2> HIDE DEF w
  <2>3. w \in Voted(k)
    BY <1>2, <1>5, <2>1 DEF w
  <2>4. Voted(i) \subseteq Voted(k)
    <3>1. ASSUME NEW x \in Voted(i) PROVE x \in Voted(k)
      <4>1. x # t
        OBVIOUS
      <4> QED
        BY <2>1, <2>2, <4>1
    <3> QED
      BY <3>1
  <2>5. ASSUME NEW x \in Voted(k) PROVE x \in Voted(i) \cup {w}
    <3>1. PICK y \in ToSet(i.tasks) : x = Stamp(y, {t}, vote)
      BY <2>1
    <3>2. CASE y = t
      BY <3>1, <3>2 DEF w
    <3>3. CASE y # t
      <4>1. x = y
        BY <2>2, <3>1, <3>3
      <4> QED
        BY <4>1
    <3> QED
      BY <3>2, <3>3
  <2> QED
    BY <2>3, <2>4, <2>5
<1> HIDE DEF w
<1>7. Ballots(k) = Ballots(i) \cup {b}
  <2> DEFINE Of(x) == [round |-> x.round, step |-> x.node, user |-> x.user, vote |-> x.status]
  <2>1. Ballots(k) = {Of(x) : x \in Voted(k)} /\ Ballots(i) = {Of(x) : x \in Voted(i)}
    BY DEF Ballots
  <2>2. Of(w) = b
    BY <1>5
  <2> HIDE DEF Of, b, Voted
  <2> QED
    BY <1>6, <2>1, <2>2
<1>8. ~\E z \in Ballots(i) : z.round = i.round /\ z.step = i.node /\ z.user = t.user
  <2> SUFFICES ASSUME NEW z \in Ballots(i), z.round = i.round, z.step = i.node, z.user = t.user
               PROVE  FALSE
    OBVIOUS
  <2>1. PICK x \in ToSet(i.tasks) :
          /\ x.status \in {"approved", "rejected"}
          /\ x.round = z.round /\ x.node = z.step /\ x.user = z.user
    BY DEF Ballots
  <2>2. Same(x, t)
    BY <1>2, <2>1 DEF Same
  <2>3. x = t
    BY <1>1, <1>2, <2>2 DEF Base
  <2> QED
    BY <2>1, <2>3
<1>9. i.node \in Nodes
  BY <1>1 DEF Base, Published, Nodes
<1>10. t.user \in Person \ {Requester}
  BY <1>2, <1>3 DEF Slot, Sound, Node
<1>11. Ballots(j) = Ballots(i) \cup {b}
  BY <1>7 DEF k
<1> HIDE DEF Voted
<1> QED
  BY <1>8, <1>9, <1>10, <1>11 DEF Casts

(* One refusal ends the review, unless all must refuse: then all did.      *)
LEMMA DecideEarned ==
  ASSUME Published, NEW i, InstanceOK(i), Earned(i), i.status = "reviewing",
         NEW t \in Current(i), t.status = "pending", Node(i).type = "review",
         NEW vote \in {"approved", "rejected"}, NEW here
  PROVE  Earned(Decide(i, t, vote, here)) /\ Heeds(i, Decide(i, t, vote, here))
<1> DEFINE j == Mark(i, t, vote)
           k == Decide(i, t, vote, here)
<1>1. /\ Base(j) /\ j.status = "reviewing" /\ Node(j) = Node(i) /\ Apart(j, i)
      /\ \A x \in Current(j) : x.status = vote \/ x \in Current(i) \ {t}
      /\ \E x \in Current(j) : x.status = vote
  BY MarkedNode
<1>2. k = IF Refused(j) THEN CancelRest([j EXCEPT !.status = "rejected"])
          ELSE IF Passed(j) THEN AdvanceReview(CancelRest(j), Node(j).next, here)
          ELSE Promote(j)
  BY DEF Decide
<1>3. \A x : Ballots(x) = Ballots(j) /\ x.round = i.round /\ Outcome(x) \in {"open", vote}
               => Casts(i, x)
  BY VoteCasts
<1> HIDE DEF j, k
<1>4. Base(i) /\ Outcome(i) = "open"
  BY DEF InstanceOK, Outcome, Open
<1>5. \A x \in Current(i) : /\ x.status \notin {"cancelled", "superseded"}
                            /\ Node(i).mode = "any" => x.status # "approved"
                            /\ x.status = "rejected" => Node(i).allReject
  BY DEF Earned, Undecided
<1>6. \A x \in Current(j) : x.status \notin {"cancelled", "superseded"}
  BY <1>1, <1>5
<1>7. PICK mine \in Live(j) : mine.status = vote
  BY <1>1 DEF Live
<1>8. \A x \in Live(j) : x \in Current(j)
  BY DEF Live
<1>9. j.round = i.round
  BY <1>1 DEF Apart
<1>10. CASE Refused(j)
  <2>1. vote = "rejected"
    <3>1. CASE Node(j).allReject
      BY <1>7, <1>10, <3>1 DEF Refused
    <3>2. CASE ~Node(j).allReject
      <4>1. PICK x \in Live(j) : x.status = "rejected"
        BY <1>10, <3>2 DEF Refused
      <4> QED
        BY <1>1, <1>5, <1>8, <3>2, <4>1
    <3> QED
      BY <3>1, <3>2
  <2> DEFINE m == [j EXCEPT !.status = "rejected"]
             r == CancelRest(m)
  <2>2. Base(m) /\ m.status = "rejected" /\ m.round = j.round /\ m.tasks = j.tasks
    BY <1>1, StatusSet
  <2> HIDE DEF m
  <2>3. m \in Wide /\ Ballots(m) = Ballots(j)
    BY <2>2 DEF Base, Ballots
  <2>4. Quiet(r, m)
    BY <2>3, RestQuiet
  <2>5. r.status = "rejected"
    <3>1. "cancelled" \in TaskStatus
      BY DEF TaskStatus
    <3>2. OnlyStamped(r, m, Remaining(m), "cancelled")
      BY <2>3, <3>1, RestStamps, StampedType
    <3> QED
      BY <2>2, <3>2 DEF OnlyStamped
  <2> HIDE DEF r
  <2>6. Ballots(r) = Ballots(j) /\ r.round = i.round
    BY <1>9, <2>2, <2>3, <2>4 DEF Quiet, Apart
  <2>7. Outcome(r) = "rejected"
    BY <2>5 DEF Outcome, Open
  <2>8. Earned(r)
    BY <2>5 DEF Earned, Undecided
  <2>9. Casts(i, r)
    BY <1>3, <2>1, <2>6, <2>7
  <2>10. k = r
    BY <1>2, <1>10 DEF r, m
  <2> QED
    BY <1>4, <2>8, <2>9, <2>10 DEF Heeds, k
<1>11. CASE ~Refused(j) /\ Passed(j)
  <2>1. vote = "approved"
    <3>1. CASE Node(j).mode = "any" /\ \E x \in Live(j) : x.status = "approved"
      BY <1>1, <1>5, <1>8, <3>1
    <3>2. CASE \A x \in Live(j) : x.status = "approved"
      BY <1>7, <3>2
    <3> QED
      BY <1>11, <3>1, <3>2 DEF Passed
  <2>2. Yes(j) = "approved"
    BY <1>1 DEF Yes
  <2>3. Node(j).mode # "any" => \A x \in Live(j) : x.status = "approved"
    BY <1>11 DEF Passed
  <2>4. Agreed(CancelRest(j), j.node)
    BY <1>1, <1>6, <2>1, <2>2, <2>3, AgreedAfterRest DEF Base
  <2>5. k = AdvanceReview(CancelRest(j), Node(j).next, here)
    BY <1>2, <1>11
  <2>6. /\ Earned(k) /\ k.round = i.round /\ k.status \in {"approved", "blocked", "reviewing"}
        /\ Ballots(k) = Ballots(j)
    BY <1>1, <1>4, <2>4, <2>5, PassEarned
  <2>7. Outcome(k) \in {"open", "approved"}
    BY <2>6 DEF Outcome, Open
  <2>8. Casts(i, k)
    BY <1>3, <2>1, <2>6, <2>7
  <2> QED
    BY <1>4, <2>6, <2>8 DEF Heeds, k
<1>12. CASE ~Refused(j) /\ ~Passed(j)
  <2>1. k = Promote(j)
    BY <1>2, <1>12
  <2>2. /\ Quiet(k, j) /\ k.status = "reviewing"
        /\ \A x \in Current(k) : x \in Current(j) \/ x.status = "pending"
    BY <1>1, <2>1, PromoteQuiet
  <2>3. Apart(k, i)
    BY <1>1, <2>2, ApartTwice DEF Quiet
  <2>4. Node(k) = Node(i)
    BY <2>3 DEF Apart, Node
  <2>5. ASSUME NEW x \in Current(k)
        PROVE  /\ x.status \notin {"cancelled", "superseded"}
               /\ Node(i).mode = "any" => x.status # "approved"
               /\ x.status = "rejected" => Node(i).allReject
    <3>1. CASE x.status = "pending"
      BY <3>1
    <3>2. CASE x \in Current(j)
      <4>1. x.status \in {"approved", "rejected"} => x \in Live(j)
        BY <3>2 DEF Live
      <4>2. Node(i).mode = "any" => x.status # "approved"
        BY <1>1, <1>12, <4>1 DEF Passed
      <4>3. x.status = "rejected" => Node(i).allReject
        BY <1>1, <1>12, <4>1 DEF Refused
      <4> QED
        BY <1>6, <3>2, <4>2, <4>3
    <3> QED
      BY <2>2, <3>1, <3>2
  <2>6. Undecided(k)
    BY <2>4, <2>5 DEF Undecided
  <2>7. PICK way : Trail(i, i.node, way)
    BY DEF Earned
  <2>8. i.node \in Nat /\ \A x \in way : x \in Nat
    BY <1>4, <2>7, FormType DEF Base, Trail
  <2>9. Trail(k, k.node, way)
    BY <2>3, <2>7, <2>8, ApartTrail
  <2>10. Earned(k)
    BY <2>2, <2>6, <2>9 DEF Earned
  <2>11. Outcome(k) = "open" /\ Ballots(k) = Ballots(j) /\ k.round = i.round
    BY <2>2, <2>3 DEF Outcome, Open, Quiet, Apart
  <2>12. Casts(i, k)
    BY <1>3, <2>11
  <2> QED
    BY <1>4, <2>10, <2>12 DEF Heeds, k
<1> QED
  BY <1>10, <1>11, <1>12

LEMMA CompleteEarned ==
  ASSUME Published, NEW i, InstanceOK(i), Earned(i), i.status = "reviewing",
         NEW t \in Current(i), t.status = "pending", Node(i).type = "handler", NEW here
  PROVE  Earned(Complete(i, t, here)) /\ Heeds(i, Complete(i, t, here))
<1> DEFINE j == Mark(i, t, "completed")
           k == Complete(i, t, here)
<1>1. /\ Base(j) /\ j.status = "reviewing" /\ Node(j) = Node(i) /\ Apart(j, i)
      /\ \A x \in Current(j) : x.status = "completed" \/ x \in Current(i) \ {t}
      /\ \E x \in Current(j) : x.status = "completed"
  BY MarkedNode
<1>2. k = IF Node(j).mode = "any" \/ \A x \in Live(j) : x.status = "completed"
          THEN AdvanceReview(CancelRest(j), Node(j).next, here)
          ELSE Promote(j)
  BY DEF Complete
<1>3. Quiet(j, i)
  BY MarkedQuiet
<1> HIDE DEF j, k
<1>4. Base(i) /\ i.status \in Open
  BY DEF InstanceOK, Open
<1>5. \A x \in Current(i) : /\ x.status \notin {"cancelled", "superseded"}
                            /\ Node(i).mode = "any" => x.status # "approved"
                            /\ x.status = "rejected" => Node(i).allReject
  BY DEF Earned, Undecided
<1>6. CASE Node(j).mode = "any" \/ \A x \in Live(j) : x.status = "completed"
  <2>1. Yes(j) = "completed"
    BY <1>1 DEF Yes
  <2>2. Agreed(CancelRest(j), j.node)
    BY <1>1, <1>5, <1>6, <2>1, AgreedAfterRest DEF Base
  <2>3. k = AdvanceReview(CancelRest(j), Node(j).next, here)
    BY <1>2, <1>6
  <2>4. /\ Earned(k) /\ k.round = i.round /\ k.status \in {"approved", "blocked", "reviewing"}
        /\ Ballots(k) = Ballots(j)
    BY <1>1, <1>4, <2>2, <2>3, PassEarned
  <2>5. Ballots(k) = Ballots(i)
    BY <1>3, <2>4 DEF Quiet
  <2> QED
    BY <1>4, <2>4, <2>5, WalkHeeds DEF k
<1>7. CASE ~ (Node(j).mode = "any" \/ \A x \in Live(j) : x.status = "completed")
  <2>1. k = Promote(j)
    BY <1>2, <1>7
  <2>2. /\ Quiet(k, j) /\ k.status = "reviewing"
        /\ \A x \in Current(k) : x \in Current(j) \/ x.status = "pending"
    BY <1>1, <2>1, PromoteQuiet
  <2>3. Quiet(k, i)
    BY <1>3, <2>2, ApartTwice DEF Quiet
  <2>4. Node(k) = Node(i)
    BY <2>3 DEF Quiet, Apart, Node
  <2>5. Undecided(k)
    BY <1>1, <1>5, <2>2, <2>4 DEF Undecided
  <2> QED
    BY <1>4, <2>2, <2>3, <2>5, QuietHeeds DEF k
<1> QED
  BY <1>6, <1>7

(* A task more that nobody has answered.                                   *)
LEMMA AddedEarned ==
  ASSUME Published, NEW i, Base(i), Earned(i), i.status = "reviewing",
         NEW j, Base(j), Quiet(j, i), j.status = "reviewing",
         \A x \in Current(j) : x.status = "transferred" \/ x \in Current(i),
         NEW t, \E q \in DOMAIN j.tasks : j.tasks[q].id = t.id,
         NEW new \in Slot, Here(j, new), new.status \in Asked
  PROVE  Earned(InsertAfter(j, t, new)) /\ Heeds(i, InsertAfter(j, t, new))
<1> DEFINE k == InsertAfter(j, t, new)
<1>1. j \in Wide /\ new.status \notin {"approved", "rejected"}
  BY DEF Base, Asked
<1>2. /\ Quiet(k, j) /\ k.status = j.status
      /\ \A x \in ToSet(k.tasks) : x = new \/ x \in ToSet(j.tasks)
  BY <1>1, InsertedQuiet
<1> HIDE DEF k
<1>3. Quiet(k, i) /\ Node(k) = Node(i)
  <2>1. Quiet(k, i)
    BY <1>2, ApartTwice DEF Quiet
  <2> QED
    BY <2>1 DEF Quiet, Apart, Node
<1>4. \A x \in Current(k) : x = new \/ x \in Current(j)
  BY <1>2 DEF Quiet, Apart, Current, Here
<1>5. \A x \in Current(i) : /\ x.status \notin {"cancelled", "superseded"}
                            /\ Node(i).mode = "any" => x.status # "approved"
                            /\ x.status = "rejected" => Node(i).allReject
  BY DEF Earned, Undecided
<1>6. Undecided(k)
  BY <1>3, <1>4, <1>5 DEF Undecided, Asked
<1>7. i.status \in Open /\ k.status \in {"reviewing", "awaiting_amendment"}
  BY <1>2 DEF Open
<1> QED
  BY <1>3, <1>6, <1>7, QuietHeeds DEF k

LEMMA ReassignEarned ==
  ASSUME Published, NEW i, InstanceOK(i), Earned(i), i.status = "reviewing",
         NEW t \in Current(i), t.status = "pending",
         NEW target \in Person, NEW source \in {"transfer", "timeout"}
  PROVE  Earned(Reassign(i, t, target, source)) /\ Heeds(i, Reassign(i, t, target, source))
<1> DEFINE j == Mark(i, t, "transferred")
           num == Len(i.tasks) + 1
           reset == source = "timeout" \/ Node(i).deadline = "reset"
           due == IF t.due = 0 THEN 0 ELSE IF reset THEN num ELSE t.due
           new == [t EXCEPT !.id = num, !.user = target, !.source = source, !.due = due]
<1>1. /\ Base(j) /\ j.status = "reviewing" /\ Apart(j, i)
      /\ \A x \in Current(j) : x.status = "transferred" \/ x \in Current(i) \ {t}
  BY MarkedNode
<1>2. Quiet(j, i)
  BY MarkedQuiet
<1>3. /\ DOMAIN j.tasks = DOMAIN i.tasks
      /\ \A p \in DOMAIN i.tasks : j.tasks[p].id = i.tasks[p].id
  <2>1. "transferred" \in TaskStatus \ {"pending", "waiting", "suspended"}
    BY DEF TaskStatus
  <2> QED
    BY <2>1, MarkOK
<1>4. Reassign(i, t, target, source) = InsertAfter(j, t, new)
  BY DEF Reassign
<1> HIDE DEF j
<1>5. i \in Wide /\ Base(i) /\ t \in ToSet(i.tasks) /\ Here(i, t)
  BY DEF InstanceOK, Base, Current
<1>6. Len(i.tasks) \in Nat /\ t \in Slot
  BY <1>5, WideParts
<1>7. num \in Nat /\ due \in Nat
  BY <1>6 DEF Slot
<1> HIDE DEF due, num
<1>8. new \in Slot /\ new.node = t.node /\ new.round = t.round /\ new.status = "pending"
  BY <1>6, <1>7 DEF Slot
<1> HIDE DEF new
<1>9. \E q \in DOMAIN j.tasks : j.tasks[q].id = t.id
  BY <1>3, <1>5 DEF ToSet
<1>10. Here(j, new) /\ new.status \in Asked
  BY <1>1, <1>5, <1>8 DEF Here, Apart, Asked
<1>11. Earned(InsertAfter(j, t, new)) /\ Heeds(i, InsertAfter(j, t, new))
  BY <1>1, <1>2, <1>5, <1>8, <1>9, <1>10, AddedEarned
<1> QED
  BY <1>4, <1>11

LEMMA CountersignEarned ==
  ASSUME Published, NEW i, InstanceOK(i), Earned(i), i.status = "reviewing",
         NEW t \in Current(i), t.status = "pending", NEW target \in Person
  PROVE  Earned(Countersign(i, t, target)) /\ Heeds(i, Countersign(i, t, target))
<1> DEFINE later == Node(i).mode = "sequential"
           num == Len(i.tasks) + 1
           status == IF later THEN "waiting" ELSE "pending"
           due == IF later THEN 0 ELSE t.due
           new == [t EXCEPT !.id = num, !.user = target, !.source = "countersign",
                            !.status = status, !.due = due]
<1>1. Countersign(i, t, target) = InsertAfter(i, t, new)
  BY DEF Countersign
<1>2. i \in Wide /\ Base(i) /\ t \in ToSet(i.tasks) /\ Here(i, t)
  BY DEF InstanceOK, Base, Current
<1>3. Len(i.tasks) \in Nat /\ t \in Slot
  BY <1>2, WideParts
<1>4. num \in Nat /\ due \in Nat /\ status \in TaskStatus /\ status \in Asked
  BY <1>3 DEF Slot, TaskStatus, Asked
<1> HIDE DEF due, num, status
<1>5. new \in Slot /\ new.node = t.node /\ new.round = t.round /\ new.status = status
  BY <1>3, <1>4 DEF Slot
<1> HIDE DEF new
<1>6. \E q \in DOMAIN i.tasks : i.tasks[q].id = t.id
  BY <1>2 DEF ToSet
<1>7. Here(i, new)
  BY <1>2, <1>5 DEF Here
<1>8. Quiet(i, i)
  BY DEF Quiet, Apart
<1>9. Earned(InsertAfter(i, t, new)) /\ Heeds(i, InsertAfter(i, t, new))
  BY <1>2, <1>4, <1>5, <1>6, <1>7, <1>8, AddedEarned
<1> QED
  BY <1>1, <1>9

LEMMA AmendmentEarned ==
  ASSUME Published, NEW i, InstanceOK(i), Earned(i), i.status = "reviewing"
  PROVE  Earned(RequestAmendment(i)) /\ Heeds(i, RequestAmendment(i))
<1> DEFINE j == [i EXCEPT !.status = "awaiting_amendment"]
           S == Remaining(j)
           k == Stamped(j, S, "suspended")
<1>1. i \in Wide /\ Base(i)
  BY DEF InstanceOK, Base
<1>2. RequestAmendment(i) = k
  BY <1>1, AmendmentStamps
<1>3. /\ j \in Wide /\ j.status = "awaiting_amendment" /\ j.node = i.node /\ j.round = i.round
      /\ j.tasks = i.tasks /\ j.value = i.value
  BY <1>1, WideParts DEF Wide, Open
<1> HIDE DEF j
<1>4. \A t \in S \cap ToSet(j.tasks) : Here(j, t) /\ t.status \notin {"approved", "rejected"}
  BY DEF Remaining
<1>5. "suspended" \in TaskStatus \ {"approved", "rejected"}
  BY DEF TaskStatus
<1> HIDE DEF S
<1>6. Quiet(k, j)
  BY <1>3, <1>4, <1>5, StampedQuiet
<1>7. k.status = "awaiting_amendment"
  <2>1. OnlyStamped(k, j, S, "suspended")
    BY <1>3, <1>5, StampedType
  <2> QED
    BY <1>3, <2>1 DEF OnlyStamped
<1> HIDE DEF k
<1>8. Quiet(k, i)
  BY <1>3, <1>6 DEF Quiet, Apart, Here, Ballots
<1>9. Undecided(k) /\ i.status \in Open
  BY <1>7 DEF Undecided, Open
<1> QED
  BY <1>1, <1>2, <1>7, <1>8, <1>9, QuietHeeds

(* Closing what is unsettled is quiet: it is all at the current node.      *)
LEMMA SettledQuiet ==
  ASSUME NEW i \in Wide, \A t \in Unsettled(i) : Here(i, t),
         NEW status \in {"cancelled", "superseded"}
  PROVE  Quiet(Stamped(i, Unsettled(i), status), i)
<1> DEFINE S == Unsettled(i)
<1>1. status \in TaskStatus \ {"approved", "rejected"}
  BY DEF TaskStatus
<1>2. \A t \in S \cap ToSet(i.tasks) : Here(i, t) /\ t.status \notin {"approved", "rejected"}
  BY DEF Unsettled
<1> HIDE DEF S
<1>3. Quiet(Stamped(i, S, status), i)
  BY <1>1, <1>2, StampedQuiet
<1> QED
  BY <1>3 DEF S

LEMMA WithdrawEarned ==
  ASSUME NEW i, InstanceOK(i), i.status \in Open
  PROVE  Earned(Withdraw(i)) /\ Heeds(i, Withdraw(i))
<1> DEFINE j == [i EXCEPT !.status = "withdrawn"]
           k == Stamped(j, Unsettled(j), "cancelled")
<1>1. i \in Wide /\ Base(i) /\ OpenOK(i)
  BY DEF InstanceOK, Base
<1>2. Withdraw(i) = k
  BY WithdrawStamps
<1>3. /\ j \in Wide /\ j.status = "withdrawn" /\ j.node = i.node /\ j.round = i.round
      /\ j.tasks = i.tasks
  BY <1>1, WideParts DEF Wide, Open
<1> HIDE DEF j
<1>4. \A t \in Unsettled(j) : Here(j, t)
  BY <1>1, <1>3 DEF Unsettled, OpenOK, Here, Asked
<1>5. Quiet(k, j)
  BY <1>3, <1>4, SettledQuiet
<1>6. k.status = "withdrawn"
  <2>1. "cancelled" \in TaskStatus
    BY DEF TaskStatus
  <2>2. OnlyStamped(k, j, Unsettled(j), "cancelled")
    BY <1>3, <2>1, StampedType
  <2> QED
    BY <1>3, <2>2 DEF OnlyStamped
<1> HIDE DEF k
<1>7. Earned(k) /\ Outcome(k) = "withdrawn" /\ Outcome(i) = "open"
  BY <1>6 DEF Earned, Undecided, Outcome, Open
<1>8. Ballots(k) = Ballots(i) /\ k.round = i.round
  BY <1>3, <1>5 DEF Quiet, Apart, Ballots
<1> QED
  BY <1>2, <1>7, <1>8 DEF Heeds

(* In a round that begins nobody has voted yet, so its walk cannot end in  *)
(* an approval.                                                            *)
LEMMA NewRound ==
  ASSUME Published, NEW i, Base(i), NEW here, \A t \in ToSet(i.tasks) : t.round # i.round
  PROVE  LET j == AdvanceReview(i, 1, here)
         IN /\ Earned(j) /\ j.round = i.round /\ j.status \in {"blocked", "reviewing"}
            /\ Ballots(j) = Ballots(i)
<1> DEFINE j == AdvanceReview(i, 1, here)
<1>1. 1 \in DOMAIN form
  BY FormType
<1>2. Trail(i, 1, {1})
  BY <1>1 DEF Trail
<1>3. LET x == AdvanceReview(i, 1, here)
      IN /\ Earned(x) /\ x.round = i.round /\ x.status \in {"approved", "blocked", "reviewing"}
         /\ Ballots(x) = Ballots(i)
  BY <1>1, <1>2, AdvanceEarned
<1>4. /\ Earned(j) /\ j.round = i.round /\ j.status \in {"approved", "blocked", "reviewing"}
      /\ Ballots(j) = Ballots(i)
  BY <1>3, Zenon
<1> HIDE DEF j
<1>5. j.status # "approved"
  <2>1. ASSUME j.status = "approved" PROVE FALSE
    <3>1. Backed(j)
      BY <1>4, <2>1, ApprovalBacked
    <3>2. PICK b \in Ballots(i) : b.round = i.round
      BY <1>4, <3>1 DEF Backed
    <3> QED
      BY <3>2 DEF Ballots
  <2> QED
    BY <2>1
<1> QED
  BY <1>4, <1>5 DEF j

LEMMA ResubmitEarned ==
  ASSUME Published, NEW i, InstanceOK(i), i.status \in Open, NEW value \in Value, NEW here
  PROVE  Earned(Resubmit(i, value, here)) /\ Heeds(i, Resubmit(i, value, here))
<1> DEFINE old == Stamped(i, Unsettled(i), "superseded")
           j == [old EXCEPT !.round = @ + 1, !.value = value]
           k == AdvanceReview(j, 1, here)
<1>1. Resubmit(i, value, here) = k
  BY ResubmitStamps
<1>2. i \in Wide /\ Base(i) /\ OpenOK(i)
  BY DEF InstanceOK, Base
<1>3. Base(old) /\ Quiet(old, i)
  <2>1. \A t \in Unsettled(i) : Here(i, t)
    BY <1>2 DEF Unsettled, OpenOK, Asked
  <2> QED
    BY <1>2, <2>1, SettleOK, SettledQuiet
<1> HIDE DEF old
<1>4. old \in Wide /\ old.round \in Nat /\ \A t \in ToSet(old.tasks) : t \in Slot
  <2>1. old \in Wide
    BY <1>3 DEF Base
  <2> QED
    BY <2>1, WideParts
<1>5. j \in Wide /\ j.tasks = old.tasks /\ j.node = old.node /\ j.round = old.round + 1
  <2> DEFINE next == old.round + 1
  <2>1. j = [old EXCEPT !.round = next, !.value = value]
    OBVIOUS
  <2>2. next \in Nat
    BY <1>4
  <2> HIDE DEF next, j
  <2>3. j \in Wide /\ j.tasks = old.tasks /\ j.node = old.node /\ j.round = next
    BY <1>4, <2>1, <2>2 DEF Wide
  <2> QED
    BY <2>3 DEF next
<1> HIDE DEF j
<1>6. Base(j)
  BY <1>3, <1>5, BaseKept
<1>7. ASSUME NEW t \in ToSet(j.tasks) PROVE t.round # j.round
  <2>1. Sound(old, t) /\ t.round \in Nat
    BY <1>3, <1>4, <1>5 DEF Base, Slot
  <2> QED
    BY <1>4, <1>5, <2>1 DEF Sound
<1>8. /\ Earned(k) /\ k.round = j.round /\ k.status \in {"blocked", "reviewing"}
      /\ Ballots(k) = Ballots(j)
  BY <1>6, <1>7, NewRound
<1> HIDE DEF k
<1>9. Ballots(k) = Ballots(i) /\ k.round = i.round + 1
  BY <1>3, <1>5, <1>8 DEF Ballots, Quiet, Apart
<1>10. Outcome(i) = "open" /\ Outcome(k) = "open"
  BY <1>8 DEF Outcome, Open
<1> QED
  BY <1>1, <1>8, <1>9, <1>10 DEF Heeds

LEMMA RetryEarned ==
  ASSUME Published, NEW i, InstanceOK(i), Earned(i), i.status = "blocked", NEW here
  PROVE  LET j == AdvanceReview(i, i.node, here)
         IN Earned(j) /\ Heeds(i, j)
<1> DEFINE j == AdvanceReview(i, i.node, here)
<1>1. i \in Wide /\ Base(i) /\ i.node \in DOMAIN form
  BY DEF InstanceOK, Base
<1>2. i.node \in Nat /\ \A t \in ToSet(i.tasks) : t \in Slot
  BY <1>1, WideParts
<1>3. ASSUME NEW t \in ToSet(i.tasks), t.round = i.round PROVE t.node < i.node
  <2>1. t.node \in Nat /\ Sound(i, t)
    BY <1>1, <1>2 DEF Base, Slot
  <2>2. ~Here(i, t)
    BY DEF InstanceOK, Ahead
  <2> QED
    BY <1>2, <1>3, <2>1, <2>2 DEF Sound, Here
<1>4. PICK way : Trail(i, i.node, way)
  BY DEF Earned
<1>5. /\ Earned(j) /\ j.round = i.round /\ j.status \in {"approved", "blocked", "reviewing"}
      /\ Ballots(j) = Ballots(i)
  <2>1. LET x == AdvanceReview(i, i.node, here)
        IN /\ Earned(x) /\ x.round = i.round /\ x.status \in {"approved", "blocked", "reviewing"}
           /\ Ballots(x) = Ballots(i)
    BY <1>1, <1>3, <1>4, AdvanceEarned
  <2> QED
    BY <2>1, Zenon
<1> HIDE DEF j
<1>6. Heeds(i, j)
  BY <1>5, WalkHeeds DEF Open
<1> QED
  BY <1>5, <1>6 DEF j

(* A command works on the version it has read.                             *)
SameVersion(j, i) == "version" \in DOMAIN j /\ j.version = i.version

LEMMA TasksVersion ==
  ASSUME NEW i, "version" \in DOMAIN i, NEW tasks
  PROVE  SameVersion([i EXCEPT !.tasks = tasks], i)
BY DEF SameVersion

LEMMA StatusVersion ==
  ASSUME NEW i, "version" \in DOMAIN i, NEW status
  PROVE  SameVersion([i EXCEPT !.status = status], i)
BY DEF SameVersion

LEMMA StampedVersion ==
  ASSUME NEW i, "version" \in DOMAIN i, NEW S, NEW status
  PROVE  SameVersion(Stamped(i, S, status), i)
BY TasksVersion, Zenon DEF Stamped

LEMMA AdvanceVersion ==
  ASSUME NEW i, "version" \in DOMAIN i, NEW from, NEW here
  PROVE  SameVersion(AdvanceReview(i, from, here), i)
<1> DEFINE at == Walk(i, here)[from]
           all == i.tasks \o Numbered(i, at.tasks)
           node == at.node
           status == at.status
           j == [i EXCEPT !.node = node, !.status = status, !.tasks = all]
<1>1. AdvanceReview(i, from, here) = j
  BY DEF AdvanceReview
<1> HIDE DEF all, at, node, status
<1>2. SameVersion(j, i)
  BY DEF SameVersion
<1> QED
  BY <1>1, <1>2

LEMMA InsertVersion ==
  ASSUME NEW i, "version" \in DOMAIN i, NEW t, NEW new
  PROVE  SameVersion(InsertAfter(i, t, new), i)
<1> DEFINE all == InsertAt(i.tasks, (CHOOSE q \in DOMAIN i.tasks : i.tasks[q].id = t.id) + 1, new)
<1>1. InsertAfter(i, t, new) = [i EXCEPT !.tasks = all]
  BY DEF InsertAfter
<1> HIDE DEF all
<1> QED
  BY <1>1, TasksVersion

LEMMA PromoteVersion ==
  ASSUME NEW i \in Wide
  PROVE  SameVersion(Promote(i), i)
<1> DEFINE waiting == {p \in DOMAIN i.tasks : /\ Here(i, i.tasks[p])
                                              /\ i.tasks[p].status = "waiting"}
           first == CHOOSE p \in waiting : \A q \in waiting : p <= q
           w == [i.tasks[first] EXCEPT !.status = "pending",
                   !.due = IF Node(i).timeout # "none" THEN i.tasks[first].id ELSE 0]
<1>1. Promote(i) = i \/ Promote(i) = [i EXCEPT !.tasks[first] = w]
  BY DEF Promote
<1> HIDE DEF first, w
<1> QED
  BY <1>1 DEF SameVersion, Wide

LEMMA OperationVersion ==
  ASSUME NEW i, InstanceOK(i), i.status = "reviewing", NEW t \in Current(i), t.status = "pending",
         NEW here
  PROVE  /\ \A vote \in {"approved", "rejected"} : SameVersion(Decide(i, t, vote, here), i)
         /\ SameVersion(Complete(i, t, here), i)
         /\ \A target, source : SameVersion(Reassign(i, t, target, source), i)
         /\ \A target : SameVersion(Countersign(i, t, target), i)
         /\ SameVersion(RequestAmendment(i), i)
<1>1. i \in Wide /\ "version" \in DOMAIN i
  BY DEF InstanceOK, Base, Wide
<1>2. ASSUME NEW status \in {"approved", "rejected", "completed", "transferred"}
      PROVE  Mark(i, t, status) \in Wide /\ SameVersion(Mark(i, t, status), i)
  <2>1. Base(Mark(i, t, status))
    BY MarkedNode
  <2> QED
    BY <1>1, <2>1, MarkStamps, StampedVersion DEF Base
<1>3. ASSUME NEW j, SameVersion(j, i), NEW from
      PROVE  /\ SameVersion(CancelRest(j), i)
             /\ SameVersion(AdvanceReview(CancelRest(j), from, here), i)
  <2>1. SameVersion(CancelRest(j), j)
    BY <1>3, RestStamps, StampedVersion DEF SameVersion
  <2> QED
    BY <1>3, <2>1, AdvanceVersion DEF SameVersion
<1>4. ASSUME NEW vote \in {"approved", "rejected"} PROVE SameVersion(Decide(i, t, vote, here), i)
  <2> DEFINE j == Mark(i, t, vote)
             m == [j EXCEPT !.status = "rejected"]
  <2>1. Decide(i, t, vote, here)
          \in {CancelRest(m), AdvanceReview(CancelRest(j), Node(j).next, here), Promote(j)}
    BY DEF Decide
  <2>2. j \in Wide /\ SameVersion(j, i)
    BY <1>2
  <2> HIDE DEF j
  <2>3. SameVersion(m, i)
    BY <2>2, StatusVersion DEF SameVersion
  <2>4. SameVersion(Promote(j), i)
    BY <2>2, PromoteVersion DEF SameVersion
  <2> HIDE DEF m
  <2> QED
    BY <1>3, <2>1, <2>2, <2>3, <2>4
<1>5. SameVersion(Complete(i, t, here), i)
  <2> DEFINE j == Mark(i, t, "completed")
  <2>1. Complete(i, t, here) \in {AdvanceReview(CancelRest(j), Node(j).next, here), Promote(j)}
    BY DEF Complete
  <2>2. j \in Wide /\ SameVersion(j, i)
    BY <1>2
  <2> HIDE DEF j
  <2>3. SameVersion(Promote(j), i)
    BY <2>2, PromoteVersion DEF SameVersion
  <2> QED
    BY <1>3, <2>1, <2>2, <2>3
<1>6. ASSUME NEW target, NEW source PROVE SameVersion(Reassign(i, t, target, source), i)
  <2>1. SameVersion(Mark(i, t, "transferred"), i)
    BY <1>2
  <2> QED
    BY <2>1, InsertVersion DEF Reassign, SameVersion
<1>7. ASSUME NEW target PROVE SameVersion(Countersign(i, t, target), i)
  BY <1>1, InsertVersion DEF Countersign
<1>8. SameVersion(RequestAmendment(i), i)
  <2> DEFINE j == [i EXCEPT !.status = "awaiting_amendment"]
  <2>1. RequestAmendment(i) = Stamped(j, Remaining(j), "suspended")
    BY <1>1, AmendmentStamps
  <2>2. SameVersion(j, i)
    BY <1>1, StatusVersion
  <2> HIDE DEF j
  <2> QED
    BY <2>1, <2>2, StampedVersion DEF SameVersion
<1> QED
  BY <1>4, <1>5, <1>6, <1>7, <1>8

LEMMA RequesterVersion ==
  ASSUME NEW i \in Wide, NEW here
  PROVE  /\ SameVersion(Withdraw(i), i)
         /\ \A value : SameVersion(Resubmit(i, value, here), i)
         /\ SameVersion(AdvanceReview(i, i.node, here), i)
<1>1. "version" \in DOMAIN i
  BY DEF Wide
<1>2. SameVersion(Withdraw(i), i)
  <2> DEFINE j == [i EXCEPT !.status = "withdrawn"]
  <2>1. Withdraw(i) = Stamped(j, Unsettled(j), "cancelled")
    BY WithdrawStamps
  <2>2. SameVersion(j, i)
    BY <1>1, StatusVersion
  <2> HIDE DEF j
  <2> QED
    BY <2>1, <2>2, StampedVersion DEF SameVersion
<1>3. ASSUME NEW value PROVE SameVersion(Resubmit(i, value, here), i)
  <2> DEFINE old == Stamped(i, Unsettled(i), "superseded")
             round == old.round + 1
             j == [old EXCEPT !.round = round, !.value = value]
  <2>1. Resubmit(i, value, here) = AdvanceReview(j, 1, here)
    BY ResubmitStamps
  <2>2. SameVersion(old, i)
    BY <1>1, StampedVersion
  <2> HIDE DEF old, round
  <2>3. SameVersion(j, i)
    BY <2>2 DEF SameVersion
  <2> HIDE DEF j
  <2> QED
    BY <2>1, <2>3, AdvanceVersion DEF SameVersion
<1> QED
  BY <1>1, <1>2, <1>3, AdvanceVersion

(* What is written has the next version, and promises no less.             *)
LEMMA NextVersion ==
  ASSUME NEW i \in Wide, Earned(i)
  PROVE  LET j == [i EXCEPT !.version = @ + 1]
         IN /\ Earned(j) /\ j.version = i.version + 1
            /\ \A x : Heeds(x, i) => Heeds(x, j)
<1> DEFINE j == [i EXCEPT !.version = @ + 1]
<1>1. /\ j.status = i.status /\ j.node = i.node /\ j.round = i.round /\ j.value = i.value
      /\ j.tasks = i.tasks /\ j.version = i.version + 1
  BY WideParts DEF Wide
<1> HIDE DEF j
<1>2. Node(j) = Node(i) /\ Current(j) = Current(i)
  BY <1>1 DEF Node, Current, Here
<1>3. \A way : Trail(i, i.node, way) => Trail(j, j.node, way)
  BY <1>1 DEF Trail, Agreed
<1>4. Earned(j)
  BY <1>1, <1>2, <1>3 DEF Earned, Undecided
<1>5. Outcome(j) = Outcome(i) /\ Ballots(j) = Ballots(i)
  BY <1>1 DEF Outcome, Ballots
<1>6. \A x : Heeds(x, i) => Heeds(x, j)
  BY <1>1, <1>5 DEF Heeds, Casts
<1> QED
  BY <1>1, <1>4, <1>6 DEF j

(***************************************************************************)
(* The invariant: the row is earned, and so is whatever a request is about *)
(* to write; if its version is the next, it heeds the row as it is.        *)
(***************************************************************************)
PromiseOK ==
  /\ Earned(row)
  /\ \A s \in Session : sessions[s] # Idle =>
       /\ Earned(sessions[s]) /\ sessions[s].version <= row.version + 1
       /\ sessions[s].version = row.version + 1 => Heeds(row, sessions[s])

LEMMA EarnedKept ==
  ASSUME form' = form, NEW i
  PROVE  Earned(i)' <=> Earned(i)
<1>1. Undecided(i)' <=> Undecided(i)
  BY DEF Undecided, Node
<1>2. \A way : Trail(i, i.node, way)' <=> Trail(i, i.node, way)
  BY DEF Trail, Branch, Judged, Agreed
<1> QED
  BY <1>1, <1>2 DEF Earned, Node

(* The row and the requests that are left stay as they are.                *)
LEMMA KeepPromise ==
  ASSUME PromiseOK, form' = form, row' = row,
         \A s \in Session : sessions'[s] \in {Idle, sessions[s]}
  PROVE  PromiseOK'
<1>1. Earned(row)'
  BY EarnedKept DEF PromiseOK
<1>2. ASSUME NEW s \in Session, sessions'[s] # Idle
      PROVE  /\ Earned(sessions[s])' /\ sessions'[s].version <= row'.version + 1
             /\ sessions'[s].version = row'.version + 1 => Heeds(row', sessions'[s])
  <2>1. sessions'[s] = sessions[s]
    BY <1>2
  <2>2. Earned(sessions[s])'
    BY <1>2, <2>1, EarnedKept DEF PromiseOK
  <2> QED
    BY <1>2, <2>1, <2>2 DEF PromiseOK
<1> QED
  BY <1>1, <1>2 DEF PromiseOK

(* A write leaves the other requests behind.                               *)
LEMMA WritePromise ==
  ASSUME ReviewOK, PromiseOK, form' = form, Earned(row'), row'.version = row.version + 1,
         \A s \in Session : sessions'[s] \in {Idle, sessions[s]}
  PROVE  PromiseOK'
<1>1. Earned(row)'
  BY EarnedKept
<1>2. row.version \in Nat /\ \A s \in Session : sessions[s] # Idle => sessions[s].version \in Nat
  BY DEF ReviewOK, TypeOK, Instance
<1>3. ASSUME NEW s \in Session, sessions'[s] # Idle
      PROVE  /\ Earned(sessions[s])' /\ sessions'[s].version <= row'.version + 1
             /\ sessions'[s].version # row'.version + 1
  <2>1. sessions'[s] = sessions[s]
    BY <1>3
  <2>2. Earned(sessions[s])'
    BY <1>3, <2>1, EarnedKept DEF PromiseOK
  <2> QED
    BY <1>2, <1>3, <2>1, <2>2 DEF PromiseOK
<1> QED
  BY <1>1, <1>3 DEF PromiseOK

LEMMA HoldPromise ==
  ASSUME ReviewOK, PromiseOK, NEW s \in Session, NEW i, InstanceOK(i), Earned(i), Heeds(row, i),
         SameVersion(i, row), Hold(s, i)
  PROVE  PromiseOK' /\ row' = row
<1> DEFINE j == [i EXCEPT !.version = @ + 1]
<1>1. i \in Wide
  BY DEF InstanceOK, Base
<1>2. Earned(j) /\ j.version = i.version + 1 /\ Heeds(row, j)
  BY <1>1, NextVersion
<1>3. sessions' = [sessions EXCEPT ![s] = j] /\ row' = row /\ form' = form
  BY DEF Hold
<1> HIDE DEF j
<1>4. row.version \in Nat /\ j.version = row.version + 1
  BY <1>2 DEF ReviewOK, TypeOK, Instance, SameVersion
<1>5. Earned(row)'
  BY <1>3, EarnedKept DEF PromiseOK
<1>6. ASSUME NEW r \in Session, sessions'[r] # Idle
      PROVE  /\ Earned(sessions[r])' /\ sessions'[r].version <= row'.version + 1
             /\ sessions'[r].version = row'.version + 1 => Heeds(row', sessions'[r])
  <2>1. CASE r = s
    <3>1. sessions'[r] = j
      BY <1>3, <2>1 DEF ReviewOK, TypeOK
    <3>2. Earned(sessions[r])'
      BY <1>2, <1>3, <3>1, EarnedKept
    <3> QED
      BY <1>2, <1>3, <1>4, <3>1, <3>2
  <2>2. CASE r # s
    <3>1. sessions'[r] = sessions[r]
      BY <1>3, <2>2 DEF ReviewOK, TypeOK
    <3>2. Earned(sessions[r])'
      BY <1>3, <1>6, <3>1, EarnedKept DEF PromiseOK
    <3> QED
      BY <1>3, <1>6, <3>1, <3>2 DEF PromiseOK
  <2> QED
    BY <2>1, <2>2
<1> QED
  BY <1>3, <1>5, <1>6 DEF PromiseOK

LEMMA InitPromise ==
  ASSUME Init
  PROVE  PromiseOK /\ Promise!Init
<1>1. Published
  BY DEF Init, Published
<1>2. PICK value \in Answers :
        row = AdvanceReview([status |-> "reviewing", node |-> 1, round |-> 1, version |-> 1,
                             value |-> value, tasks |-> <<>>], 1, present)
  BY DEF Init
<1> DEFINE i == [status |-> "reviewing", node |-> 1, round |-> 1, version |-> 1,
                 value |-> value, tasks |-> <<>>]
<1>3. value \in Value
  BY ReviewAssumption DEF Answers
<1>4. i \in Wide /\ i.node = 1 /\ i.round = 1 /\ ToSet(i.tasks) = {} /\ DOMAIN i.tasks = {}
  BY <1>3 DEF Wide, Open, ToSet
<1>5. row = AdvanceReview(i, 1, present)
  BY <1>2
<1> HIDE DEF i
<1>6. 1 \in DOMAIN form
  BY <1>1, FormType
<1>7. Base(i)
  BY <1>4, <1>6 DEF Base
<1>8. /\ Earned(row) /\ row.round = 1 /\ row.status \in {"blocked", "reviewing"}
      /\ Ballots(row) = Ballots(i)
  BY <1>1, <1>4, <1>5, <1>7, NewRound
<1>9. Ballots(row) = {} /\ Outcome(row) = "open"
  BY <1>4, <1>8 DEF Ballots, Outcome, Open
<1>10. \A s \in Session : sessions[s] = Idle
  BY DEF Init
<1> QED
  BY <1>8, <1>9, <1>10 DEF PromiseOK, Promise!Init

LEMMA RequestPromise ==
  ASSUME ReviewOK, PromiseOK, NEW s \in Session, NEW t \in Current(row),
         \/ \E vote \in {"approved", "rejected"} : Judge(s, t, vote)
         \/ CompleteTask(s, t) \/ AskAmendment(s, t)
         \/ \E target \in Person : Transfer(s, t, target) \/ AddSigner(s, t, target)
  PROVE  PromiseOK' /\ row' = row
<1>1. Published /\ InstanceOK(row) /\ Earned(row)
  BY DEF ReviewOK, Held, PromiseOK
<1>2. Node(row).transfer \in Rule /\ Node(row).countersign \in Rule
  BY <1>1, NodeType DEF InstanceOK, Base, Node
<1>3. row.status = "reviewing" /\ t.status = "pending"
  BY ActsOnOpen DEF Judge, CompleteTask, AskAmendment, Transfer, AddSigner
<1>4. ASSUME NEW vote \in {"approved", "rejected"}, Judge(s, t, vote) PROVE PromiseOK' /\ row' = row
  <2> DEFINE i == Decide(row, t, vote, present)
  <2>1. Node(row).type = "review" /\ Hold(s, i)
    BY <1>4 DEF Judge
  <2>2. InstanceOK(i) /\ Earned(i) /\ Heeds(row, i) /\ SameVersion(i, row)
    BY <1>1, <1>3, <2>1, DecideOK, DecideEarned, OperationVersion
  <2> HIDE DEF i
  <2> QED
    BY <2>1, <2>2, HoldPromise
<1>5. ASSUME CompleteTask(s, t) PROVE PromiseOK' /\ row' = row
  <2> DEFINE i == Complete(row, t, present)
  <2>1. Node(row).type = "handler" /\ Hold(s, i)
    BY <1>5 DEF CompleteTask
  <2>2. InstanceOK(i) /\ Earned(i) /\ Heeds(row, i) /\ SameVersion(i, row)
    BY <1>1, <1>3, <2>1, CompleteOK, CompleteEarned, OperationVersion
  <2> HIDE DEF i
  <2> QED
    BY <2>1, <2>2, HoldPromise
<1>6. ASSUME AskAmendment(s, t) PROVE PromiseOK' /\ row' = row
  <2> DEFINE i == RequestAmendment(row)
  <2>1. Hold(s, i)
    BY <1>6 DEF AskAmendment
  <2>2. InstanceOK(i) /\ Earned(i) /\ Heeds(row, i) /\ SameVersion(i, row)
    BY <1>1, <1>3, AmendmentOK, AmendmentEarned, OperationVersion
  <2> HIDE DEF i
  <2> QED
    BY <2>1, <2>2, HoldPromise
<1>7. ASSUME NEW target \in Person, Transfer(s, t, target) PROVE PromiseOK' /\ row' = row
  <2> DEFINE i == Reassign(row, t, target, "transfer")
  <2>1. Hold(s, i) /\ target # Requester /\ \A x \in Current(row) : x.user # target
    BY <1>2, <1>7, TargetsType DEF Transfer
  <2>2. InstanceOK(i) /\ Earned(i) /\ Heeds(row, i) /\ SameVersion(i, row)
    BY <1>1, <1>3, <2>1, ReassignOK, ReassignEarned, OperationVersion
  <2> HIDE DEF i
  <2> QED
    BY <2>1, <2>2, HoldPromise
<1>8. ASSUME NEW target \in Person, AddSigner(s, t, target) PROVE PromiseOK' /\ row' = row
  <2> DEFINE i == Countersign(row, t, target)
  <2>1. Hold(s, i) /\ target # Requester /\ \A x \in Current(row) : x.user # target
    BY <1>2, <1>8, TargetsType DEF AddSigner
  <2>2. InstanceOK(i) /\ Earned(i) /\ Heeds(row, i) /\ SameVersion(i, row)
    BY <1>1, <1>3, <2>1, CountersignOK, CountersignEarned, OperationVersion
  <2> HIDE DEF i
  <2> QED
    BY <2>1, <2>2, HoldPromise
<1> QED
  BY <1>4, <1>5, <1>6, <1>7, <1>8

LEMMA RequesterPromise ==
  ASSUME ReviewOK, PromiseOK, NEW s \in Session,
         (\E value \in Answers : SubmitAgain(s, value)) \/ WithdrawIt(s) \/ Retry(s)
  PROVE  PromiseOK' /\ row' = row
<1>1. Published /\ InstanceOK(row) /\ Earned(row) /\ row \in Wide
  BY DEF ReviewOK, Held, PromiseOK, InstanceOK, Base
<1>2. ASSUME NEW value \in Answers, SubmitAgain(s, value) PROVE PromiseOK' /\ row' = row
  <2> DEFINE i == Resubmit(row, value, present)
  <2>1. value \in Value
    BY ReviewAssumption DEF Answers
  <2>2. Hold(s, i) /\ row.status \in Open
    BY <1>2 DEF SubmitAgain, Open
  <2>3. InstanceOK(i) /\ Earned(i) /\ Heeds(row, i) /\ SameVersion(i, row)
    BY <1>1, <2>1, <2>2, ResubmitOK, ResubmitEarned, RequesterVersion
  <2> HIDE DEF i
  <2> QED
    BY <2>2, <2>3, HoldPromise
<1>3. ASSUME WithdrawIt(s) PROVE PromiseOK' /\ row' = row
  <2> DEFINE i == Withdraw(row)
  <2>1. Hold(s, i) /\ row.status \in Open
    BY <1>3 DEF WithdrawIt
  <2>2. InstanceOK(i) /\ Earned(i) /\ Heeds(row, i) /\ SameVersion(i, row)
    BY <1>1, <2>1, WithdrawOK, WithdrawEarned, RequesterVersion
  <2> HIDE DEF i
  <2> QED
    BY <2>1, <2>2, HoldPromise
<1>4. ASSUME Retry(s) PROVE PromiseOK' /\ row' = row
  <2> DEFINE i == AdvanceReview(row, row.node, present)
  <2>1. Hold(s, i) /\ row.status = "blocked"
    BY <1>4 DEF Retry
  <2>2. InstanceOK(i) /\ Earned(i) /\ Heeds(row, i) /\ SameVersion(i, row)
    BY <1>1, <2>1, RetryOK, RetryEarned, RequesterVersion
  <2> HIDE DEF i
  <2> QED
    BY <2>1, <2>2, HoldPromise
<1> QED
  BY <1>2, <1>3, <1>4

(* Whoever commits has read the row as it is, and a timer works on it.     *)
LEMMA CommitPromise ==
  ASSUME ReviewOK, PromiseOK, NEW s \in Session, Commit(s)
  PROVE  PromiseOK' /\ Heeds(row, row')
<1>1. row.version \in Nat /\ sessions[s].version \in Nat
  BY DEF ReviewOK, TypeOK, Instance, Commit
<1>2. sessions[s].version = row.version + 1 /\ row' = sessions[s] /\ form' = form
  BY <1>1 DEF Commit
<1>3. Earned(row') /\ Heeds(row, row')
  BY <1>2 DEF PromiseOK, Commit
<1>4. \A r \in Session : sessions'[r] \in {Idle, sessions[r]}
  BY DEF Commit, ReviewOK, TypeOK
<1> QED
  BY <1>2, <1>3, <1>4, WritePromise

LEMMA TimeoutPromise ==
  ASSUME ReviewOK, PromiseOK, NEW t \in AllTasks, HandleTimeout(t)
  PROVE  PromiseOK' /\ Heeds(row, row')
<1> DEFINE i == Escalation(t)
           targets == Targets(row, Node(row).escalate, present)
           u == CHOOSE x \in targets : TRUE
<1>1. Published /\ InstanceOK(row) /\ Earned(row) /\ row \in Wide
  BY DEF ReviewOK, Held, PromiseOK, InstanceOK, Base
<1>2. row.status = "reviewing" /\ t \in Current(row) /\ t.status = "pending"
  <2>1. row.status = "reviewing" /\ t.status = "pending" /\ t \in ToSet(row.tasks)
    BY DEF HandleTimeout, Outdated, AllTasks
  <2>2. Here(row, t)
    BY <1>1, <2>1 DEF InstanceOK, OpenOK, Asked
  <2> QED
    BY <2>1, <2>2 DEF Current
<1>3. i \in Wide /\ Earned(i) /\ Heeds(row, i) /\ SameVersion(i, row)
  <2>1. CASE i = row
    BY <1>1, <2>1 DEF Heeds, SameVersion, Wide
  <2>2. CASE i # row
    <3>1. i = Reassign(row, t, u, "timeout") /\ Cardinality(targets) = 1
      BY <2>2 DEF Escalation
    <3>2. u \in targets
      <4>1. targets # {}
        BY <3>1, FS_EmptySet
      <4> QED
        BY <4>1, Zenon
    <3>3. Node(row).escalate \in Rule
      BY <1>1, NodeType DEF InstanceOK, Base, Node
    <3> HIDE DEF u
    <3>4. u \in Person /\ u # Requester /\ \A x \in Current(row) : x.user # u
      BY <3>2, <3>3, TargetsType
    <3>5. InstanceOK(i) /\ Earned(i) /\ Heeds(row, i)
      BY <1>1, <1>2, <3>1, <3>4, ReassignOK, ReassignEarned
    <3>6. SameVersion(i, row)
      BY <1>1, <1>2, <3>1, OperationVersion
    <3> QED
      BY <3>5, <3>6 DEF InstanceOK, Base
  <2> QED
    BY <2>1, <2>2
<1>4. row' = [i EXCEPT !.version = @ + 1] /\ form' = form /\ sessions' = sessions
  BY DEF HandleTimeout
<1> HIDE DEF i
<1>5. Earned(row') /\ row'.version = i.version + 1 /\ Heeds(row, row')
  BY <1>3, <1>4, NextVersion
<1>6. row'.version = row.version + 1
  BY <1>3, <1>5 DEF SameVersion
<1> QED
  BY <1>4, <1>5, <1>6, WritePromise

LEMMA PromiseStep ==
  ASSUME ReviewOK, PromiseOK, [Next]_vars
  PROVE  PromiseOK' /\ (row' = row \/ Heeds(row, row'))
<1>1. ASSUME NEW s \in Session, NEW t \in Current(row),
             \/ \E vote \in {"approved", "rejected"} : Judge(s, t, vote)
             \/ CompleteTask(s, t) \/ AskAmendment(s, t)
             \/ \E target \in Person : Transfer(s, t, target) \/ AddSigner(s, t, target)
      PROVE  PromiseOK' /\ row' = row
  BY <1>1, RequestPromise
<1>2. ASSUME NEW s \in Session,
             (\E value \in Answers : SubmitAgain(s, value)) \/ WithdrawIt(s) \/ Retry(s)
      PROVE  PromiseOK' /\ row' = row
  BY <1>2, RequesterPromise
<1>3. ASSUME NEW s \in Session, Commit(s) PROVE PromiseOK' /\ Heeds(row, row')
  BY <1>3, CommitPromise
<1>4. ASSUME NEW s \in Session, GiveUp(s) PROVE PromiseOK' /\ row' = row
  <2>1. \A r \in Session : sessions'[r] \in {Idle, sessions[r]}
    BY <1>4 DEF GiveUp, ReviewOK, TypeOK
  <2> QED
    BY <1>4, <2>1, KeepPromise DEF GiveUp
<1>5. ASSUME NEW t \in AllTasks, HandleTimeout(t) PROVE PromiseOK' /\ Heeds(row, row')
  BY <1>5, TimeoutPromise
<1>6. ASSUME \/ \E t \in AllTasks : SkipTimeout(t) \/ FailTimeout(t) \/ PassDeadline(t)
             \/ \E u \in Mobile : Move(u)
             \/ UNCHANGED vars
      PROVE  PromiseOK' /\ row' = row
  <2>1. form' = form /\ row' = row /\ sessions' = sessions
    BY <1>6 DEF SkipTimeout, FailTimeout, PassDeadline, Move, vars
  <2> QED
    BY <2>1, KeepPromise
<1> QED
  BY <1>1, <1>2, <1>3, <1>4, <1>5, <1>6 DEF Next, RunTimer

LEMMA PromiseInvariant == Spec => []PromiseOK
<1>1. Init => PromiseOK
  BY InitPromise
<1>2. ReviewOK /\ PromiseOK /\ [Next]_vars => PromiseOK'
  BY PromiseStep
<1> QED
  BY <1>1, <1>2, ReviewInvariant, PTL DEF Spec

(* An approved instance has passed every review and handler of its route,  *)
(* each by its node's rule, in the round that was approved: neither the    *)
(* order of requests, nor transfers, countersignatures or escalations, nor *)
(* amendments and retries let it past one (review-operations.ts).          *)
THEOREM ApprovalIsEarnedAlways == Spec => []ApprovalIsEarned
<1>1. PromiseOK => ApprovalIsEarned
  <2> SUFFICES ASSUME PromiseOK, row.status = "approved",
                      NEW k \in Route(row.value), Judged(k)
               PROVE  Agreed(row, k)
    BY DEF ApprovalIsEarned
  <2>1. PICK way : Trail(row, row.node, way)
    BY DEF PromiseOK, Earned
  <2>2. form[row.node].type = "end"
    BY DEF PromiseOK, Earned, Node
  <2>3. way \in SUBSET DOMAIN form /\ Follows(way, row.value)
    BY <2>1, <2>2 DEF Trail, Follows
  <2>4. k \in way
    BY <2>3 DEF Route
  <2>5. k # row.node
    BY <2>2 DEF Judged
  <2> QED
    BY <2>1, <2>4, <2>5 DEF Trail
<1> QED
  BY <1>1, PromiseInvariant, PTL

(* The engine implements what Review promises: whoever commits writes what *)
(* was computed from the row as it is (review-postgres-service.ts), so no  *)
(* decision is lost or taken back, and the review ends once, on a ballot   *)
(* of its last round.                                                      *)
THEOREM ReviewPromiseKept == Spec => KeepsReviewPromise
<1>1. Init => Promise!Init
  BY InitPromise
<1>2. ASSUME Heeds(row, row') PROVE [Promise!Next]_(Promise!vars)
  <2>1. CASE /\ Outcome(row') = Outcome(row) /\ Ballots(row') = Ballots(row)
             /\ row'.round = row.round
    BY <2>1 DEF Promise!vars
  <2>2. CASE Outcome(row) = "open" /\ Casts(row, row')
    <3>1. PICK step \in Nodes, user \in Person \ {Requester}, vote \in {"approved", "rejected"} :
            /\ ~\E b \in Ballots(row) : b.round = row.round /\ b.step = step /\ b.user = user
            /\ Ballots(row') = Ballots(row) \cup
                 {[round |-> row.round, step |-> step, user |-> user, vote |-> vote]}
            /\ Outcome(row') \in {"open", vote}
      BY <2>2 DEF Casts
    <3>2. Promise!Cast(step, user, vote)
      BY <2>2, <3>1 DEF Promise!Cast, Casts
    <3> QED
      BY <3>2 DEF Promise!Next, Promise!Vote
  <2>3. CASE /\ Outcome(row) = "open" /\ Ballots(row') = Ballots(row) /\ row'.round = row.round
             /\ Outcome(row') = "approved" /\ Backed(row)
    BY <2>3 DEF Promise!Next, Promise!Conclude, Backed
  <2>4. CASE /\ Outcome(row) = "open" /\ Ballots(row') = Ballots(row)
             /\ Outcome(row') = "open" /\ row'.round = row.round + 1
    BY <2>4 DEF Promise!Next, Promise!Resubmit
  <2>5. CASE /\ Outcome(row) = "open" /\ Ballots(row') = Ballots(row)
             /\ Outcome(row') = "withdrawn" /\ row'.round = row.round
    BY <2>5 DEF Promise!Next, Promise!Withdraw
  <2> QED
    BY <1>2, <2>1, <2>2, <2>3, <2>4, <2>5 DEF Heeds
<1>3. ASSUME row' = row PROVE UNCHANGED Promise!vars
  BY <1>3 DEF Promise!vars, Outcome, Ballots
<1>4. ReviewOK /\ PromiseOK /\ [Next]_vars => [Promise!Next]_(Promise!vars)
  BY <1>2, <1>3, PromiseStep
<1> QED
  BY <1>1, <1>4, ReviewInvariant, PromiseInvariant, PTL
     DEF Spec, KeepsReviewPromise, Promise!Spec
=============================================================================
