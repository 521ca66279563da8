------------------------------- MODULE Outbox -------------------------------
(***************************************************************************)
(* The durable outbox (table execution_outbox), the publisher processes    *)
(* that drain it (queue/outbox-publisher.ts) and the BullMQ queue they     *)
(* hand messages to.  A row is identified by its idempotency key; BullMQ   *)
(* is external and is modelled from the options the publisher passes.      *)
(*                                                                         *)
(* Time is abstracted.  A row is "ready" when its available_at has passed. *)
(* A publisher lease may run out whenever the publisher has not settled    *)
(* the row, so a row in state publishing is always eligible for a claim.   *)
(* The back-off of a failed publish only delays it: the row states pending *)
(* and retrying satisfy the same claim guard and are one state here, "a    *)
(* row that is neither claimed nor published".                             *)
(***************************************************************************)
EXTENDS Integers, FiniteSets

CONSTANTS Job,         \* execution job ids
          Publisher,   \* outbox publisher processes
          MaxFaults    \* bound on the faults: crashes, I/O errors, aged-out ids

ASSUME OutboxAssumption == MaxFaults \in Nat

VARIABLES
  rows,        \* keys of the rows inserted so far
  ready,       \* keys of the rows whose available_at has passed
  claimedBy,   \* <<key, p>>: the row is publishing with publisher_id = p
  published,   \* keys of the rows marked published
  inHand,      \* <<p, key, step>>: rows in the memory of a drainOnce call
  waiting,     \* message ids BullMQ will still deliver
  active,      \* message ids delivered and not yet completed
  seen,        \* message ids BullMQ retains, for which add is a no-op
  faults       \* number of faults injected so far

outboxVars == <<rows, ready, claimedBy, published>>
brokerVars == <<waiting, active, seen>>
deliveryVars == <<outboxVars, brokerVars, inHand, faults>>

(* The four idempotency keys the store builds: ...:queued,                 *)
(* ...:retry:<n>, ...:lease-recovery:<n> and ...:manual-retry:<n>.         *)
RowKind == {"queued", "retry", "lease-recovery", "manual-retry"}
Key == [job : Job, kind : RowKind, attempt : Nat]
DispatchKey(j, kind, n) == [job |-> j, kind |-> kind, attempt |-> n]

Claimed == {c[1] : c \in claimedBy}
Steps == {"claimed", "added"}

OutboxTypeOK ==
  /\ rows \subseteq Key
  /\ ready \subseteq rows
  /\ claimedBy \subseteq rows \X Publisher
  /\ published \subseteq rows
  /\ inHand \subseteq Publisher \X rows \X Steps
  /\ waiting \subseteq rows
  /\ active \subseteq rows
  /\ seen \subseteq rows
  /\ faults \in 0..MaxFaults

OutboxInit ==
  /\ rows = {} /\ ready = {} /\ claimedBy = {} /\ published = {}
  /\ inHand = {}
  /\ waiting = {} /\ active = {} /\ seen = {}
  /\ faults = 0

(* A fault happens; MaxFaults bounds how many a behaviour has.             *)
Fault == /\ faults < MaxFaults
         /\ faults' = faults + 1

-----------------------------------------------------------------------------
(* INSERT ... ON CONFLICT (idempotency_key) DO NOTHING, for a set of keys. *)
(* "soon" says available_at <= now.                                        *)
InsertRows(keys, soon) ==
  /\ rows' = rows \cup keys
  /\ ready' = IF soon THEN ready \cup (keys \ rows) ELSE ready
  /\ UNCHANGED <<claimedBy, published>>

InsertRow(key, soon) == InsertRows({key}, soon)

(* available_at of every row of the job has passed.                        *)
RowsBecomeReady(j) ==
  /\ ready' = ready \cup {k \in rows : k.job = j}
  /\ UNCHANGED <<rows, claimedBy, published>>

(* claimOutboxRows: a due row that is pending (or retrying), or that is    *)
(* publishing under a lease that ran out, becomes publishing for p.  A     *)
(* batch is a run of single claims, and drainOnce claims the next batch    *)
(* only after it has settled every row of the last one.                    *)
ClaimOutboxRow(p, k) ==
  /\ k \in ready \ published
  /\ ~ \E s \in Steps : <<p, k, s>> \in inHand
  /\ ~ \E r \in rows : <<p, r, "added">> \in inHand
  /\ claimedBy' = {c \in claimedBy : c[1] # k} \cup {<<k, p>>}
  /\ inHand' = inHand \cup {<<p, k, "claimed">>}
  /\ UNCHANGED <<rows, ready, published, brokerVars, faults>>

(* queue.add with the stable job id: BullMQ ignores an id it retains.      *)
QueueAdd(p, k) ==
  /\ <<p, k, "claimed">> \in inHand
  /\ inHand' = (inHand \ {<<p, k, "claimed">>}) \cup {<<p, k, "added">>}
  /\ waiting' = IF k \in seen THEN waiting ELSE waiting \cup {k}
  /\ seen' = seen \cup {k}
  /\ UNCHANGED <<outboxVars, active, faults>>

(* After a successful add: published, if the row is still this             *)
(* publisher's; otherwise the UPDATE matches no row.                       *)
MarkPublished(p, k) ==
  /\ <<p, k, "added">> \in inHand
  /\ inHand' = inHand \ {<<p, k, "added">>}
  /\ IF <<k, p>> \in claimedBy
     THEN /\ published' = published \cup {k}
          /\ claimedBy' = claimedBy \ {<<k, p>>}
     ELSE UNCHANGED <<published, claimedBy>>
  /\ UNCHANGED <<rows, ready, brokerVars, faults>>

(* Mutation: a row whose publishing failed is marked published all the     *)
(* same.                                                                   *)
PublishFailsSilently(p, k) ==
  /\ Fault
  /\ \E s \in Steps : <<p, k, s>> \in inHand
  /\ inHand' = {h \in inHand : h[1] # p \/ h[2] # k}
  /\ published' = published \cup {k}
  /\ claimedBy' = claimedBy \ {<<k, p>>}
  /\ UNCHANGED <<rows, ready, brokerVars>>

(* The catch branch: queue.add failed, with or without the message having  *)
(* reached Redis, or the UPDATE above failed.  The row goes back to        *)
(* retrying if it is still this publisher's.                               *)
PublishFails(p, k) ==
  /\ Fault
  /\ \E s \in Steps, reached \in BOOLEAN :
       /\ <<p, k, s>> \in inHand
       /\ inHand' = inHand \ {<<p, k, s>>}
       /\ IF s = "claimed" /\ reached /\ k \notin seen
          THEN /\ waiting' = waiting \cup {k}
               /\ seen' = seen \cup {k}
          ELSE UNCHANGED <<waiting, seen>>
  /\ claimedBy' = claimedBy \ {<<k, p>>}
  /\ UNCHANGED <<rows, ready, published, active>>

(* The publisher process dies between two statements: what it had in       *)
(* memory is gone, its rows stay publishing until their lease runs out.    *)
PublisherCrash(p) ==
  /\ Fault
  /\ \E k \in rows, s \in Steps : <<p, k, s>> \in inHand
  /\ inHand' = {h \in inHand : h[1] # p}
  /\ UNCHANGED <<outboxVars, brokerVars>>

PublisherStep(p) ==
  \E k \in rows : \/ ClaimOutboxRow(p, k)
                  \/ QueueAdd(p, k)
                  \/ MarkPublished(p, k)

-----------------------------------------------------------------------------
(* BullMQ.  A message is delivered and removed from the wait list; it is   *)
(* completed at once when its claim returned nothing.                      *)
Consume(k) ==
  /\ k \in waiting
  /\ waiting' = waiting \ {k}
  /\ UNCHANGED <<active, seen>>

Activate(k) ==
  /\ k \in waiting
  /\ waiting' = waiting \ {k}
  /\ active' = active \cup {k}
  /\ UNCHANGED seen

Settle(k) ==
  /\ active' = active \ {k}
  /\ UNCHANGED <<waiting, seen>>

(* A consumer stopped renewing the message lock (it crashed, or its event  *)
(* loop was blocked): BullMQ delivers the message once more, or gives it   *)
(* up when it has stalled too often.                                       *)
Stall(k) ==
  /\ k \in active
  /\ active' = active \ {k}
  /\ waiting' \in {waiting, waiting \cup {k}}
  /\ UNCHANGED <<seen, outboxVars, inHand, faults>>

(* removeOnComplete / removeOnFail drop finished ids by age or count; it   *)
(* takes a day, so it counts as a fault.                                   *)
Forget(k) ==
  /\ Fault
  /\ k \in seen \ (waiting \cup active)
  /\ seen' = seen \ {k}
  /\ UNCHANGED <<waiting, active, outboxVars, inHand>>
=============================================================================
