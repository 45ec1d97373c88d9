---------------------------- MODULE OutboxRelay -----------------------------
(***************************************************************************)
(* The transactional-outbox relay: relayOutbox and startOutboxRelay        *)
(* (events/outbox.ts) over the PostgreSQL store (events/pgOutboxStore.ts), *)
(* publishing through the payment publisher (payment-consistency/relay.ts, *)
(* record.ts).                                                             *)
(*                                                                         *)
(* A relay claims due rows by pushing their available_at past a lease,     *)
(* publishes them one by one outside any transaction, records each failure *)
(* at once and all the successes together when the batch is through.       *)
(* Several relays drain one table: the replicas of a service, and          *)
(* drainOnce beside the interval tick of one process.                      *)
(*                                                                         *)
(* Time is abstract: a row is due or it is not, and a lease or a backoff   *)
(* may run out at any moment - in particular while its relay is still      *)
(* publishing, since nothing bounds a publish or renews a lease.           *)
(***************************************************************************)
EXTENDS Naturals, FiniteSets

CONSTANTS
  Relays,       \* relay loops draining the table
  Rows,         \* outbox rows
  Kind,         \* Kind[row]: what the publisher makes of the row
  Batch,        \* opts.batch: rows claimed per tick
  MaxAttempts,  \* opts.maxAttempts: failed publishes before FAILED
  MaxAborts,    \* bound: crashes and failed store calls in one behaviour
  NoRow

(* "record": a payment state change with its attribution, published.       *)
(* "conflict": PAYMENT_CONFLICT, acked without publishing.                 *)
(* "unattributed": no siteId or no rail, the publisher throws every time.  *)
(* "garbled": the payload does not parse.                                  *)
Kinds == {"record", "conflict", "unattributed", "garbled"}

ASSUME KindAssumption   == Kind \in [Rows -> Kinds]
ASSUME BoundsAssumption == /\ Batch \in Nat \ {0}
                           /\ MaxAttempts \in Nat \ {0}
                           /\ MaxAborts \in Nat
ASSUME NoRowAssumption  == NoRow \notin Rows
ASSUME RelaysAssumption == IsFiniteSet(Relays) /\ Relays # {}

VARIABLES
  status,     \* status[row]: pending, sent, failed, or not enqueued yet
  attempts,   \* attempts[row]: recorded publish failures
  due,        \* due[row]: available_at <= now
  published,  \* rows the bus has accepted at least once
  pc,         \* pc[r]: what relay r does next
  batch,      \* batch[r]: claimed rows r has not published yet
  seen,       \* seen[r][row]: attempts as r's claim returned them
  failing,    \* failing[r]: the row whose publish just failed, or NoRow
  sentIds,    \* sentIds[r]: rows r published and has not marked yet
  aborts      \* aborted ticks so far

table == <<status, attempts, due>>
vars  == <<status, attempts, due, published, pc, batch, seen, failing,
           sentIds, aborts>>

Statuses == {"absent", "pending", "sent", "failed"}
PCs      == {"idle", "publish", "recordFailure", "markSent"}

-----------------------------------------------------------------------------
Init ==
  /\ status    = [row \in Rows |-> "absent"]
  /\ attempts  = [row \in Rows |-> 0]
  /\ due       = [row \in Rows |-> FALSE]
  /\ published = {}
  /\ pc        = [r \in Relays |-> "idle"]
  /\ batch     = [r \in Relays |-> {}]
  /\ seen      = [r \in Relays |-> [row \in Rows |-> 0]]
  /\ failing   = [r \in Relays |-> NoRow]
  /\ sentIds   = [r \in Relays |-> {}]
  /\ aborts    = 0

(* A producer's transaction commits the row, due at once.                  *)
Enqueue(row) ==
  /\ status[row] = "absent"
  /\ status' = [status EXCEPT ![row] = "pending"]
  /\ due'    = [due EXCEPT ![row] = TRUE]
  /\ UNCHANGED <<attempts, published, pc, batch, seen, failing, sentIds, aborts>>

(* The loop over the claimed rows goes on, or the batch is through.        *)
AfterRow(r, left, sent) ==
  IF left # {} THEN "publish" ELSE IF sent # {} THEN "markSent" ELSE "idle"

(* Mutant: the claim also filters on the retry budget, off by one.         *)
ClaimableWithinBudget(row) ==
  status[row] = "pending" /\ due[row] /\ attempts[row] + 1 < MaxAttempts

Claimable(row) == status[row] = "pending" /\ due[row]

(* claimBatch: SKIP LOCKED and the limit make any set of due rows a        *)
(* possible result; the claimed rows are leased in the same statement.     *)
Claim(r, rows) ==
  /\ pc[r] = "idle"
  /\ rows # {}
  /\ Cardinality(rows) <= Batch
  /\ \A row \in rows : Claimable(row)
  /\ due'   = [row \in Rows |-> due[row] /\ row \notin rows]
  /\ pc'    = [pc EXCEPT ![r] = "publish"]
  /\ batch' = [batch EXCEPT ![r] = rows]
  /\ seen'  = [seen EXCEPT ![r] =
                 [row \in Rows |-> IF row \in rows THEN attempts[row] ELSE 0]]
  /\ UNCHANGED <<status, attempts, published, failing, sentIds, aborts>>

(* Mutant: the publisher swallows a bus failure, as createRedisPublisher   *)
(* does without rethrow.                                                   *)
PublishSwallowing(r, row) ==
  /\ pc[r] = "publish"
  /\ row \in batch[r]
  /\ Kind[row] \in {"record", "conflict"}
  /\ published' \in {published, published \cup {row}}
  /\ batch'   = [batch EXCEPT ![r] = @ \ {row}]
  /\ sentIds' = [sentIds EXCEPT ![r] = @ \cup {row}]
  /\ pc'      = [pc EXCEPT ![r] = AfterRow(r, batch'[r], sentIds'[r])]
  /\ UNCHANGED <<table, seen, failing, aborts>>

(* publisher.publish resolves: the bus took the record, or the envelope is *)
(* a conflict alert and is acked without publishing.                       *)
Publish(r, row) ==
  /\ pc[r] = "publish"
  /\ row \in batch[r]
  /\ \/ Kind[row] = "record"   /\ published' = published \cup {row}
     \/ Kind[row] = "conflict" /\ UNCHANGED published
  /\ batch'   = [batch EXCEPT ![r] = @ \ {row}]
  /\ sentIds' = [sentIds EXCEPT ![r] = @ \cup {row}]
  /\ pc'      = [pc EXCEPT ![r] = AfterRow(r, batch'[r], sentIds'[r])]
  /\ UNCHANGED <<table, seen, failing, aborts>>

(* Mutant: sentIds.push before the publish is awaited.                     *)
PublishFailsAfterPush(r, row) ==
  /\ pc[r] = "publish"
  /\ row \in batch[r]
  /\ \/ Kind[row] = "record" /\ published' \in {published, published \cup {row}}
     \/ Kind[row] \in {"unattributed", "garbled"} /\ UNCHANGED published
  /\ pc'      = [pc EXCEPT ![r] = "recordFailure"]
  /\ failing' = [failing EXCEPT ![r] = row]
  /\ sentIds' = [sentIds EXCEPT ![r] = @ \cup {row}]
  /\ UNCHANGED <<table, batch, seen, aborts>>

(* publisher.publish rejects, or JSON.parse throws.  A bus that rejects a  *)
(* record may still have taken it (its ack was lost).                      *)
PublishFails(r, row) ==
  /\ pc[r] = "publish"
  /\ row \in batch[r]
  /\ \/ Kind[row] = "record" /\ published' \in {published, published \cup {row}}
     \/ Kind[row] \in {"unattributed", "garbled"} /\ UNCHANGED published
  /\ pc'      = [pc EXCEPT ![r] = "recordFailure"]
  /\ failing' = [failing EXCEPT ![r] = row]
  /\ UNCHANGED <<table, batch, seen, sentIds, aborts>>

(* Mutant: the retry budget is compared with > instead of >=.              *)
ExhaustedLate(r, row) ==
  Kind[row] = "garbled" \/ seen[r][row] + 1 > MaxAttempts

(* Mutant: the row is given up one failure too early.                      *)
ExhaustedEarly(r, row) ==
  Kind[row] = "garbled" \/ seen[r][row] + 2 >= MaxAttempts

(* Whether this failure is the row's last one: counted from the attempts   *)
(* the claim returned, not from those in the table now.                    *)
Exhausted(r, row) ==
  Kind[row] = "garbled" \/ seen[r][row] + 1 >= MaxAttempts

(* recordFailure: one more attempt; FAILED or deferred by the backoff.     *)
RecordFailure(r) ==
  /\ pc[r] = "recordFailure"
  /\ LET row == failing[r] IN
       /\ attempts' = [attempts EXCEPT ![row] = @ + 1]
       /\ status'   = [status EXCEPT ![row] = IF Exhausted(r, row) THEN "failed" ELSE @]
       /\ due'      = [due EXCEPT ![row] = Exhausted(r, row)]
       /\ batch'    = [batch EXCEPT ![r] = @ \ {row}]
  /\ failing' = [failing EXCEPT ![r] = NoRow]
  /\ pc'      = [pc EXCEPT ![r] = AfterRow(r, batch'[r], sentIds[r])]
  /\ UNCHANGED <<published, seen, sentIds, aborts>>

(* markSent, once per batch and whatever the status is by now.             *)
MarkSent(r) ==
  /\ pc[r] = "markSent"
  /\ status'  = [row \in Rows |-> IF row \in sentIds[r] THEN "sent" ELSE status[row]]
  /\ sentIds' = [sentIds EXCEPT ![r] = {}]
  /\ pc'      = [pc EXCEPT ![r] = "idle"]
  /\ UNCHANGED <<attempts, due, published, batch, seen, failing, aborts>>

(* The tick dies: the process crashes, or a store call throws and the tick *)
(* logs it and gives up.  What it had published stays unmarked.            *)
Abort(r) ==
  /\ pc[r] # "idle"
  /\ aborts < MaxAborts
  /\ aborts'  = aborts + 1
  /\ pc'      = [pc EXCEPT ![r] = "idle"]
  /\ batch'   = [batch EXCEPT ![r] = {}]
  /\ failing' = [failing EXCEPT ![r] = NoRow]
  /\ sentIds' = [sentIds EXCEPT ![r] = {}]
  /\ UNCHANGED <<table, published, seen>>

(* Time passes: a lease or a backoff runs out.                             *)
Elapse(row) ==
  /\ status[row] = "pending"
  /\ ~due[row]
  /\ due' = [due EXCEPT ![row] = TRUE]
  /\ UNCHANGED <<status, attempts, published, pc, batch, seen, failing,
                 sentIds, aborts>>

Tick(r) ==
  \/ \E rows \in SUBSET Rows : Claim(r, rows)
  \/ \E row \in Rows : Publish(r, row) \/ PublishFails(r, row)
  \/ RecordFailure(r)
  \/ MarkSent(r)

Next ==
  \/ \E r \in Relays : Tick(r) \/ Abort(r)
  \/ \E row \in Rows : Enqueue(row) \/ Elapse(row)

Spec == Init /\ [][Next]_vars

(* The interval keeps firing and an async step completes; clocks advance.  *)
(* A publish resolves or rejects; that the bus ever takes a record is not  *)
(* assumed.                                                                *)
Fairness ==
  /\ \A r \in Relays : WF_vars(Tick(r))
  /\ \A row \in Rows : WF_vars(Elapse(row))

FairSpec == Spec /\ Fairness

-----------------------------------------------------------------------------
(* Properties                                                              *)

(* Every variable keeps its shape; a relay only holds rows while it works  *)
(* on them, and the row whose publish failed is still in its batch.        *)
TypeOK ==
  /\ status    \in [Rows -> Statuses]
  /\ attempts  \in [Rows -> Nat]
  /\ due       \in [Rows -> BOOLEAN]
  /\ published \in SUBSET Rows
  /\ pc        \in [Relays -> PCs]
  /\ batch     \in [Relays -> SUBSET Rows]
  /\ seen      \in [Relays -> [Rows -> Nat]]
  /\ failing   \in [Relays -> Rows \cup {NoRow}]
  /\ sentIds   \in [Relays -> SUBSET Rows]
  /\ aborts    \in 0 .. MaxAborts
  /\ \A r \in Relays :
       /\ pc[r] = "idle" => batch[r] = {} /\ sentIds[r] = {}
       /\ IF pc[r] = "recordFailure" THEN failing[r] \in batch[r]
                                     ELSE failing[r] = NoRow

(* No silent loss: a row is only marked SENT once the bus has accepted it, *)
(* or once it turned out to be a conflict alert.  A crash, a failed store  *)
(* call or a second relay between the publish and the mark costs at most a *)
(* repeated delivery.                                                      *)
SentWasHandled ==
  \A row \in Rows :
    status[row] = "sent" => row \in published \/ Kind[row] = "conflict"

(* A row is only given up after MaxAttempts recorded failures, although    *)
(* each relay counts from the attempts its own claim returned.             *)
DeadOnlyWhenExhausted ==
  \A row \in Rows :
    status[row] = "failed" =>
      Kind[row] = "garbled" \/ attempts[row] >= MaxAttempts

(* And the retries are bounded: when leases lapse, the other relays can    *)
(* each waste one attempt on a stale count and one more on the dead row.   *)
AttemptsBounded ==
  \A row \in Rows :
    attempts[row] <= MaxAttempts + 2 * (Cardinality(Relays) - 1)

(* What a dead relay held is never stranded: whatever was published or     *)
(* claimed when a tick died, every row is sent or given up in the end.     *)
EveryRowSettles ==
  \A row \in Rows : status[row] = "pending" ~> status[row] # "pending"

(* With a single relay a settled row stays as it is: a failure recorded    *)
(* late does not revive or bury it, a mark does not resurrect it.  (Two    *)
(* relays whose leases lapsed can do both.)                                *)
SettledIsFinal ==
  [][\A row \in Rows :
       status[row] \in {"sent", "failed"} => status'[row] = status[row]]_vars

-----------------------------------------------------------------------------
(* The inductive invariant behind the safety properties.                   *)

(* What r carries from one await to the next: its counts are never ahead   *)
(* of the table, and what it will mark was handled.                        *)
Carried(r) ==
  /\ pc[r] = "markSent" => batch[r] = {}
  /\ \A row \in batch[r]   : seen[r][row] <= attempts[row]
  /\ \A row \in sentIds[r] : row \in published \/ Kind[row] = "conflict"

RelayInv ==
  /\ TypeOK
  /\ \A r \in Relays : Carried(r)
  /\ SentWasHandled
  /\ DeadOnlyWhenExhausted

(* Why the retries are bounded.  Each relay that holds a row may add one   *)
(* more attempt to it; one that claimed it before its last attempt does so *)
(* without giving the row up.                                              *)
Holders(row) == {r \in Relays : row \in batch[r]}
Stale(row)   == {r \in Holders(row) : seen[r][row] + 1 < MaxAttempts}

RetryBudget ==
  \A row \in Rows :
    /\ status[row] = "absent" => attempts[row] = 0 /\ Holders(row) = {}
    /\ status[row] = "pending" =>
         attempts[row] + Cardinality(Stale(row)) + 2
           <= MaxAttempts + Cardinality(Relays)
    /\ attempts[row] + Cardinality(Holders(row)) + 2
         <= MaxAttempts + 2 * Cardinality(Relays)
=============================================================================
