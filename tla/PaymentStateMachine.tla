------------------------ MODULE PaymentStateMachine -------------------------
(***************************************************************************)
(* PaymentStateMachine.apply (stateMachine.ts) over its PostgreSQL stores  *)
(* (pgStore.ts).  Several callers - webhook handlers, saga bridges, the    *)
(* reconciliation sweep, in several replicas - each run apply as one READ  *)
(* COMMITTED transaction:                                                  *)
(*                                                                         *)
(*   claim the dedupe key -> lock the payment row -> decide ->             *)
(*   advance the row -> enqueue the effect -> COMMIT                       *)
(*                                                                         *)
(* A statement is an action; what a transaction wrote stays private to its *)
(* worker until Commit publishes it, and Rollback (a failed statement, a   *)
(* lost connection, a crash) drops it.  Any event may be delivered at any  *)
(* time, any number of times, to any idle worker: adapters redeliver and   *)
(* reorder freely.                                                         *)
(***************************************************************************)
EXTENDS PaymentLifecycle, Sequences, FiniteSets

CONSTANTS
  Workers,       \* concurrent callers of apply
  Payments,      \* payment ids
  Transactions,  \* gateway transaction ids
  Attributions,  \* values of an attribution column: attr stands for any one
                 \* of siteId, tenantId and rail, each kept on its own
  NoAttr,        \* the event does not carry that column
  Events,        \* the events adapters may deliver
  NoEvent

EventSpace ==
  [paymentId : Payments, type : PAYMENT_EVENT_TYPES,
   transactionId : Transactions, attr : Attributions \cup {NoAttr}]

ASSUME NoAttrAssumption  == NoAttr \notin Attributions
ASSUME EventsAssumption  == Events \subseteq EventSpace
ASSUME NoEventAssumption == NoEvent \notin Events

VARIABLES
  payment,   \* payment[p]: the committed payment_state row, or NoRow
  inbox,     \* the committed dedupe keys of payment_inbox
  outbox,    \* outbox[p]: the committed payment_outbox rows, in commit order
  pc,        \* pc[w]: the next statement of w's transaction
  event,     \* event[w]: the event w is applying, or NoEvent
  record,    \* record[w]: the row ensureAndLock returned to w
  staged,    \* staged[w]: the row w's transaction will commit
  enqueued   \* enqueued[w]: the outbox rows w's transaction will commit

database == <<payment, inbox, outbox>>
local    == <<event, record, staged, enqueued>>
vars     == <<payment, inbox, outbox, pc, event, record, staged, enqueued>>

-----------------------------------------------------------------------------
(* Keys, rows and envelopes                                                *)

DedupeKey(e) == [paymentId |-> e.paymentId, type |-> e.type,
                 transactionId |-> e.transactionId]

Keys == [paymentId : Payments, type : PAYMENT_EVENT_TYPES,
         transactionId : Transactions]

Rows == [state : PAYMENT_STATES, version : Nat \ {0},
         attr : Attributions \cup {NoAttr}]

(* Row 0 does not exist yet: versions of real rows start at 1.             *)
NoRow == [state |-> "INITIATED", version |-> 0, attr |-> NoAttr]

Exists(p) == payment[p] # NoRow

(* What ensureAndLock reads: the committed row, or the one it just seeded. *)
SeedRow(e) == [state |-> "INITIATED", version |-> 1, attr |-> e.attr]

LockedRow(e) == IF Exists(e.paymentId) THEN payment[e.paymentId] ELSE SeedRow(e)

Coalesce(a, b) == IF a = NoAttr THEN b ELSE a

AdvancedRow(row, e) ==
  [state   |-> TargetStateOf(e.type),
   version |-> row.version + 1,
   attr    |-> Coalesce(row.attr, e.attr)]

Envelope(effect, e, from, to) ==
  [type |-> effect, fromState |-> from, toState |-> to,
   attr |-> e.attr, source |-> DedupeKey(e)]

Envelopes == [type : PAYMENT_EFFECTS, fromState : PAYMENT_STATES,
              toState : PAYMENT_STATES, attr : Attributions \cup {NoAttr},
              source : Keys]

-----------------------------------------------------------------------------
(* Locks.  PostgreSQL makes the second inserter of a key, and the second   *)
(* locker of a row, wait until the first one's transaction ends.           *)

PCs == {"idle", "claim", "ensureAndLock", "decide", "emit", "commit"}

Claimed(w) == pc[w] \in {"ensureAndLock", "decide", "emit", "commit"}
Locking(w) == pc[w] \in {"decide", "emit", "commit"}

(* Mutant: the inbox is read without the wait its unique index imposes.    *)
KeyIsNeverAwaited(w) == TRUE

KeyIsFree(w) ==
  \A v \in Workers \ {w} :
    Claimed(v) => DedupeKey(event[v]) # DedupeKey(event[w])

(* Mutant: SELECT without FOR UPDATE.                                      *)
RowIsNeverAwaited(w) == TRUE

(* Mutant: the claim already holds the payment in share mode, and the      *)
(* upgrade waits for every other claimant of the payment.                  *)
RowIsUpgraded(w) ==
  \A v \in Workers \ {w} :
    Claimed(v) => event[v].paymentId # event[w].paymentId

RowIsFree(w) ==
  \A v \in Workers \ {w} :
    Locking(v) => event[v].paymentId # event[w].paymentId

-----------------------------------------------------------------------------
Init ==
  /\ payment  = [p \in Payments |-> NoRow]
  /\ inbox    = {}
  /\ outbox   = [p \in Payments |-> <<>>]
  /\ pc       = [w \in Workers |-> "idle"]
  /\ event    = [w \in Workers |-> NoEvent]
  /\ record   = [w \in Workers |-> NoRow]
  /\ staged   = [w \in Workers |-> NoRow]
  /\ enqueued = [w \in Workers |-> <<>>]

Goto(w, label) == pc' = [pc EXCEPT ![w] = label]

(* An adapter calls apply(e): a first delivery, a redelivery, a late one.  *)
Deliver(w, e) ==
  /\ pc[w] = "idle"
  /\ Goto(w, "claim")
  /\ event' = [event EXCEPT ![w] = e]
  /\ UNCHANGED <<database, record, staged, enqueued>>

(* The transaction of w ends, and with it everything private to it.        *)
Release(w) ==
  /\ Goto(w, "idle")
  /\ event'    = [event    EXCEPT ![w] = NoEvent]
  /\ record'   = [record   EXCEPT ![w] = NoRow]
  /\ staged'   = [staged   EXCEPT ![w] = NoRow]
  /\ enqueued' = [enqueued EXCEPT ![w] = <<>>]

(* inbox.claim inserts the key ...                                         *)
ClaimFresh(w) ==
  /\ pc[w] = "claim"
  /\ KeyIsFree(w)
  /\ DedupeKey(event[w]) \notin inbox
  /\ Goto(w, "ensureAndLock")
  /\ UNCHANGED <<database, local>>

(* ... or finds it: apply returns 'duplicate' and commits nothing.         *)
ClaimDuplicate(w) ==
  /\ pc[w] = "claim"
  /\ KeyIsFree(w)
  /\ DedupeKey(event[w]) \in inbox
  /\ Release(w)
  /\ UNCHANGED database

EnsureAndLock(w) ==
  /\ pc[w] = "ensureAndLock"
  /\ RowIsFree(w)
  /\ Goto(w, "decide")
  /\ record' = [record EXCEPT ![w] = LockedRow(event[w])]
  /\ staged' = [staged EXCEPT ![w] = LockedRow(event[w])]
  /\ UNCHANGED <<database, event, enqueued>>

(* decide said noop: the claim and a seeded row are all that commits.      *)
Ignore(w) ==
  /\ pc[w] = "decide"
  /\ Decide(record[w].state, event[w].type) = "noop"
  /\ Goto(w, "commit")
  /\ UNCHANGED <<database, local>>

(* decide said conflict: PAYMENT_CONFLICT is enqueued, the state stays.    *)
SurfaceConflict(w) ==
  /\ pc[w] = "decide"
  /\ Decide(record[w].state, event[w].type) = "conflict"
  /\ Goto(w, "commit")
  /\ enqueued' = [enqueued EXCEPT ![w] =
       <<Envelope("PAYMENT_CONFLICT", event[w],
                  record[w].state, record[w].state)>>]
  /\ UNCHANGED <<database, event, record, staged>>

(* decide said apply: store.advance updates the locked row ...             *)
Advance(w) ==
  /\ pc[w] = "decide"
  /\ Decide(record[w].state, event[w].type) = "apply"
  /\ Goto(w, "emit")
  /\ staged' = [staged EXCEPT ![w] = AdvancedRow(record[w], event[w])]
  /\ UNCHANGED <<database, event, record, enqueued>>

(* ... and the effect of the new state is enqueued.                        *)
Emit(w) ==
  /\ pc[w] = "emit"
  /\ Goto(w, "commit")
  /\ LET to == TargetStateOf(event[w].type) IN
       enqueued' = [enqueued EXCEPT ![w] =
         <<Envelope(EffectForState(to), event[w], record[w].state, to)>>]
  /\ UNCHANGED <<database, event, record, staged>>

Commit(w) ==
  /\ pc[w] = "commit"
  /\ LET p == event[w].paymentId IN
       /\ payment' = [payment EXCEPT ![p] = staged[w]]
       /\ outbox'  = [outbox  EXCEPT ![p] = @ \o enqueued[w]]
  /\ inbox' = inbox \cup {DedupeKey(event[w])}
  /\ Release(w)

Rollback(w) ==
  /\ pc[w] # "idle"
  /\ Release(w)
  /\ UNCHANGED database

Step(w) ==
  \/ ClaimFresh(w) \/ ClaimDuplicate(w) \/ EnsureAndLock(w)
  \/ Ignore(w) \/ SurfaceConflict(w) \/ Advance(w) \/ Emit(w) \/ Commit(w)

Next ==
  \E w \in Workers :
    \/ \E e \in Events : Deliver(w, e)
    \/ Step(w)
    \/ Rollback(w)

Spec == Init /\ [][Next]_vars

(* A transaction runs its statements; a waiter on a key or on a row is     *)
(* queued by PostgreSQL in arrival order, so it is not passed over for     *)
(* ever by transactions that keep taking and releasing the lock.           *)
Fairness ==
  \A w \in Workers :
    /\ WF_vars(Step(w))
    /\ SF_vars(ClaimFresh(w) \/ ClaimDuplicate(w))
    /\ SF_vars(EnsureAndLock(w))

FairSpec == Spec /\ Fairness

-----------------------------------------------------------------------------
(* Properties                                                              *)

(* Every variable keeps its shape, and a worker has an event exactly while *)
(* its transaction runs.                                                   *)
TypeOK ==
  /\ payment  \in [Payments -> Rows \cup {NoRow}]
  /\ inbox    \in SUBSET Keys
  /\ outbox   \in [Payments -> Seq(Envelopes)]
  /\ pc       \in [Workers -> PCs]
  /\ event    \in [Workers -> Events \cup {NoEvent}]
  /\ record   \in [Workers -> Rows \cup {NoRow}]
  /\ staged   \in [Workers -> Rows \cup {NoRow}]
  /\ enqueued \in [Workers -> Seq(Envelopes)]
  /\ \A w \in Workers : pc[w] = "idle" <=> event[w] = NoEvent

(* The outbox of a payment is a gap-free history of it: the first envelope *)
(* starts at INITIATED, each one starts where the one before ended, and    *)
(* the last one ends in the committed state.  Two transactions that        *)
(* decided on the same row (a lost update), an effect without its state    *)
(* change, or a state change without its effect would break the chain.     *)
LastState(envelopes) ==
  IF envelopes = <<>> THEN "INITIATED" ELSE envelopes[Len(envelopes)].toState

Replays(p) ==
  /\ payment[p].state = LastState(outbox[p])
  /\ \A i \in 1 .. Len(outbox[p]) :
       outbox[p][i].fromState =
         IF i = 1 THEN "INITIATED" ELSE outbox[p][i - 1].toState

OutboxReplaysState == \A p \in Payments : Replays(p)

(* One event, one effect: no two envelopes stem from the same dedupe key,  *)
(* whatever redeliveries raced each other, and an envelope is only there   *)
(* if the claim of its key committed with it.                              *)
EffectsOnce(p) ==
  /\ \A i \in DOMAIN outbox[p] : outbox[p][i].source \in inbox
  /\ \A i, j \in DOMAIN outbox[p] :
       outbox[p][i].source = outbox[p][j].source => i = j

ExactlyOnceEffects == \A p \in Payments : EffectsOnce(p)

(* The version column counts the transitions: 1 for the seeded row and one *)
(* more for each envelope that is not a conflict alert.                    *)
VersionCountsTransitions ==
  \A p \in Payments :
    Exists(p) =>
      payment[p].version =
        1 + Cardinality({i \in DOMAIN outbox[p] :
                           outbox[p][i].type # "PAYMENT_CONFLICT"})

Processed(p, states) ==
  \E k \in inbox : k.paymentId = p /\ TargetStateOf(k.type) \in states

ConflictSurfaced(p) ==
  \E i \in DOMAIN outbox[p] : outbox[p][i].type = "PAYMENT_CONFLICT"

(* README rules "No money lost" and "No double charge": once one source    *)
(* said the money moved and another said the payment failed, a conflict    *)
(* alert is in the outbox, in whichever order the two were applied and     *)
(* whatever was applied between them.                                      *)
DisagreementSurfaced ==
  \A p \in Payments :
    Processed(p, {"CAPTURED", "SETTLED"}) /\ Processed(p, {"FAILED"})
      => ConflictSurfaced(p)

(* ... and no alert without one: reports on the success ladder alone,      *)
(* however late, repeated or out of order, never look like a conflict.     *)
NoFalseAlarm ==
  \A p \in Payments : ConflictSurfaced(p) => Processed(p, {"FAILED"})

(* Convergence: as long as nobody reported a failure, the state is the     *)
(* highest one reported, whatever the order, the repetitions and the       *)
(* concurrency of the reports.  No processed report is lost.               *)
ConvergesToHighestReport ==
  \A p \in Payments :
    ~Processed(p, {"FAILED"}) =>
      /\ payment[p].state = "INITIATED" \/ Processed(p, {payment[p].state})
      /\ \A k \in inbox :
           k.paymentId = p =>
             RankOf(TargetStateOf(k.type)) <= RankOf(payment[p].state)

(* A committed payment only ever takes an edge of the lifecycle, one       *)
(* version at a time: terminal states are immutable, a captured payment is *)
(* never wiped by a failure, a failed one is never resurrected.            *)
LifecycleStep(p) ==
  \/ payment'[p].state = payment[p].state
  \/ /\ Advances(payment[p].state, payment'[p].state)
     /\ payment'[p].version = IF Exists(p) THEN payment[p].version + 1 ELSE 2

LifecycleOnlyAdvances == [][\A p \in Payments : LifecycleStep(p)]_vars

(* "The first writer to attribute a payment wins" (pgStore.ts): neither a  *)
(* later event with another attribution nor one without any changes the    *)
(* attribution a row has.                                                  *)
AttributionSticks ==
  [][\A p \in Payments :
       payment[p].attr # NoAttr => payment'[p].attr = payment[p].attr]_vars

(* Every call of apply returns: no two transactions wait for each other's  *)
(* key or row for ever, although each holds its key while it waits for a   *)
(* row.                                                                    *)
EveryApplyReturns ==
  \A w \in Workers : pc[w] # "idle" ~> pc[w] = "idle"

(* The machine implements the abstract promise: the committed state and    *)
(* the committed envelopes, without their attribution and source, move as  *)
(* a PaymentLadder does, and each apply is one of its steps or a stutter.  *)
JournalOf(envelopes) ==
  [i \in DOMAIN envelopes |->
     [type |-> envelopes[i].type, fromState |-> envelopes[i].fromState,
      toState |-> envelopes[i].toState]]

Ladder == INSTANCE PaymentLadder WITH
  state   <- [p \in Payments |-> payment[p].state],
  journal <- [p \in Payments |-> JournalOf(outbox[p])]

ImplementsLadder == Ladder!Spec

-----------------------------------------------------------------------------
(* The inductive invariant behind the properties above.                    *)

(* Two open transactions never hold the same key or the same row.          *)
Exclusive ==
  \A v, w \in Workers : v # w =>
    /\ Claimed(v) /\ Claimed(w) => DedupeKey(event[v]) # DedupeKey(event[w])
    /\ Locking(v) /\ Locking(w) => event[v].paymentId # event[w].paymentId

Decision(w) == Decide(record[w].state, event[w].type)

(* What w is about to commit follows from the row it locked: nothing new,  *)
(* a conflict alert, or the next row together with its effect.             *)
StagedAgrees(w) ==
  LET target == TargetStateOf(event[w].type) IN
  /\ ~Locking(w) => enqueued[w] = <<>>
  /\ pc[w] = "decide" => staged[w] = record[w] /\ enqueued[w] = <<>>
  /\ pc[w] = "emit" =>
       /\ Decision(w) = "apply"
       /\ staged[w] = AdvancedRow(record[w], event[w])
       /\ enqueued[w] = <<>>
  /\ pc[w] = "commit" =>
       \/ /\ Decision(w) = "noop"
          /\ staged[w] = record[w]
          /\ enqueued[w] = <<>>
       \/ /\ Decision(w) = "conflict"
          /\ staged[w] = record[w]
          /\ enqueued[w] = <<Envelope("PAYMENT_CONFLICT", event[w],
                                      record[w].state, record[w].state)>>
       \/ /\ Decision(w) = "apply"
          /\ staged[w] = AdvancedRow(record[w], event[w])
          /\ enqueued[w] = <<Envelope(EffectForState(target), event[w],
                                      record[w].state, target)>>

(* An open transaction's key is not committed, and the row it locked is    *)
(* still what the database holds.                                          *)
OpenTransaction(w) ==
  /\ Claimed(w) => DedupeKey(event[w]) \notin inbox
  /\ Locking(w) => record[w] = LockedRow(event[w])
  /\ StagedAgrees(w)

(* Every committed report is accounted for by the state of its payment, or *)
(* by a conflict alert.                                                    *)
ReportsAccounted(p) ==
  /\ payment[p].state = "INITIATED" \/ Processed(p, {payment[p].state})
  /\ \A k \in inbox :
       k.paymentId = p =>
         LET target == TargetStateOf(k.type) IN
         \/ ConflictSurfaced(p)
         \/ target = "FAILED" /\ payment[p].state = "FAILED"
         \/ /\ target # "FAILED"
            /\ \/ payment[p].state = "FAILED" /\ RankOf(target) <= 1
               \/ /\ payment[p].state # "FAILED"
                  /\ RankOf(target) <= RankOf(payment[p].state)

IInv ==
  /\ TypeOK
  /\ Exclusive
  /\ \A w \in Workers : OpenTransaction(w)
  /\ OutboxReplaysState
  /\ ExactlyOnceEffects
  /\ \A p \in Payments : ReportsAccounted(p)
  /\ NoFalseAlarm
=============================================================================
