--------------------- MODULE PaymentStateMachine_proofs ---------------------
(***************************************************************************)
(* Proofs about PaymentStateMachine, for every set of workers, payments,   *)
(* transactions, attributions and events: its invariants first, then that  *)
(* it implements PaymentLadder.                                            *)
(***************************************************************************)
EXTENDS PaymentStateMachine, FiniteSetTheorems, SequenceTheorems, TLAPS

(* Lemma: every event type targets a payment state (EVENT_INTENT and       *)
(* INTENT_TARGET are total), and every state has an effect.                *)
LEMMA LifecycleTypes ==
  /\ \A type \in PAYMENT_EVENT_TYPES : TargetStateOf(type) \in PAYMENT_STATES
  /\ \A state \in PAYMENT_STATES : EffectForState(state) \in PAYMENT_EFFECTS
  BY DEF PAYMENT_EVENT_TYPES, TargetStateOf, PAYMENT_STATES, PAYMENT_EFFECTS,
         EffectForState, InitiateTypes, AuthorizeTypes, CaptureTypes,
         SettleTypes, FailTypes

(* Lemma: the rows and envelopes built from a delivered event have their   *)
(* type.                                                                   *)
LEMMA BuilderTypes ==
  ASSUME NEW e \in Events
  PROVE  /\ e.paymentId \in Payments
         /\ e.type \in PAYMENT_EVENT_TYPES
         /\ e.attr \in Attributions \cup {NoAttr}
         /\ DedupeKey(e) \in Keys
         /\ SeedRow(e) \in Rows
         /\ \A row \in Rows \cup {NoRow} : AdvancedRow(row, e) \in Rows
         /\ \A effect \in PAYMENT_EFFECTS, from, to \in PAYMENT_STATES :
              Envelope(effect, e, from, to) \in Envelopes
  <1>1. e \in EventSpace
    BY EventsAssumption
  <1>2. /\ e.paymentId \in Payments
        /\ e.type \in PAYMENT_EVENT_TYPES
        /\ e.transactionId \in Transactions
        /\ e.attr \in Attributions \cup {NoAttr}
    BY <1>1 DEF EventSpace
  <1>3. DedupeKey(e) \in Keys
    BY <1>2 DEF DedupeKey, Keys
  <1>4. SeedRow(e) \in Rows
    BY <1>2 DEF SeedRow, Rows, PAYMENT_STATES
  <1>5. ASSUME NEW row \in Rows \cup {NoRow}
        PROVE  AdvancedRow(row, e) \in Rows
    <2>1. row.version + 1 \in Nat \ {0} /\ row.attr \in Attributions \cup {NoAttr}
      BY DEF Rows, NoRow
    <2> QED
      BY <1>2, <2>1, LifecycleTypes DEF AdvancedRow, Rows, Coalesce
  <1>6. ASSUME NEW effect \in PAYMENT_EFFECTS,
               NEW from \in PAYMENT_STATES, NEW to \in PAYMENT_STATES
        PROVE  Envelope(effect, e, from, to) \in Envelopes
    BY <1>2, <1>3 DEF Envelope, Envelopes
  <1> QED
    BY <1>2, <1>3, <1>4, <1>5, <1>6

-----------------------------------------------------------------------------
(* Lemma: every step of the machine preserves the type invariant.          *)
LEMMA TypeStep == TypeOK /\ [Next]_vars => TypeOK'
  <1> SUFFICES ASSUME TypeOK, [Next]_vars PROVE TypeOK'
    OBVIOUS
  <1> USE DEF TypeOK
  <1>1. CASE UNCHANGED vars
    BY <1>1 DEF vars
  <1>2. ASSUME NEW w \in Workers, NEW e \in Events, Deliver(w, e)
        PROVE  TypeOK'
    BY <1>2, NoEventAssumption DEF Deliver, Goto, PCs, database
  <1>3. ASSUME NEW w \in Workers, Release(w), UNCHANGED database
        PROVE  TypeOK'
    BY <1>3 DEF Release, Goto, PCs, database
  <1>4. ASSUME NEW w \in Workers, ClaimFresh(w)
        PROVE  TypeOK'
    BY <1>4 DEF ClaimFresh, Goto, PCs, database, local
  <1>5. ASSUME NEW w \in Workers, EnsureAndLock(w)
        PROVE  TypeOK'
    <2>1. event[w] \in Events
      BY <1>5 DEF EnsureAndLock
    <2>2. LockedRow(event[w]) \in Rows \cup {NoRow}
      BY <2>1, BuilderTypes DEF LockedRow
    <2> QED
      BY <1>5, <2>2 DEF EnsureAndLock, Goto, PCs, database
  <1>6. ASSUME NEW w \in Workers, Ignore(w)
        PROVE  TypeOK'
    BY <1>6 DEF Ignore, Goto, PCs, database, local
  <1>7. ASSUME NEW w \in Workers, SurfaceConflict(w)
        PROVE  TypeOK'
    <2>1. event[w] \in Events
      BY <1>7 DEF SurfaceConflict
    <2>2. record[w].state \in PAYMENT_STATES
      BY DEF Rows, NoRow, PAYMENT_STATES
    <2>3. Envelope("PAYMENT_CONFLICT", event[w], record[w].state,
                   record[w].state) \in Envelopes
      BY <2>1, <2>2, BuilderTypes DEF PAYMENT_EFFECTS
    <2> QED
      BY <1>7, <2>3 DEF SurfaceConflict, Goto, PCs, database
  <1>8. ASSUME NEW w \in Workers, Advance(w)
        PROVE  TypeOK'
    <2>1. event[w] \in Events
      BY <1>8 DEF Advance
    <2>2. AdvancedRow(record[w], event[w]) \in Rows
      BY <2>1, BuilderTypes
    <2> QED
      BY <1>8, <2>2 DEF Advance, Goto, PCs, database
  <1>9. ASSUME NEW w \in Workers, Emit(w)
        PROVE  TypeOK'
    <2> DEFINE to == TargetStateOf(event[w].type)
               env == Envelope(EffectForState(to), event[w], record[w].state, to)
    <2>1. event[w] \in Events
      BY <1>9 DEF Emit
    <2>2. record[w].state \in PAYMENT_STATES
      BY DEF Rows, NoRow, PAYMENT_STATES
    <2>3. to \in PAYMENT_STATES /\ EffectForState(to) \in PAYMENT_EFFECTS
      BY <2>1, BuilderTypes, LifecycleTypes
    <2>4. env \in Envelopes
      BY <2>1, <2>2, <2>3, BuilderTypes
    <2>5. enqueued' = [enqueued EXCEPT ![w] = <<env>>]
      BY <1>9 DEF Emit
    <2> HIDE DEF env, to
    <2> QED
      BY <1>9, <2>4, <2>5 DEF Emit, Goto, PCs, database
  <1>10. ASSUME NEW w \in Workers, Commit(w)
         PROVE  TypeOK'
    <2> DEFINE p == event[w].paymentId
    <2>1. event[w] \in Events
      BY <1>10 DEF Commit
    <2>2. p \in Payments /\ DedupeKey(event[w]) \in Keys
      BY <2>1, BuilderTypes
    <2>3. outbox[p] \o enqueued[w] \in Seq(Envelopes)
      BY <2>2
    <2>4. /\ payment' = [payment EXCEPT ![p] = staged[w]]
          /\ outbox'  = [outbox  EXCEPT ![p] = outbox[p] \o enqueued[w]]
          /\ inbox' = inbox \cup {DedupeKey(event[w])}
          /\ Release(w)
      BY <1>10 DEF Commit
    <2> HIDE DEF p
    <2> QED
      BY <2>2, <2>3, <2>4 DEF Release, Goto, PCs
  <1> QED
    BY <1>1, <1>2, <1>3, <1>4, <1>5, <1>6, <1>7, <1>8, <1>9, <1>10
    DEF Next, Step, ClaimDuplicate, Rollback

(* The variables of the machine keep their types: state, version and       *)
(* attribution of every row, the shape of every key and envelope, and the  *)
(* agreement of program counters with the events being applied.            *)
THEOREM TypeCorrect == Spec => []TypeOK
  <1>1. Init => TypeOK
    BY DEF Init, TypeOK, PCs
  <1> QED
    BY <1>1, TypeStep, PTL DEF Spec

-----------------------------------------------------------------------------
(* The inductive invariant.  A step of one worker leaves the others' open  *)
(* transactions alone; only Commit touches the database.                   *)

DatabaseInv ==
  /\ OutboxReplaysState
  /\ ExactlyOnceEffects
  /\ \A p \in Payments : ReportsAccounted(p)
  /\ NoFalseAlarm

OthersUnchanged(w) ==
  \A v \in Workers \ {w} :
    /\ pc'[v] = pc[v] /\ event'[v] = event[v] /\ record'[v] = record[v]
    /\ staged'[v] = staged[v] /\ enqueued'[v] = enqueued[v]

(* Lemma: what the database satisfies depends on the database alone.       *)
LEMMA DatabaseStutter ==
  ASSUME DatabaseInv, UNCHANGED database
  PROVE  DatabaseInv'
  <1>1. payment' = payment /\ inbox' = inbox /\ outbox' = outbox
    BY DEF database
  <1>2. OutboxReplaysState'
    BY <1>1 DEF DatabaseInv, OutboxReplaysState, Replays, LastState
  <1>3. ExactlyOnceEffects'
    BY <1>1 DEF DatabaseInv, ExactlyOnceEffects, EffectsOnce
  <1>4. \A p \in Payments : ReportsAccounted(p)'
    BY <1>1 DEF DatabaseInv, ReportsAccounted, Processed, ConflictSurfaced
  <1>5. NoFalseAlarm'
    BY <1>1 DEF DatabaseInv, NoFalseAlarm, Processed, ConflictSurfaced
  <1> QED
    BY <1>2, <1>3, <1>4, <1>5 DEF DatabaseInv

(* Lemma: a step of w that leaves the database alone preserves IInv, if w  *)
(* itself ends up in a consistent transaction and took no lock another     *)
(* worker holds.                                                           *)
LEMMA LocalStep ==
  ASSUME IInv, TypeOK', UNCHANGED database,
         NEW w \in Workers, OthersUnchanged(w),
         OpenTransaction(w)',
         Claimed(w)' => KeyIsFree(w)',
         Locking(w)' => RowIsFree(w)'
  PROVE  IInv'
  <1>1. DatabaseInv'
    BY DatabaseStutter DEF IInv, DatabaseInv
  <1>2. Exclusive'
    BY DEF IInv, Exclusive, OthersUnchanged, KeyIsFree, RowIsFree, Claimed,
           Locking
  <1>3. ASSUME NEW v \in Workers
        PROVE  OpenTransaction(v)'
    <2>1. CASE v = w
      BY <2>1
    <2>2. CASE v # w
      <3>1. OpenTransaction(v)
        BY DEF IInv
      <3>2. /\ pc'[v] = pc[v] /\ event'[v] = event[v] /\ record'[v] = record[v]
            /\ staged'[v] = staged[v] /\ enqueued'[v] = enqueued[v]
            /\ payment' = payment /\ inbox' = inbox
        BY <2>2 DEF OthersUnchanged, database
      <3> QED
        BY <3>1, <3>2 DEF OpenTransaction, StagedAgrees, Decision, Claimed,
           Locking, LockedRow, Exists
    <2> QED
      BY <2>1, <2>2
  <1> QED
    BY <1>1, <1>2, <1>3 DEF IInv, DatabaseInv

(* Lemma: ending a transaction without writing preserves IInv.             *)
LEMMA ReleaseStep ==
  ASSUME IInv, TypeOK', NEW w \in Workers, Release(w), UNCHANGED database
  PROVE  IInv'
  <1>1. pc'[w] = "idle" /\ enqueued'[w] = <<>>
    BY DEF Release, Goto, IInv, TypeOK
  <1>2. OthersUnchanged(w)
    BY DEF Release, Goto, IInv, TypeOK, OthersUnchanged
  <1>3. OpenTransaction(w)' /\ ~Claimed(w)' /\ ~Locking(w)'
    BY <1>1 DEF OpenTransaction, StagedAgrees, Claimed, Locking
  <1> QED
    BY <1>2, <1>3, LocalStep

(* Lemma: every statement before Commit preserves IInv.                    *)
LEMMA StatementStep ==
  ASSUME IInv, TypeOK', NEW w \in Workers,
         \/ \E e \in Events : Deliver(w, e)
         \/ ClaimFresh(w) \/ EnsureAndLock(w) \/ Ignore(w)
         \/ SurfaceConflict(w) \/ Advance(w) \/ Emit(w)
  PROVE  IInv'
  <1> USE DEF IInv, TypeOK
  <1>1. OpenTransaction(w) /\ Exclusive
    OBVIOUS
  <1>2. CASE \E e \in Events : Deliver(w, e)
    <2>1. /\ pc'[w] = "claim" /\ enqueued'[w] = enqueued[w] /\ pc[w] = "idle"
          /\ UNCHANGED database /\ OthersUnchanged(w)
      BY <1>2 DEF Deliver, Goto, OthersUnchanged
    <2>2. OpenTransaction(w)' /\ ~Claimed(w)' /\ ~Locking(w)'
      BY <1>1, <2>1 DEF OpenTransaction, StagedAgrees, Claimed, Locking
    <2> QED
      BY <2>1, <2>2, LocalStep
  <1>3. CASE ClaimFresh(w)
    <2>1. /\ pc[w] = "claim" /\ pc'[w] = "ensureAndLock"
          /\ UNCHANGED database /\ UNCHANGED local /\ OthersUnchanged(w)
          /\ KeyIsFree(w) /\ DedupeKey(event[w]) \notin inbox
      BY <1>3 DEF ClaimFresh, Goto, OthersUnchanged, local
    <2>2. OpenTransaction(w)' /\ ~Locking(w)'
      BY <1>1, <2>1 DEF OpenTransaction, StagedAgrees, Claimed, Locking,
                        database, local
    <2>3. KeyIsFree(w)'
      BY <2>1 DEF KeyIsFree, Claimed, OthersUnchanged, local
    <2> QED
      BY <2>1, <2>2, <2>3, LocalStep
  <1>4. CASE EnsureAndLock(w)
    <2>1. /\ pc[w] = "ensureAndLock" /\ pc'[w] = "decide"
          /\ record'[w] = LockedRow(event[w])
          /\ staged'[w] = LockedRow(event[w])
          /\ event' = event /\ enqueued' = enqueued
          /\ UNCHANGED database /\ OthersUnchanged(w) /\ RowIsFree(w)
      BY <1>4 DEF EnsureAndLock, Goto, OthersUnchanged
    <2>2. OpenTransaction(w)'
      BY <1>1, <2>1 DEF OpenTransaction, StagedAgrees, Claimed, Locking,
                        database, LockedRow, Exists
    <2>3. RowIsFree(w)' /\ KeyIsFree(w)'
      BY <1>1, <2>1 DEF RowIsFree, KeyIsFree, Exclusive, Claimed, Locking,
                        OthersUnchanged
    <2> QED
      BY <2>1, <2>2, <2>3, LocalStep
  <1>5. ASSUME pc[w] \in {"decide", "emit"}, pc'[w] \in {"emit", "commit"},
               event' = event, record' = record, UNCHANGED database,
               OthersUnchanged(w), StagedAgrees(w)'
        PROVE  IInv'
    <2>1. OpenTransaction(w)'
      BY <1>1, <1>5 DEF OpenTransaction, Claimed, Locking, database, LockedRow,
                        Exists
    <2>2. RowIsFree(w)' /\ KeyIsFree(w)'
      BY <1>1, <1>5 DEF RowIsFree, KeyIsFree, Exclusive, Claimed, Locking,
                        OthersUnchanged
    <2> QED
      BY <1>5, <2>1, <2>2, LocalStep
  <1>6. CASE Ignore(w)
    <2>1. /\ pc[w] = "decide" /\ pc'[w] = "commit" /\ Decision(w) = "noop"
          /\ event' = event /\ record' = record /\ UNCHANGED <<database, local>>
          /\ OthersUnchanged(w)
      BY <1>6 DEF Ignore, Goto, OthersUnchanged, local, Decision
    <2>2. StagedAgrees(w)'
      BY <1>1, <2>1 DEF OpenTransaction, StagedAgrees, Locking, Decision, local
    <2> QED
      BY <2>1, <2>2, <1>5
  <1>7. CASE SurfaceConflict(w)
    <2>1. /\ pc[w] = "decide" /\ pc'[w] = "commit" /\ Decision(w) = "conflict"
          /\ event' = event /\ record' = record /\ staged' = staged
          /\ enqueued'[w] = <<Envelope("PAYMENT_CONFLICT", event[w],
                                       record[w].state, record[w].state)>>
          /\ UNCHANGED database /\ OthersUnchanged(w)
      BY <1>7 DEF SurfaceConflict, Goto, OthersUnchanged, Decision
    <2>2. StagedAgrees(w)'
      BY <1>1, <2>1 DEF OpenTransaction, StagedAgrees, Locking, Decision
    <2> QED
      BY <2>1, <2>2, <1>5
  <1>8. CASE Advance(w)
    <2>1. /\ pc[w] = "decide" /\ pc'[w] = "emit" /\ Decision(w) = "apply"
          /\ event' = event /\ record' = record /\ enqueued' = enqueued
          /\ staged'[w] = AdvancedRow(record[w], event[w])
          /\ UNCHANGED database /\ OthersUnchanged(w)
      BY <1>8 DEF Advance, Goto, OthersUnchanged, Decision
    <2>2. StagedAgrees(w)'
      BY <1>1, <2>1 DEF OpenTransaction, StagedAgrees, Locking, Decision
    <2> QED
      BY <2>1, <2>2, <1>5
  <1>9. CASE Emit(w)
    <2>1. /\ pc[w] = "emit" /\ pc'[w] = "commit"
          /\ event' = event /\ record' = record /\ staged' = staged
          /\ enqueued'[w] =
               <<Envelope(EffectForState(TargetStateOf(event[w].type)), event[w],
                          record[w].state, TargetStateOf(event[w].type))>>
          /\ UNCHANGED database /\ OthersUnchanged(w)
      BY <1>9 DEF Emit, Goto, OthersUnchanged
    <2>2. StagedAgrees(w)'
      BY <1>1, <2>1 DEF OpenTransaction, StagedAgrees, Locking, Decision
    <2> QED
      BY <2>1, <2>2, <1>5
  <1> QED
    BY <1>2, <1>3, <1>4, <1>6, <1>7, <1>8, <1>9

-----------------------------------------------------------------------------
(* The commit of w publishes exactly one of three things.                  *)

CommitsNothing(p, w) ==
  /\ Decision(w) = "noop"
  /\ payment' = [payment EXCEPT ![p] = LockedRow(event[w])]
  /\ outbox' = outbox

CommitsAlert(p, w) ==
  /\ Decision(w) = "conflict"
  /\ payment' = [payment EXCEPT ![p] = LockedRow(event[w])]
  /\ outbox' = [outbox EXCEPT ![p] =
       Append(outbox[p], Envelope("PAYMENT_CONFLICT", event[w],
                                  payment[p].state, payment[p].state))]

CommitsMove(p, w) ==
  LET to == TargetStateOf(event[w].type) IN
  /\ Decision(w) = "apply"
  /\ payment' = [payment EXCEPT ![p] = AdvancedRow(LockedRow(event[w]), event[w])]
  /\ outbox' = [outbox EXCEPT ![p] =
       Append(outbox[p], Envelope(EffectForState(to), event[w],
                                  payment[p].state, to))]

(* Lemma: under the invariant, Commit is one of the three, for the payment *)
(* and the state that are committed right now.                             *)
LEMMA CommitCases ==
  ASSUME IInv, NEW w \in Workers, Commit(w)
  PROVE  /\ event[w] \in Events
         /\ event[w].paymentId \in Payments
         /\ DedupeKey(event[w]) \in Keys \ inbox
         /\ DedupeKey(event[w]).paymentId = event[w].paymentId
         /\ inbox' = inbox \cup {DedupeKey(event[w])}
         /\ LockedRow(event[w]).state = payment[event[w].paymentId].state
         /\ Decision(w) = Decide(payment[event[w].paymentId].state, event[w].type)
         /\ \/ CommitsNothing(event[w].paymentId, w)
            \/ CommitsAlert(event[w].paymentId, w)
            \/ CommitsMove(event[w].paymentId, w)
  <1> DEFINE p == event[w].paymentId
  <1> USE DEF IInv
  <1>1. event[w] \in Events
    BY DEF Commit, TypeOK
  <1>2. p \in Payments /\ DedupeKey(event[w]) \in Keys
    BY <1>1, BuilderTypes
  <1>3. /\ pc[w] = "commit"
        /\ payment' = [payment EXCEPT ![p] = staged[w]]
        /\ outbox' = [outbox EXCEPT ![p] = outbox[p] \o enqueued[w]]
        /\ inbox' = inbox \cup {DedupeKey(event[w])}
    BY DEF Commit
  <1>4. /\ DedupeKey(event[w]) \notin inbox
        /\ record[w] = LockedRow(event[w])
        /\ StagedAgrees(w)
    BY <1>3 DEF OpenTransaction, Claimed, Locking
  <1>5. LockedRow(event[w]).state = payment[p].state
    BY DEF LockedRow, Exists, SeedRow, NoRow
  <1>6. Decision(w) = Decide(payment[p].state, event[w].type)
    BY <1>4, <1>5 DEF Decision
  <1>7. DedupeKey(event[w]).paymentId = p
    BY DEF DedupeKey
  <1>8. outbox \in [Payments -> Seq(Envelopes)]
    BY DEF TypeOK
  <1>9. \/ CommitsNothing(p, w) \/ CommitsAlert(p, w) \/ CommitsMove(p, w)
    <2>1. CASE Decision(w) = "noop" /\ staged[w] = record[w] /\ enqueued[w] = <<>>
      <3>1. outbox[p] \o <<>> = outbox[p]
        BY <1>2, <1>8
      <3>2. outbox' = outbox
        BY <1>3, <1>8, <2>1, <3>1
      <3> QED
        BY <1>3, <1>4, <2>1, <3>2 DEF CommitsNothing
    <2>2. CASE /\ Decision(w) = "conflict"
               /\ staged[w] = record[w]
               /\ enqueued[w] = <<Envelope("PAYMENT_CONFLICT", event[w],
                                           record[w].state, record[w].state)>>
      <3> DEFINE env == Envelope("PAYMENT_CONFLICT", event[w],
                                 payment[p].state, payment[p].state)
      <3>1. enqueued[w] = <<env>>
        BY <1>4, <1>5, <2>2
      <3>2. payment[p].state \in PAYMENT_STATES
        BY <1>2 DEF TypeOK, Rows, NoRow, PAYMENT_STATES
      <3>3. env \in Envelopes
        BY <1>1, <3>2, BuilderTypes DEF PAYMENT_EFFECTS
      <3> HIDE DEF env
      <3>4. outbox[p] \o <<env>> = Append(outbox[p], env)
        BY <1>2, <1>8, <3>3
      <3>5. outbox' = [outbox EXCEPT ![p] = Append(outbox[p], env)]
        BY <1>3, <3>1, <3>4
      <3> QED
        BY <1>3, <1>4, <2>2, <3>5 DEF CommitsAlert, env
    <2>3. CASE /\ Decision(w) = "apply"
               /\ staged[w] = AdvancedRow(record[w], event[w])
               /\ enqueued[w] =
                    <<Envelope(EffectForState(TargetStateOf(event[w].type)),
                               event[w], record[w].state,
                               TargetStateOf(event[w].type))>>
      <3> DEFINE to  == TargetStateOf(event[w].type)
                 env == Envelope(EffectForState(to), event[w], payment[p].state, to)
      <3>1. enqueued[w] = <<env>>
        BY <1>4, <1>5, <2>3
      <3>2. payment[p].state \in PAYMENT_STATES
        BY <1>2 DEF TypeOK, Rows, NoRow, PAYMENT_STATES
      <3>3. to \in PAYMENT_STATES /\ EffectForState(to) \in PAYMENT_EFFECTS
        BY <1>1, BuilderTypes, LifecycleTypes
      <3>4. env \in Envelopes
        BY <1>1, <3>2, <3>3, BuilderTypes
      <3> HIDE DEF env
      <3>5. outbox[p] \o <<env>> = Append(outbox[p], env)
        BY <1>2, <1>8, <3>4
      <3>6. outbox' = [outbox EXCEPT ![p] = Append(outbox[p], env)]
        BY <1>3, <3>1, <3>5
      <3> QED
        BY <1>3, <1>4, <2>3, <3>6 DEF CommitsMove, env
    <2> QED
      BY <1>3, <1>4, <2>1, <2>2, <2>3 DEF StagedAgrees
  <1> QED
    BY <1>1, <1>2, <1>3, <1>4, <1>5, <1>6, <1>7, <1>9

(* Lemma: decide as a case distinction the provers can use: a conflict is  *)
(* about a failure, and an applied event goes where it says.               *)
LEMMA DecideCases ==
  ASSUME NEW current \in PAYMENT_STATES, NEW type \in PAYMENT_EVENT_TYPES
  PROVE  LET target == TargetStateOf(type) IN
         /\ Decide(current, type) \in {"noop", "conflict", "apply"}
         /\ Decide(current, type) = "conflict" =>
              /\ current \in {"CAPTURED", "SETTLED", "FAILED"}
              /\ current = "FAILED" \/ target = "FAILED"
         /\ Decide(current, type) = "apply" =>
              /\ Advances(current, target)
              /\ current \notin {"SETTLED", "FAILED"}
              /\ target = "FAILED" => current # "CAPTURED"
              /\ target # "FAILED" => RankOf(target) > RankOf(current)
         /\ Decide(current, type) = "noop" =>
              /\ target = "FAILED" => current = "FAILED"
              /\ target # "FAILED" /\ current = "FAILED" => target = "INITIATED"
              /\ target # "FAILED" /\ current # "FAILED" =>
                   RankOf(target) <= RankOf(current)
  <1> DEFINE target == TargetStateOf(type)
  <1>1. target \in PAYMENT_STATES
    BY LifecycleTypes
  <1>2. Decide(current, type) =
          CASE Conflicts(current, target) -> "conflict"
            [] Advances(current, target)  -> "apply"
            [] OTHER                      -> "noop"
    BY DEF Decide
  <1> HIDE DEF target
  <1>3. ~(Conflicts(current, target) /\ Advances(current, target))
    BY DEF Conflicts, Advances, IsTerminal, IsContradiction, TERMINAL_STATES
  <1>4. /\ Decide(current, type) \in {"noop", "conflict", "apply"}
        /\ Decide(current, type) = "conflict" => Conflicts(current, target)
        /\ Decide(current, type) = "apply" => Advances(current, target)
        /\ Decide(current, type) = "noop" =>
             ~Conflicts(current, target) /\ ~Advances(current, target)
    BY <1>2, <1>3
  <1> QED
    BY <1>1, <1>4 DEF target, Conflicts, Advances, IsTerminal, IsContradiction,
       TERMINAL_STATES, PAYMENT_STATES, RankOf

-----------------------------------------------------------------------------
(* Lemma: a commit leaves every other open transaction consistent, since   *)
(* it holds another key and another row.                                   *)
LEMMA CommitLeavesOthers ==
  ASSUME IInv, TypeOK', NEW w \in Workers, Commit(w)
  PROVE  Exclusive' /\ \A v \in Workers : OpenTransaction(v)'
  <1> USE DEF IInv
  <1> DEFINE p == event[w].paymentId
  <1>1. /\ pc[w] = "commit" /\ pc'[w] = "idle" /\ enqueued'[w] = <<>>
        /\ OthersUnchanged(w)
    BY DEF Commit, Release, Goto, TypeOK, OthersUnchanged
  <1>2. Exclusive'
    BY <1>1 DEF Exclusive, OthersUnchanged, Claimed, Locking
  <1>3. OpenTransaction(w)'
    BY <1>1 DEF OpenTransaction, StagedAgrees, Claimed, Locking
  <1>4. ASSUME NEW v \in Workers, v # w
        PROVE  OpenTransaction(v)'
    <2>1. /\ pc'[v] = pc[v] /\ event'[v] = event[v] /\ record'[v] = record[v]
          /\ staged'[v] = staged[v] /\ enqueued'[v] = enqueued[v]
      BY <1>1, <1>4 DEF OthersUnchanged
    <2>2. Claimed(v) => DedupeKey(event[v]) # DedupeKey(event[w])
      BY <1>1, <1>4 DEF Exclusive, Claimed
    <2>3. Locking(v) => event[v].paymentId # p
      BY <1>1, <1>4 DEF Exclusive, Locking
    <2>4. inbox' = inbox \cup {DedupeKey(event[w])}
      BY CommitCases
    <2>5. \A q \in Payments : q # p => payment'[q] = payment[q]
      BY DEF Commit, TypeOK
    <2>6. OpenTransaction(v)
      OBVIOUS
    <2>7. (Claimed(v) => DedupeKey(event[v]) \notin inbox)'
      BY <2>1, <2>2, <2>4, <2>6 DEF OpenTransaction, Claimed
    <2>8. Locking(v) => event[v].paymentId \in Payments
      <3>1. Locking(v) => event[v] \in Events
        BY DEF TypeOK, Locking
      <3> QED
        BY <3>1, BuilderTypes
    <2>9. (Locking(v) => record[v] = LockedRow(event[v]))'
      BY <2>1, <2>3, <2>5, <2>6, <2>8
      DEF OpenTransaction, Locking, LockedRow, Exists
    <2>10. StagedAgrees(v)'
      BY <2>1, <2>6 DEF OpenTransaction, StagedAgrees, Locking, Decision
    <2> QED
      BY <2>7, <2>9, <2>10 DEF OpenTransaction
  <1> QED
    BY <1>2, <1>3, <1>4

(* Lemma: appending an envelope that starts in the current state and ends  *)
(* in the next one keeps the outbox a gap-free history.                    *)
LEMMA AppendReplays ==
  ASSUME NEW s \in Seq(Envelopes), NEW env \in Envelopes,
         env.fromState = LastState(s),
         \A i \in 1 .. Len(s) :
           s[i].fromState = IF i = 1 THEN "INITIATED" ELSE s[i - 1].toState
  PROVE  /\ LastState(Append(s, env)) = env.toState
         /\ \A i \in 1 .. Len(Append(s, env)) :
              Append(s, env)[i].fromState =
                IF i = 1 THEN "INITIATED" ELSE Append(s, env)[i - 1].toState
  <1> DEFINE t == Append(s, env)
  <1>1. /\ t \in Seq(Envelopes) /\ Len(t) = Len(s) + 1 /\ Len(s) \in Nat
        /\ t[Len(s) + 1] = env
        /\ \A i \in 1 .. Len(s) : t[i] = s[i]
    OBVIOUS
  <1> HIDE DEF t
  <1>2. LastState(t) = env.toState
    <2>1. t # <<>>
      BY <1>1
    <2> QED
      BY <1>1, <2>1 DEF LastState
  <1>3. ASSUME NEW i \in 1 .. Len(t)
        PROVE  t[i].fromState = IF i = 1 THEN "INITIATED" ELSE t[i - 1].toState
    <2>1. CASE i \in 1 .. Len(s)
      BY <1>1, <2>1
    <2>2. CASE i = Len(s) + 1 /\ Len(s) = 0
      BY <1>1, <2>2 DEF LastState
    <2>3. CASE i = Len(s) + 1 /\ Len(s) # 0
      <3>1. env.fromState = s[Len(s)].toState
        BY <2>3 DEF LastState
      <3> QED
        BY <1>1, <2>3, <3>1
    <2> QED
      BY <1>1, <2>1, <2>2, <2>3
  <1> QED
    BY <1>2, <1>3 DEF t

(* Lemma: Commit keeps every outbox a gap-free history of its payment.     *)
LEMMA CommitReplays ==
  ASSUME IInv, NEW w \in Workers, Commit(w),
         NEW p \in Payments, p = event[w].paymentId
  PROVE  OutboxReplaysState'
  <1> DEFINE to == TargetStateOf(event[w].type)
             alert == Envelope("PAYMENT_CONFLICT", event[w],
                               payment[p].state, payment[p].state)
             move  == Envelope(EffectForState(to), event[w], payment[p].state, to)
  <1>1. /\ event[w] \in Events /\ p \in Payments
        /\ LockedRow(event[w]).state = payment[p].state
        /\ CommitsNothing(p, w) \/ CommitsAlert(p, w) \/ CommitsMove(p, w)
    BY CommitCases
  <1>2. /\ payment \in [Payments -> Rows \cup {NoRow}]
        /\ outbox \in [Payments -> Seq(Envelopes)]
        /\ \A q \in Payments : Replays(q)
    BY DEF IInv, TypeOK, OutboxReplaysState
  <1>3. \A q \in Payments : q # p => payment'[q] = payment[q] /\ outbox'[q] = outbox[q]
    BY <1>1, <1>2 DEF CommitsNothing, CommitsAlert, CommitsMove
  <1>4. ASSUME NEW q \in Payments, q # p
        PROVE  Replays(q)'
    BY <1>2, <1>3, <1>4 DEF Replays
  <1>5. payment[p].state \in PAYMENT_STATES
    BY <1>1, <1>2 DEF Rows, NoRow, PAYMENT_STATES
  <1>6. to \in PAYMENT_STATES /\ EffectForState(to) \in PAYMENT_EFFECTS
    BY <1>1, BuilderTypes, LifecycleTypes
  <1>7. alert \in Envelopes /\ move \in Envelopes
    BY <1>1, <1>5, <1>6, BuilderTypes DEF PAYMENT_EFFECTS
  <1>8. /\ alert.fromState = payment[p].state /\ alert.toState = payment[p].state
        /\ move.fromState = payment[p].state /\ move.toState = to
    BY DEF Envelope
  <1>9. AdvancedRow(LockedRow(event[w]), event[w]).state = to
    BY DEF AdvancedRow
  <1> HIDE DEF alert, move, to
  <1>10. Replays(p)
    BY <1>1, <1>2
  <1>11. ASSUME CommitsNothing(p, w) PROVE Replays(p)'
    <2>1. payment'[p].state = payment[p].state /\ outbox' = outbox
      BY <1>1, <1>2, <1>11 DEF CommitsNothing
    <2> QED
      BY <1>10, <2>1 DEF Replays
  <1>12. ASSUME CommitsAlert(p, w) PROVE Replays(p)'
    <2>1. payment'[p].state = payment[p].state /\ outbox'[p] = Append(outbox[p], alert)
      BY <1>1, <1>2, <1>12 DEF CommitsAlert, alert
    <2> QED
      BY <1>1, <1>2, <1>7, <1>8, <1>10, <2>1, AppendReplays DEF Replays
  <1>13. ASSUME CommitsMove(p, w) PROVE Replays(p)'
    <2>1. payment'[p].state = to /\ outbox'[p] = Append(outbox[p], move)
      BY <1>1, <1>2, <1>9, <1>13 DEF CommitsMove, move, to
    <2> QED
      BY <1>1, <1>2, <1>7, <1>8, <1>10, <2>1, AppendReplays DEF Replays
  <1> QED
    BY <1>1, <1>4, <1>11, <1>12, <1>13 DEF OutboxReplaysState

(* Lemma: Commit never gives a key a second envelope: the key it commits   *)
(* was in no inbox, hence behind no envelope.                              *)
LEMMA CommitEffectsOnce ==
  ASSUME IInv, NEW w \in Workers, Commit(w),
         NEW p \in Payments, p = event[w].paymentId
  PROVE  ExactlyOnceEffects'
  <1> DEFINE key == DedupeKey(event[w])
  <1>1. /\ event[w] \in Events /\ key \in Keys \ inbox
        /\ inbox' = inbox \cup {key}
        /\ CommitsNothing(p, w) \/ CommitsAlert(p, w) \/ CommitsMove(p, w)
    BY CommitCases
  <1>2. /\ outbox \in [Payments -> Seq(Envelopes)]
        /\ \A q \in Payments : EffectsOnce(q)
    BY DEF IInv, TypeOK, ExactlyOnceEffects
  <1>3. \/ outbox' = outbox
        \/ \E env : /\ env.source = key
                    /\ outbox' = [outbox EXCEPT ![p] = Append(outbox[p], env)]
    <2>1. CASE CommitsNothing(p, w)
      BY <2>1 DEF CommitsNothing
    <2>2. CASE CommitsAlert(p, w)
      BY <2>2 DEF CommitsAlert, Envelope
    <2>3. CASE CommitsMove(p, w)
      BY <2>3 DEF CommitsMove, Envelope
    <2> QED
      BY <1>1, <2>1, <2>2, <2>3
  <1> HIDE DEF key
  <1>4. CASE outbox' = outbox
    BY <1>1, <1>2, <1>4 DEF ExactlyOnceEffects, EffectsOnce
  <1>5. ASSUME NEW env, env.source = key,
               outbox' = [outbox EXCEPT ![p] = Append(outbox[p], env)]
        PROVE  ExactlyOnceEffects'
    <2>1. ASSUME NEW q \in Payments, q # p
          PROVE  EffectsOnce(q)'
      <3>1. outbox'[q] = outbox[q]
        BY <1>2, <1>5, <2>1
      <3> QED
        BY <1>1, <1>2, <3>1 DEF EffectsOnce
    <2>2. EffectsOnce(p)'
      <3> DEFINE s == outbox[p]
                 n == Len(s)
                 t == Append(s, env)
      <3>1. s \in Seq(Envelopes) /\ n \in Nat
        BY <1>2
      <3>2. /\ DOMAIN s = 1 .. n /\ DOMAIN t = 1 .. n + 1
            /\ t[n + 1] = env /\ \A i \in 1 .. n : t[i] = s[i]
        BY <3>1
      <3>3. outbox'[p] = t
        BY <1>2, <1>5
      <3>4. /\ \A i \in 1 .. n : s[i].source \in inbox
            /\ \A i, j \in 1 .. n : s[i].source = s[j].source => i = j
        BY <1>2, <3>2 DEF EffectsOnce
      <3> HIDE DEF s, n, t
      <3>5. \A i \in 1 .. n + 1 : t[i].source \in inbox'
        BY <1>1, <1>5, <3>1, <3>2, <3>4
      <3>6. ASSUME NEW i \in 1 .. n + 1, NEW j \in 1 .. n + 1,
                   t[i].source = t[j].source
            PROVE  i = j
        <4>1. CASE i \in 1 .. n /\ j \in 1 .. n
          BY <3>2, <3>4, <3>6, <4>1
        <4>2. CASE i = n + 1 /\ j \in 1 .. n
          BY <1>1, <1>5, <3>2, <3>4, <3>6, <4>2
        <4>3. CASE i \in 1 .. n /\ j = n + 1
          BY <1>1, <1>5, <3>2, <3>4, <3>6, <4>3
        <4> QED
          BY <3>1, <4>1, <4>2, <4>3
      <3> QED
        BY <3>2, <3>3, <3>5, <3>6 DEF EffectsOnce
    <2> QED
      BY <2>1, <2>2 DEF ExactlyOnceEffects
  <1> QED
    BY <1>3, <1>4, <1>5

(* Lemma: Commit accounts for the report it commits, keeps accounting for  *)
(* the earlier ones, and raises an alert only about a failure.             *)
LEMMA CommitReports ==
  ASSUME IInv, NEW w \in Workers, Commit(w),
         NEW p \in Payments, p = event[w].paymentId
  PROVE  (\A q \in Payments : ReportsAccounted(q)') /\ NoFalseAlarm'
  <1> DEFINE key  == DedupeKey(event[w])
             to   == TargetStateOf(event[w].type)
             from == payment[p].state
  <1>1. /\ event[w] \in Events /\ key \in Keys \ inbox /\ key.paymentId = p
        /\ inbox' = inbox \cup {key}
        /\ LockedRow(event[w]).state = from
        /\ Decision(w) = Decide(from, event[w].type)
        /\ CommitsNothing(p, w) \/ CommitsAlert(p, w) \/ CommitsMove(p, w)
    BY CommitCases
  <1>2. /\ payment \in [Payments -> Rows \cup {NoRow}]
        /\ outbox \in [Payments -> Seq(Envelopes)]
        /\ inbox \subseteq Keys
        /\ \A q \in Payments : ReportsAccounted(q)
        /\ NoFalseAlarm
    BY DEF IInv, TypeOK
  <1>3. key.type = event[w].type /\ event[w].type \in PAYMENT_EVENT_TYPES
    BY <1>1, BuilderTypes DEF DedupeKey
  <1>4. from \in PAYMENT_STATES
    BY <1>2 DEF Rows, NoRow, PAYMENT_STATES
  <1>5. to \in PAYMENT_STATES
    BY <1>3, LifecycleTypes
  <1>6. /\ Decision(w) = "conflict" => from = "FAILED" \/ to = "FAILED"
        /\ Decision(w) = "apply" =>
             /\ from \notin {"SETTLED", "FAILED"}
             /\ to = "FAILED" => from # "CAPTURED"
             /\ to # "FAILED" => RankOf(to) > RankOf(from)
        /\ Decision(w) = "noop" =>
             /\ to = "FAILED" => from = "FAILED"
             /\ to # "FAILED" /\ from = "FAILED" => to = "INITIATED"
             /\ to # "FAILED" /\ from # "FAILED" => RankOf(to) <= RankOf(from)
    BY <1>1, <1>3, <1>4, DecideCases
  <1>7. ASSUME NEW q \in Payments, q # p
        PROVE  ReportsAccounted(q)' /\ (ConflictSurfaced(q) => Processed(q, {"FAILED"}))'
    <2>1. payment'[q] = payment[q] /\ outbox'[q] = outbox[q]
      BY <1>1, <1>2, <1>7 DEF CommitsNothing, CommitsAlert, CommitsMove
    <2>2. \A k \in inbox' : k.paymentId = q => k \in inbox
      BY <1>1, <1>7
    <2>3. inbox \subseteq inbox'
      BY <1>1
    <2>4. ReportsAccounted(q) /\ (ConflictSurfaced(q) => Processed(q, {"FAILED"}))
      BY <1>2 DEF NoFalseAlarm
    <2>5. /\ ConflictSurfaced(q)' <=> ConflictSurfaced(q)
          /\ \A T : Processed(q, T) => Processed(q, T)'
      BY <2>1, <2>3 DEF ConflictSurfaced, Processed
    <2>6. ReportsAccounted(q)'
      BY <2>1, <2>2, <2>4, <2>5 DEF ReportsAccounted
    <2> QED
      BY <2>4, <2>5, <2>6
  <1>8. \A T : Processed(p, T) => Processed(p, T)'
    BY <1>1 DEF Processed
  <1>9. \A T : to \in T => Processed(p, T)'
    BY <1>1, <1>3 DEF Processed
  <1>10. /\ payment'[p].state = IF Decision(w) = "apply" THEN to ELSE from
         /\ Decision(w) \in {"noop", "conflict", "apply"}
    <2>1. AdvancedRow(LockedRow(event[w]), event[w]).state = to
      BY DEF AdvancedRow
    <2> QED
      BY <1>1, <1>2, <2>1 DEF CommitsNothing, CommitsAlert, CommitsMove
  <1>11. /\ ConflictSurfaced(p) => ConflictSurfaced(p)'
         /\ Decision(w) = "conflict" => ConflictSurfaced(p)'
         /\ Decision(w) # "conflict" => (ConflictSurfaced(p)' => ConflictSurfaced(p))
    <2>1. outbox[p] \in Seq(Envelopes)
      BY <1>2
    <2>2. CASE CommitsNothing(p, w)
      BY <2>2 DEF CommitsNothing, ConflictSurfaced
    <2>3. CASE CommitsAlert(p, w)
      <3>1. PICK env : env.type = "PAYMENT_CONFLICT" /\ outbox'[p] = Append(outbox[p], env)
        BY <1>2, <2>3 DEF CommitsAlert, Envelope
      <3>2. /\ Len(outbox[p]) + 1 \in DOMAIN outbox'[p]
            /\ outbox'[p][Len(outbox[p]) + 1] = env
            /\ \A i \in DOMAIN outbox[p] :
                 i \in DOMAIN outbox'[p] /\ outbox'[p][i] = outbox[p][i]
        BY <2>1, <3>1
      <3> QED
        BY <2>3, <3>1, <3>2 DEF ConflictSurfaced, CommitsAlert
    <2>4. CASE CommitsMove(p, w)
      <3>1. PICK env : env.type = EffectForState(to) /\ outbox'[p] = Append(outbox[p], env)
        BY <1>2, <2>4 DEF CommitsMove, Envelope
      <3>2. env.type # "PAYMENT_CONFLICT"
        BY <3>1 DEF EffectForState
      <3>3. \A i \in DOMAIN outbox'[p] :
              \/ i \in DOMAIN outbox[p] /\ outbox'[p][i] = outbox[p][i]
              \/ outbox'[p][i] = env
        BY <2>1, <3>1
      <3>4. \A i \in DOMAIN outbox[p] :
              i \in DOMAIN outbox'[p] /\ outbox'[p][i] = outbox[p][i]
        BY <2>1, <3>1
      <3> QED
        BY <2>4, <3>2, <3>3, <3>4 DEF ConflictSurfaced, CommitsMove
    <2> QED
      BY <1>1, <2>2, <2>3, <2>4
  <1> HIDE DEF key, to, from
  <1>12. (ConflictSurfaced(p) => Processed(p, {"FAILED"}))'
    <2>1. from = "FAILED" => Processed(p, {"FAILED"})
      BY <1>2 DEF ReportsAccounted, from
    <2> QED
      BY <1>2, <1>6, <1>8, <1>9, <1>11, <2>1 DEF NoFalseAlarm
  <1>13. ReportsAccounted(p)'
    <2>1. (payment[p].state = "INITIATED" \/ Processed(p, {payment[p].state}))'
      <3>1. from = "INITIATED" \/ Processed(p, {from})
        BY <1>2 DEF ReportsAccounted, from
      <3>2. \A T : from \in T /\ from # "INITIATED" => Processed(p, T)'
        BY <3>1, <1>8 DEF Processed
      <3>3. \A T : payment'[p].state \in T /\ payment'[p].state # "INITIATED"
                    => Processed(p, T)'
        BY <1>9, <1>10, <3>2
      <3> QED
        BY <3>3 DEF Processed
    <2>2. ASSUME NEW k \in inbox', k.paymentId = p
          PROVE  LET target == TargetStateOf(k.type) IN
                 \/ ConflictSurfaced(p)'
                 \/ target = "FAILED" /\ payment'[p].state = "FAILED"
                 \/ /\ target # "FAILED"
                    /\ \/ payment'[p].state = "FAILED" /\ RankOf(target) <= 1
                       \/ /\ payment'[p].state # "FAILED"
                          /\ RankOf(target) <= RankOf(payment'[p].state)
      <3> DEFINE target == TargetStateOf(k.type)
      <3>1. CASE k = key
        <4>1. target = to
          BY <1>3, <3>1 DEF to
        <4> QED
          BY <1>5, <1>6, <1>10, <1>11, <4>1 DEF RankOf, PAYMENT_STATES
      <3>2. CASE k \in inbox
        <4>1. \/ ConflictSurfaced(p)
              \/ target = "FAILED" /\ from = "FAILED"
              \/ /\ target # "FAILED"
                 /\ \/ from = "FAILED" /\ RankOf(target) <= 1
                    \/ from # "FAILED" /\ RankOf(target) <= RankOf(from)
          BY <1>2, <2>2, <3>2 DEF ReportsAccounted, from
        <4>2. target \in PAYMENT_STATES
          BY <1>2, <3>2, LifecycleTypes DEF Keys
        <4> HIDE DEF target
        <4>3. /\ RankOf(target) \in Nat /\ RankOf(from) \in Nat /\ RankOf(to) \in Nat
              /\ from \notin {"CAPTURED", "SETTLED", "FAILED"} => RankOf(from) <= 1
          BY <1>4, <1>5, <4>2 DEF RankOf, PAYMENT_STATES
        <4>4. CASE Decision(w) = "apply"
          BY <1>6, <1>10, <1>11, <4>1, <4>3, <4>4 DEF target
        <4>5. CASE Decision(w) # "apply"
          BY <1>10, <1>11, <4>1, <4>5 DEF target
        <4> QED
          BY <4>4, <4>5
      <3> QED
        BY <1>1, <2>2, <3>1, <3>2 DEF key
    <2> QED
      BY <2>1, <2>2 DEF ReportsAccounted
  <1> QED
    BY <1>7, <1>12, <1>13 DEF NoFalseAlarm

-----------------------------------------------------------------------------
(* The safety theorems.                                                    *)

(* Lemma: every step of the machine preserves the inductive invariant.     *)
LEMMA InvStep == IInv /\ [Next]_vars => IInv'
  <1> SUFFICES ASSUME IInv, [Next]_vars PROVE IInv'
    OBVIOUS
  <1>1. TypeOK'
    BY TypeStep DEF IInv
  <1>2. CASE UNCHANGED vars
    <2>1. DatabaseInv'
      BY <1>2, DatabaseStutter DEF IInv, DatabaseInv, vars, database
    <2>2. Exclusive'
      BY <1>2 DEF IInv, Exclusive, Claimed, Locking, vars
    <2>3. \A w \in Workers : OpenTransaction(w)'
      BY <1>2 DEF IInv, OpenTransaction, StagedAgrees, Decision, Claimed,
                  Locking, LockedRow, Exists, vars
    <2> QED
      BY <1>1, <2>1, <2>2, <2>3 DEF IInv, DatabaseInv
  <1>3. ASSUME NEW w \in Workers, ClaimDuplicate(w) \/ Rollback(w)
        PROVE  IInv'
    BY <1>1, <1>3, ReleaseStep DEF ClaimDuplicate, Rollback
  <1>4. ASSUME NEW w \in Workers,
               \/ \E e \in Events : Deliver(w, e)
               \/ ClaimFresh(w) \/ EnsureAndLock(w) \/ Ignore(w)
               \/ SurfaceConflict(w) \/ Advance(w) \/ Emit(w)
        PROVE  IInv'
    BY <1>1, <1>4, StatementStep
  <1>5. ASSUME NEW w \in Workers, Commit(w)
        PROVE  IInv'
    <2>1. event[w].paymentId \in Payments
      BY <1>5, CommitCases
    <2>2. OutboxReplaysState'
      BY <1>5, <2>1, CommitReplays
    <2>3. ExactlyOnceEffects'
      BY <1>5, <2>1, CommitEffectsOnce
    <2>4. (\A q \in Payments : ReportsAccounted(q)') /\ NoFalseAlarm'
      BY <1>5, <2>1, CommitReports
    <2>5. Exclusive' /\ \A v \in Workers : OpenTransaction(v)'
      BY <1>1, <1>5, CommitLeavesOthers
    <2> QED
      BY <1>1, <2>2, <2>3, <2>4, <2>5 DEF IInv
  <1> QED
    BY <1>2, <1>3, <1>4, <1>5 DEF Next, Step

(* Lemma: the initial states satisfy the inductive invariant.              *)
LEMMA InvInit == Init => IInv
  <1> SUFFICES ASSUME Init PROVE IInv
    OBVIOUS
  <1>1. TypeOK
    BY DEF Init, TypeOK, PCs
  <1>2. Exclusive /\ \A w \in Workers : OpenTransaction(w)
    BY DEF Init, Exclusive, OpenTransaction, StagedAgrees, Claimed, Locking
  <1>3. OutboxReplaysState /\ ExactlyOnceEffects
    BY DEF Init, OutboxReplaysState, Replays, LastState, ExactlyOnceEffects,
           EffectsOnce, NoRow
  <1>4. (\A p \in Payments : ReportsAccounted(p)) /\ NoFalseAlarm
    BY DEF Init, ReportsAccounted, NoFalseAlarm, ConflictSurfaced, NoRow
  <1> QED
    BY <1>1, <1>2, <1>3, <1>4 DEF IInv

(* The inductive invariant holds in every reachable state.                 *)
THEOREM InvariantHolds == Spec => []IInv
  BY InvInit, InvStep, PTL DEF Spec

(* The outbox of every payment is a gap-free history of its state: no lost *)
(* update, no effect without its transition, no transition without its     *)
(* effect.                                                                 *)
THEOREM OutboxReplays == Spec => []OutboxReplaysState
  <1>1. IInv => OutboxReplaysState
    BY DEF IInv
  <1> QED
    BY <1>1, InvariantHolds, PTL

(* No dedupe key is ever behind two envelopes, and none is behind an       *)
(* envelope without being committed in the inbox.                          *)
THEOREM EffectsExactlyOnce == Spec => []ExactlyOnceEffects
  <1>1. IInv => ExactlyOnceEffects
    BY DEF IInv
  <1> QED
    BY <1>1, InvariantHolds, PTL

(* A payment reported captured or settled by one source and failed by      *)
(* another has a conflict alert, in whatever order the reports committed.  *)
THEOREM DisagreementIsSurfaced == Spec => []DisagreementSurfaced
  <1>1. IInv => DisagreementSurfaced
    <2> SUFFICES ASSUME IInv, NEW p \in Payments,
                        Processed(p, {"CAPTURED", "SETTLED"}),
                        Processed(p, {"FAILED"})
                 PROVE  ConflictSurfaced(p)
      BY DEF DisagreementSurfaced
    <2>1. PICK k \in inbox : /\ k.paymentId = p
                             /\ TargetStateOf(k.type) \in {"CAPTURED", "SETTLED"}
      BY DEF Processed
    <2>2. PICK f \in inbox : f.paymentId = p /\ TargetStateOf(f.type) = "FAILED"
      BY DEF Processed
    <2>3. ReportsAccounted(p)
      BY DEF IInv
    <2>4. ConflictSurfaced(p) \/ payment[p].state = "FAILED"
      BY <2>2, <2>3 DEF ReportsAccounted
    <2>5. ConflictSurfaced(p) \/ payment[p].state # "FAILED"
      BY <2>1, <2>3 DEF ReportsAccounted, RankOf
    <2> QED
      BY <2>4, <2>5
  <1> QED
    BY <1>1, InvariantHolds, PTL

(* No conflict alert without a reported failure.                           *)
THEOREM AlarmsAreJustified == Spec => []NoFalseAlarm
  <1>1. IInv => NoFalseAlarm
    BY DEF IInv
  <1> QED
    BY <1>1, InvariantHolds, PTL

(* Without a reported failure, the state is the highest report, in every   *)
(* order and under every interleaving of the callers.                      *)
THEOREM StateConverges == Spec => []ConvergesToHighestReport
  <1>1. IInv => ConvergesToHighestReport
    <2> SUFFICES ASSUME IInv, NEW p \in Payments, ~Processed(p, {"FAILED"})
                 PROVE  /\ payment[p].state = "INITIATED" \/ Processed(p, {payment[p].state})
                        /\ \A k \in inbox :
                             k.paymentId = p =>
                               RankOf(TargetStateOf(k.type)) <= RankOf(payment[p].state)
      BY DEF ConvergesToHighestReport
    <2>1. ReportsAccounted(p) /\ ~ConflictSurfaced(p)
      BY DEF IInv, NoFalseAlarm
    <2>2. payment[p].state # "FAILED"
      BY <2>1 DEF ReportsAccounted
    <2>3. \A k \in inbox : k.paymentId = p => TargetStateOf(k.type) # "FAILED"
      BY DEF Processed
    <2> QED
      BY <2>1, <2>2, <2>3 DEF ReportsAccounted
  <1> QED
    BY <1>1, InvariantHolds, PTL

-----------------------------------------------------------------------------
(* Action properties: what a step may do to a committed row.               *)

(* Lemma: a step either leaves the payment table alone or is a commit.     *)
LEMMA OnlyCommitWritesRows ==
  ASSUME [Next]_vars
  PROVE  payment' = payment \/ \E w \in Workers : Commit(w)
  BY DEF Next, Step, Deliver, ClaimFresh, ClaimDuplicate, EnsureAndLock, Ignore,
         SurfaceConflict, Advance, Emit, Rollback, database, vars

(* A committed payment only takes edges that decide allows, one version at *)
(* a time: terminal states are immutable, a captured payment is never      *)
(* wiped, a failed one never resurrected.                                  *)
THEOREM OnlyAdvances == Spec => LifecycleOnlyAdvances
  <1>1. IInv /\ [Next]_vars => [\A p \in Payments : LifecycleStep(p)]_vars
    <2> SUFFICES ASSUME IInv, [Next]_vars, NEW q \in Payments
                 PROVE  LifecycleStep(q)
      OBVIOUS
    <2>1. CASE payment' = payment
      BY <2>1 DEF LifecycleStep
    <2>2. ASSUME NEW w \in Workers, Commit(w)
          PROVE  LifecycleStep(q)
      <3> DEFINE p   == event[w].paymentId
                 row == LockedRow(event[w])
                 to  == TargetStateOf(event[w].type)
      <3>1. /\ event[w] \in Events /\ p \in Payments
            /\ row.state = payment[p].state
            /\ Decision(w) = Decide(payment[p].state, event[w].type)
            /\ CommitsNothing(p, w) \/ CommitsAlert(p, w) \/ CommitsMove(p, w)
        BY <2>2, CommitCases
      <3>2. payment \in [Payments -> Rows \cup {NoRow}]
        BY DEF IInv, TypeOK
      <3>3. CASE q # p
        BY <3>1, <3>2, <3>3
        DEF LifecycleStep, CommitsNothing, CommitsAlert, CommitsMove
      <3>4. CASE q = p /\ (CommitsNothing(p, w) \/ CommitsAlert(p, w))
        BY <3>1, <3>2, <3>4 DEF LifecycleStep, CommitsNothing, CommitsAlert
      <3>5. CASE q = p /\ CommitsMove(p, w)
        <4>1. payment'[q] = AdvancedRow(row, event[w])
          BY <3>1, <3>2, <3>5 DEF CommitsMove
        <4>2. payment'[q].state = to /\ payment'[q].version = row.version + 1
          BY <4>1 DEF AdvancedRow
        <4>3. payment[p].state \in PAYMENT_STATES /\ event[w].type \in PAYMENT_EVENT_TYPES
          BY <3>1, <3>2, BuilderTypes DEF Rows, NoRow, PAYMENT_STATES
        <4>4. Advances(payment[q].state, to)
          BY <3>1, <3>5, <4>3, DecideCases DEF CommitsMove
        <4>5. row.version + 1 = IF Exists(q) THEN payment[q].version + 1 ELSE 2
          BY <3>5 DEF LockedRow, SeedRow
        <4> QED
          BY <4>2, <4>4, <4>5 DEF LifecycleStep
      <3> QED
        BY <3>1, <3>3, <3>4, <3>5
    <2> QED
      BY <2>1, <2>2, OnlyCommitWritesRows
  <1> QED
    BY <1>1, InvariantHolds, PTL DEF Spec, LifecycleOnlyAdvances

(* Once a row is attributed to a site and a rail, no later event changes   *)
(* its attribution.                                                        *)
THEOREM AttributionIsStable == Spec => AttributionSticks
  <1> DEFINE Sticks == \A p \in Payments :
               payment[p].attr # NoAttr => payment'[p].attr = payment[p].attr
  <1>1. IInv /\ [Next]_vars => [Sticks]_vars
    <2> SUFFICES ASSUME IInv, [Next]_vars, NEW q \in Payments,
                        payment[q].attr # NoAttr
                 PROVE  payment'[q].attr = payment[q].attr
      OBVIOUS
    <2>1. ASSUME NEW w \in Workers, Commit(w)
          PROVE  payment'[q].attr = payment[q].attr
      <3> DEFINE p == event[w].paymentId
      <3>1. /\ p \in Payments
            /\ CommitsNothing(p, w) \/ CommitsAlert(p, w) \/ CommitsMove(p, w)
        BY <2>1, CommitCases
      <3>2. payment \in [Payments -> Rows \cup {NoRow}]
        BY DEF IInv, TypeOK
      <3>3. q = p => LockedRow(event[w]) = payment[q]
        BY DEF LockedRow, Exists, NoRow
      <3>4. CASE q # p
        BY <3>1, <3>2, <3>4 DEF CommitsNothing, CommitsAlert, CommitsMove
      <3>5. CASE q = p
        BY <3>1, <3>2, <3>3, <3>5
        DEF CommitsNothing, CommitsAlert, CommitsMove, AdvancedRow, Coalesce
      <3> QED
        BY <3>4, <3>5
    <2> QED
      BY <2>1, OnlyCommitWritesRows
  <1> QED
    BY <1>1, InvariantHolds, PTL DEF Spec, AttributionSticks

-----------------------------------------------------------------------------
(* The refinement.  The committed state of every payment and the committed *)
(* outbox, stripped of attribution and source, behave as the abstract      *)
(* state and journal do.  A commit is a Move, a Contradict or a stutter;   *)
(* every other statement is a stutter.  The second part counts the         *)
(* transitions behind a version.                                           *)

(* The abstract variables.                                                 *)
AbsState   == [p \in Payments |-> payment[p].state]
AbsJournal == [p \in Payments |-> JournalOf(outbox[p])]

(* Lemma: what decide applies is an edge of the lifecycle diagram, and     *)
(* what it reports as a conflict contradicts a contradictable state.       *)
LEMMA DecideTakesEdges ==
  ASSUME NEW current \in PAYMENT_STATES, NEW type \in PAYMENT_EVENT_TYPES
  PROVE  /\ Decide(current, type) = "apply" =>
              <<current, TargetStateOf(type)>> \in Ladder!Transitions
         /\ Decide(current, type) = "conflict" =>
              current \in Ladder!Contradictable
  <1> DEFINE target == TargetStateOf(type)
  <1>1. target \in PAYMENT_STATES
    BY LifecycleTypes
  <1>2. /\ Decide(current, type) = "conflict" =>
             current \in {"CAPTURED", "SETTLED", "FAILED"}
        /\ Decide(current, type) = "apply" =>
             /\ current \notin {"SETTLED", "FAILED"}
             /\ target = "FAILED" => current # "CAPTURED"
             /\ target # "FAILED" => RankOf(target) > RankOf(current)
    BY DecideCases
  <1> HIDE DEF target
  <1> QED
    BY <1>1, <1>2
    DEF target, Ladder!Transitions, Ladder!Contradictable, PAYMENT_STATES, RankOf

(* Lemma: a function on 1 .. n is a sequence of length n.                  *)
LEMMA FunctionIsSeq ==
  ASSUME NEW S, NEW n \in Nat, NEW f \in [1 .. n -> S]
  PROVE  f \in Seq(S) /\ Len(f) = n
  <1>1. f \in Seq(S)
    BY SeqDef
  <1>2. Len(f) \in Nat /\ DOMAIN f = 1 .. Len(f) /\ DOMAIN f = 1 .. n
    BY <1>1, LenProperties
  <1> QED
    BY <1>1, <1>2

(* Lemma: the journal of a longer outbox is the longer journal.            *)
LEMMA JournalAppend ==
  ASSUME NEW s \in Seq(Envelopes), NEW env \in Envelopes
  PROVE  JournalOf(Append(s, env)) =
           Append(JournalOf(s), [type |-> env.type, fromState |-> env.fromState,
                                 toState |-> env.toState])
  <1> DEFINE Entries == [type : PAYMENT_EFFECTS, fromState : PAYMENT_STATES,
                         toState : PAYMENT_STATES]
             entry == [type |-> env.type, fromState |-> env.fromState,
                       toState |-> env.toState]
             n == Len(s)
             t == Append(s, env)
  <1>1. entry \in Entries
    BY DEF Envelopes
  <1>2. /\ n \in Nat /\ DOMAIN s = 1 .. n /\ DOMAIN t = 1 .. n + 1
        /\ t[n + 1] = env /\ \A i \in 1 .. n : t[i] = s[i] /\ s[i] \in Envelopes
    OBVIOUS
  <1> HIDE DEF t, n, entry
  <1>3. JournalOf(s) \in [1 .. n -> Entries]
    BY <1>2 DEF JournalOf, Envelopes
  <1>4. JournalOf(s) \in Seq(Entries) /\ Len(JournalOf(s)) = n
    <2> HIDE DEF Entries
    <2> QED
      BY <1>2, <1>3, FunctionIsSeq
  <1>5. JournalOf(t) \in [1 .. n + 1 -> Entries]
    BY <1>1, <1>2, <1>3 DEF JournalOf, Envelopes, entry
  <1>6. JournalOf(t) \in Seq(Entries) /\ Len(JournalOf(t)) = n + 1
    <2>1. n + 1 \in Nat
      BY <1>2
    <2> HIDE DEF Entries
    <2> QED
      BY <1>5, <2>1, FunctionIsSeq
  <1> DEFINE u == Append(JournalOf(s), entry)
  <1>7. /\ u \in Seq(Entries) /\ Len(u) = n + 1
        /\ u[n + 1] = entry /\ \A i \in 1 .. n : u[i] = JournalOf(s)[i]
    BY <1>1, <1>4, AppendProperties
  <1>8. \A i \in 1 .. n : JournalOf(t)[i] = JournalOf(s)[i]
    BY <1>2 DEF JournalOf
  <1>9. JournalOf(t)[n + 1] = entry
    BY <1>2 DEF JournalOf, entry
  <1> HIDE DEF u
  <1>10. \A i \in 1 .. n + 1 : JournalOf(t)[i] = u[i]
    BY <1>2, <1>7, <1>8, <1>9
  <1>11. JournalOf(t) = u
    BY <1>2, <1>6, <1>7, <1>10, SeqEqual
  <1> QED
    BY <1>11 DEF t, u, entry

(* Lemma: a commit is an abstract step.                                    *)
LEMMA CommitIsAbstract ==
  ASSUME IInv, NEW w \in Workers, Commit(w),
         NEW p \in Payments, p = event[w].paymentId
  PROVE  Ladder!Next \/ UNCHANGED <<AbsState, AbsJournal>>
  <1> DEFINE from == payment[p].state
             to   == TargetStateOf(event[w].type)
             alert == Envelope("PAYMENT_CONFLICT", event[w], from, from)
             move  == Envelope(EffectForState(to), event[w], from, to)
  <1>1. /\ event[w] \in Events
        /\ LockedRow(event[w]).state = from
        /\ Decision(w) = Decide(from, event[w].type)
        /\ CommitsNothing(p, w) \/ CommitsAlert(p, w) \/ CommitsMove(p, w)
    BY CommitCases
  <1>2. /\ payment \in [Payments -> Rows \cup {NoRow}]
        /\ outbox \in [Payments -> Seq(Envelopes)]
    BY DEF IInv, TypeOK
  <1>3. from \in PAYMENT_STATES /\ event[w].type \in PAYMENT_EVENT_TYPES
    BY <1>1, <1>2, BuilderTypes DEF Rows, NoRow, PAYMENT_STATES
  <1>4. to \in PAYMENT_STATES /\ EffectForState(to) \in PAYMENT_EFFECTS
    BY <1>3, LifecycleTypes
  <1>5. alert \in Envelopes /\ move \in Envelopes
    BY <1>1, <1>3, <1>4, BuilderTypes DEF PAYMENT_EFFECTS
  <1>6. /\ alert.type = "PAYMENT_CONFLICT"
        /\ alert.fromState = from /\ alert.toState = from
        /\ move.type = EffectForState(to)
        /\ move.fromState = from /\ move.toState = to
    BY DEF Envelope
  <1>7. /\ Decision(w) = "apply" => <<from, to>> \in Ladder!Transitions
        /\ Decision(w) = "conflict" => from \in Ladder!Contradictable
    BY <1>1, <1>3, DecideTakesEdges
  <1>8. AdvancedRow(LockedRow(event[w]), event[w]).state = to
    BY DEF AdvancedRow
  <1>9. AbsState[p] = from /\ AbsJournal[p] = JournalOf(outbox[p])
    BY DEF AbsState, AbsJournal
  <1> HIDE DEF from, to, alert, move
  <1>10. CASE CommitsNothing(p, w)
    BY <1>1, <1>2, <1>10 DEF CommitsNothing, AbsState, AbsJournal, from
  <1>11. CASE CommitsAlert(p, w)
    <2>1. \A q \in Payments : payment'[q].state = payment[q].state
      BY <1>1, <1>2, <1>11 DEF CommitsAlert, from
    <2>2. AbsState' = AbsState
      BY <2>1 DEF AbsState
    <2>3. outbox' = [outbox EXCEPT ![p] = Append(outbox[p], alert)]
      BY <1>11 DEF CommitsAlert, alert, from
    <2>4. JournalOf(outbox'[p]) =
            Append(JournalOf(outbox[p]), Ladder!Entry("PAYMENT_CONFLICT", from, from))
      BY <1>2, <1>5, <1>6, <2>3, JournalAppend DEF Ladder!Entry
    <2>5. AbsJournal' = [AbsJournal EXCEPT ![p] =
            Append(AbsJournal[p], Ladder!Entry("PAYMENT_CONFLICT", from, from))]
      BY <1>2, <1>9, <2>3, <2>4 DEF AbsJournal
    <2>6. from \in Ladder!Contradictable
      BY <1>7, <1>11 DEF CommitsAlert
    <2>7. Ladder!Contradict(p)
      BY <1>9, <2>2, <2>5, <2>6 DEF Ladder!Contradict, AbsState, AbsJournal
    <2> QED
      BY <2>7 DEF Ladder!Next
  <1>12. CASE CommitsMove(p, w)
    <2>1. payment' = [payment EXCEPT ![p] = AdvancedRow(LockedRow(event[w]), event[w])]
      BY <1>12 DEF CommitsMove
    <2>2. AbsState' = [AbsState EXCEPT ![p] = to]
      BY <1>2, <1>8, <2>1 DEF AbsState
    <2>3. outbox' = [outbox EXCEPT ![p] = Append(outbox[p], move)]
      BY <1>12 DEF CommitsMove, move, from, to
    <2>4. JournalOf(outbox'[p]) =
            Append(JournalOf(outbox[p]), Ladder!Entry(EffectForState(to), from, to))
      BY <1>2, <1>5, <1>6, <2>3, JournalAppend DEF Ladder!Entry
    <2>5. AbsJournal' = [AbsJournal EXCEPT ![p] =
            Append(AbsJournal[p], Ladder!Entry(EffectForState(to), from, to))]
      BY <1>2, <1>9, <2>3, <2>4 DEF AbsJournal
    <2>6. <<from, to>> \in Ladder!Transitions
      BY <1>7, <1>12 DEF CommitsMove
    <2>7. Ladder!EffectForState(to) = EffectForState(to)
      BY DEF Ladder!EffectForState, EffectForState
    <2>8. PICK target \in Ladder!PAYMENT_STATES : target = to
      BY <1>4 DEF Ladder!PAYMENT_STATES, PAYMENT_STATES
    <2>9. Ladder!Move(p, target)
      BY <1>9, <2>2, <2>5, <2>6, <2>7, <2>8 DEF Ladder!Move, AbsState, AbsJournal
    <2> QED
      BY <2>8, <2>9 DEF Ladder!Next
  <1> QED
    BY <1>1, <1>10, <1>11, <1>12

(* The state machine over its database implements the abstract promise of  *)
(* the Payment Consistency Layer.                                          *)
THEOREM Refinement == Spec => ImplementsLadder
  <1>1. Init => Ladder!Init
    <2>1. JournalOf(<<>>) = <<>>
      BY DEF JournalOf
    <2> QED
      BY <2>1 DEF Init, Ladder!Init, NoRow
  <1>2. IInv /\ [Next]_vars => [Ladder!Next]_<<AbsState, AbsJournal>>
    <2> SUFFICES ASSUME IInv, [Next]_vars
                 PROVE  Ladder!Next \/ UNCHANGED <<AbsState, AbsJournal>>
      OBVIOUS
    <2>1. ASSUME NEW w \in Workers, Commit(w)
          PROVE  Ladder!Next \/ UNCHANGED <<AbsState, AbsJournal>>
      <3>1. event[w].paymentId \in Payments
        BY <2>1, CommitCases
      <3> QED
        BY <2>1, <3>1, CommitIsAbstract
    <2>2. CASE payment' = payment /\ outbox' = outbox
      BY <2>2 DEF AbsState, AbsJournal
    <2>3. (payment' = payment /\ outbox' = outbox) \/ \E w \in Workers : Commit(w)
      BY DEF Next, Step, Deliver, ClaimFresh, ClaimDuplicate, EnsureAndLock,
             Ignore, SurfaceConflict, Advance, Emit, Rollback, database, vars
    <2> QED
      BY <2>1, <2>2, <2>3
  <1> QED
    BY <1>1, <1>2, InvariantHolds, PTL
    DEF Spec, ImplementsLadder, Ladder!Spec, AbsState, AbsJournal

-----------------------------------------------------------------------------
(* The version of a row counts its transitions.                            *)

Moves(envelopes) ==
  {i \in DOMAIN envelopes : envelopes[i].type # "PAYMENT_CONFLICT"}

VersionInv ==
  \A p \in Payments :
    payment[p].version = (IF Exists(p) THEN 1 ELSE 0) + Cardinality(Moves(outbox[p]))

(* Lemma: an outbox has finitely many transitions, and an appended envelope*)
(* adds one unless it is a conflict alert.                                 *)
LEMMA MovesAppend ==
  ASSUME NEW s \in Seq(Envelopes), NEW env
  PROVE  /\ Cardinality(Moves(s)) \in Nat
         /\ Cardinality(Moves(Append(s, env))) =
              Cardinality(Moves(s)) + (IF env.type = "PAYMENT_CONFLICT" THEN 0 ELSE 1)
  <1> DEFINE n == Len(s)
             t == Append(s, env)
  <1>1. /\ n \in Nat /\ DOMAIN s = 1 .. n /\ DOMAIN t = 1 .. n + 1
        /\ t[n + 1] = env /\ \A i \in 1 .. n : t[i] = s[i]
    OBVIOUS
  <1> HIDE DEF n, t
  <1>2. IsFiniteSet(1 .. n)
    BY <1>1, FS_Interval
  <1>3. Moves(s) \in SUBSET (1 .. n)
    BY <1>1 DEF Moves
  <1>4. IsFiniteSet(Moves(s)) /\ Cardinality(Moves(s)) \in Nat
    BY <1>2, <1>3, FS_Subset, FS_CardinalityType
  <1>5. CASE env.type = "PAYMENT_CONFLICT"
    <2>1. Moves(t) = Moves(s)
      BY <1>1, <1>5 DEF Moves
    <2> QED
      BY <1>4, <1>5, <2>1 DEF t
  <1>6. CASE env.type # "PAYMENT_CONFLICT"
    <2>1. Moves(t) = Moves(s) \cup {n + 1} /\ n + 1 \notin Moves(s)
      BY <1>1, <1>6 DEF Moves
    <2>2. Cardinality(Moves(s) \cup {n + 1}) = Cardinality(Moves(s)) + 1
      BY <1>4, <2>1, FS_AddElement
    <2> QED
      BY <1>4, <1>6, <2>1, <2>2 DEF t
  <1> QED
    BY <1>5, <1>6

(* Lemma: a commit adds one to the version exactly if it adds a transition *)
(* to the outbox.                                                          *)
LEMMA CommitCounts ==
  ASSUME IInv, VersionInv, NEW w \in Workers, Commit(w),
         NEW p \in Payments, p = event[w].paymentId
  PROVE  VersionInv'
  <1> DEFINE to    == TargetStateOf(event[w].type)
             row   == LockedRow(event[w])
             moves == Cardinality(Moves(outbox[p]))
  <1>1. /\ event[w] \in Events
        /\ CommitsNothing(p, w) \/ CommitsAlert(p, w) \/ CommitsMove(p, w)
    BY CommitCases
  <1>2. /\ payment \in [Payments -> Rows \cup {NoRow}]
        /\ outbox \in [Payments -> Seq(Envelopes)]
    BY DEF IInv, TypeOK
  <1>3. outbox[p] \in Seq(Envelopes) /\ moves \in Nat
    BY <1>2, MovesAppend
  <1>4. ASSUME NEW q \in Payments, q # p
        PROVE  payment'[q] = payment[q] /\ outbox'[q] = outbox[q]
    BY <1>1, <1>2, <1>4 DEF CommitsNothing, CommitsAlert, CommitsMove
  <1>5. row \in Rows /\ row.version = 1 + moves
    <2>1. CASE Exists(p)
      BY <1>2, <2>1 DEF VersionInv, LockedRow, Exists
    <2>2. CASE ~Exists(p)
      <3>1. payment[p].version = 0
        BY <2>2 DEF Exists, NoRow
      <3>2. moves = 0
        BY <1>3, <2>2, <3>1 DEF VersionInv
      <3>3. row = SeedRow(event[w])
        BY <2>2 DEF LockedRow
      <3> QED
        BY <1>1, <3>2, <3>3, BuilderTypes DEF SeedRow
    <2> QED
      BY <2>1, <2>2
  <1>6. AdvancedRow(row, event[w]) \in Rows
        /\ AdvancedRow(row, event[w]).version = row.version + 1
    BY <1>1, <1>5, BuilderTypes DEF AdvancedRow
  <1>7. /\ \A r \in Rows : r # NoRow
        /\ EffectForState(to) # "PAYMENT_CONFLICT"
    BY DEF Rows, NoRow, EffectForState
  <1> HIDE DEF to, row, moves
  <1>8. Exists(p)' /\ payment'[p].version = 1 + Cardinality(Moves(outbox'[p]))
    <2>1. CASE CommitsNothing(p, w)
      BY <1>2, <1>5, <1>7, <2>1 DEF CommitsNothing, Exists, row, moves
    <2>2. CASE CommitsAlert(p, w)
      <3>1. payment'[p] = row
        BY <1>2, <2>2 DEF CommitsAlert, row
      <3>2. PICK env : env.type = "PAYMENT_CONFLICT" /\ outbox'[p] = Append(outbox[p], env)
        BY <1>2, <2>2 DEF CommitsAlert, Envelope
      <3>3. Cardinality(Moves(outbox'[p])) = moves
        BY <1>3, <3>2, MovesAppend DEF moves
      <3> QED
        BY <1>5, <1>7, <3>1, <3>3 DEF Exists
    <2>3. CASE CommitsMove(p, w)
      <3>1. payment'[p] = AdvancedRow(row, event[w])
        BY <1>2, <2>3 DEF CommitsMove, row
      <3>2. PICK env : env.type = EffectForState(to) /\ outbox'[p] = Append(outbox[p], env)
        BY <1>2, <2>3 DEF CommitsMove, Envelope, to
      <3>3. Cardinality(Moves(outbox'[p])) = moves + 1
        BY <1>3, <1>7, <3>2, MovesAppend DEF moves
      <3> QED
        BY <1>3, <1>5, <1>6, <1>7, <3>1, <3>3 DEF Exists
    <2> QED
      BY <1>1, <2>1, <2>2, <2>3
  <1> QED
    BY <1>4, <1>8 DEF VersionInv, Exists

(* The version of every committed row is one more than the number of its   *)
(* transitions in the outbox.                                              *)
THEOREM VersionsCount == Spec => []VersionCountsTransitions
  <1>1. Init => VersionInv
    <2>1. Moves(<<>>) = {}
      BY DEF Moves
    <2>2. Cardinality(Moves(<<>>)) = 0
      BY <2>1, FS_EmptySet
    <2> QED
      BY <2>2 DEF Init, VersionInv, Exists, NoRow
  <1>2. IInv /\ VersionInv /\ [Next]_vars => VersionInv'
    <2> SUFFICES ASSUME IInv, VersionInv, [Next]_vars PROVE VersionInv'
      OBVIOUS
    <2>1. ASSUME NEW w \in Workers, Commit(w)
          PROVE  VersionInv'
      <3>1. event[w].paymentId \in Payments
        BY <2>1, CommitCases
      <3> QED
        BY <2>1, <3>1, CommitCounts
    <2>2. CASE payment' = payment /\ outbox' = outbox
      BY <2>2 DEF VersionInv, Exists
    <2>3. (payment' = payment /\ outbox' = outbox) \/ \E w \in Workers : Commit(w)
      BY DEF Next, Step, Deliver, ClaimFresh, ClaimDuplicate, EnsureAndLock,
             Ignore, SurfaceConflict, Advance, Emit, Rollback, database, vars
    <2> QED
      BY <2>1, <2>2, <2>3
  <1>3. VersionInv => VersionCountsTransitions
    BY DEF VersionInv, VersionCountsTransitions, Moves
  <1> QED
    BY <1>1, <1>2, <1>3, InvariantHolds, PTL DEF Spec
=============================================================================
